# loadbearer in TLA+

Specifications, model-checking runs and machine-checked proofs for `loadbearer`,
the machine benchmark in this repository. Paths below are relative to the crate
(`src/` is the crate's `src/`).

## 1. The system

`loadbearer run` resolves its settings, asks a few gates whether to run at all,
measures a list of benchmarks, scores them, optionally soaks the machine, and
delivers one JSON document to stdout, a file and a fleet server. At a terminal a
worker thread measures while the main thread draws and reads keys. Most of the
state that can go wrong sits in these places.

| component | state it keeps | operations | interacts with | what is hard |
|---|---|---|---|---|
| **interactive session** (`tui/mod.rs`, `tui/app.rs`, `engine/mod.rs`) | worker position, outcomes, notes; mpsc channel; `abort` flag; `App` mirror; `ChannelProgress` cursor | engine steps, `on_event`, `apply`, keys, `resolve`, join | worker and screen over the channel and the flag | interleavings; a cancel racing the last message; events without indices; a flag that is only looked at between subtests |
| **run pipeline** (`run.rs`, `gates.rs`, `upload.rs`, `main.rs`) | phase and exit code of an invocation; `--output` file and its mtime; attempt and reply | gates, run, `write_output`, `post`, retry, `deliver`, exit | overlapping invocations through the file; the server over the network | kills between two steps, lost answers, refusals, retries, a check-then-run gate |
| **disk scratch** (`benches/disk.rs`) | one scratch file per pid, cached path, mtime | sweep, fill, open, write, drop | other runs in the same directory | deletion by age, pid reuse, partial fills, kills |
| **network benchmark** (`benches/network.rs`) | listener, connections, drain threads, stop flag | accept, connect, blast, ping-pong, join | client threads and server threads | an acceptor that counts on every client |
| **soak** (`soak.rs`) | per-thread counters, samples | worker batches, sampling loop, `derive` | `abort`, the TUI | late wakes, an abort anywhere, three averages of different width in one verdict |
| **stats and scoring** (`engine/stats.rs`, `telemetry.rs`, `scoring/*`) | none (pure), but what they wrote lives in the file | median, spread, confidence, thermal downgrade, ratios, weights, grade, reasons, a fleet's baseline | every result | boundaries, ungraded components, what must be done before scoring |
| **re-score, compare, models** (`score.rs`, `compare.rs`, `scoring/models.rs`) | result files, read and written again | re-score, compare, model verdict, synthetic file | stored files of other runs and versions | chains of re-scores, files with different subtests, order of arguments |
| **machine block** (`inventory.rs`, `battery.rs`, `power.rs`, `identity.rs`, `drives.rs`, `firmware.rs`, `age.rs`) | one battery reading per process; the block in the file | collect, assess, notes, read back | the gate before it, every report after it | the machine changes between two readings; the file is read years later; two systems read one table |
| **memory scan** (`mem.rs`) | rows so far | list, read, group, print | every process of the machine | processes start, end and exec between two reads |
| **reports and screens** (`output/mod.rs`, `tui/view.rs`, `tui/compare.rs`) | scroll | print, draw, keys | the file | two renderings of one file; clamping only when drawn |
| **config, tags, logging, command line** (`config.rs`, `tags.rs`, `logging.rs`, `cli.rs`, `help.rs`) | log file | precedence, merging, rotation | concurrent processes (log) | not modelled, section 5 |
| kernels, aligned buffers (`benches/{cpu,memory,gpu}`, `benches/disk/aligned.rs`) | none that outlives a call | measuring | | numeric, not modelled |

What makes each component correct:

* session: the screen converges on what the engine did; one outcome, last and
  final; a result is complete in its graded part; a grade that was reached is
  not lost to a cancel; a cancel stops measuring and always returns;
* pipeline: an exit code of 0 or 3 after `--upload` means *delivered*; a failed
  upload leaves the result on disk; one run is indexed once, however it reaches
  the server; no run measures inside another's window; every invocation ends;
* scratch: a benchmark finds its file where it left it; no sweep passes over a
  stale file it may remove; only a kill, a failed fill or a refused removal
  leaves a file;
* network: a subtest returns whatever is refused or reset; a value is returned
  only when its threads are gone and what it counts has crossed the loopback;
* soak: the onset, the retained share and the verdict agree, whatever the series;
* scoring: trust once lowered stays lowered, a re-score loses nothing, a fleet's
  baseline centres the fleet, the reasons given explain the grade;
* comparison: the order of the files does not matter, and the two ways to hold a
  machine against its model agree;
* machine block: it is consistent over systems and rights, it blames what was in
  force when the run read its settings, and its age stays that of the run;
* memory scan: nobody is dropped, nobody is counted twice;
* reports: both renderings caution about the same things, but for what one of
  them is known to leave out; a screen hides no row but those that wrapping adds.

`PROJECT.json` lists the components with their status, every hazard with the line
where it bites, and for each definition the lines it stands for.

## 2. Modules

| module | kind | models |
|---|---|---|
| `Session` | component | worker (`run_benchmarks` around `run_benchmark`, `spawn_worker`), channel, `App::apply`, `event_loop`, `resolve`, `tui::run`'s join |
| `Assessment` | abstract | the contract of `tui::run`: one answer; a result only for a run that did not break; "none" only after a cancel |
| `MCSession` | instance | one graded and two ungraded benchmarks |
| `SessionProofs` | proofs | theorems of `Session` |
| `Delivery` | component | `execute`, gates, `write_output`, `send_with`, `deliver`, exit codes; server and network as the environment |
| `Submission` | abstract | what the exit code promises |
| `MCDelivery` | instance | two invocations, three command lines |
| `DeliveryProofs` | proofs | theorems of `Delivery` |
| `Scratch` | component | `sweep_stale_scratch`, `ensure_scratch`, `fill_scratch`, the open paths, `Scratch::drop`, pids, kills, time |
| `MCScratch` | instance | adds the symmetry of pids |
| `ScratchProofs` | proofs | theorems of `Scratch` |
| `Loopback` | component | `tcp_stream`, `tcp_parallel`, `tcp_rtt`, `udp_pps` with their threads; checked directly, the `.cfg` files give it its constants |
| `LoopbackProofs` | proofs | the inductive invariant and theorems of `Loopback` |
| `DiskMode` | component | `ensure_scratch`, `open_read`, `open_write`, `run_subtest`: past the page cache or through it |
| `Measures` | operators | `Stats::from_runs`, `Confidence`, `RunTelemetry::from_samples`, `downgrade_thermally_limited` |
| `Scoring` | operators | `score_run`, `explain`, `baseline_from_results`, grades, profiles |
| `HeadToHead` | operators | `compare::compare`, `summarize`, `models::compare`, `synthetic_result` |
| `Results` | component | the life of result files over these three: written, re-scored, collected into a baseline |
| `ResultsProofs` | proofs | theorems of `Results` and of the scoring under it |
| `Soak` | component | `resolve_duration`, the sampling loop, `derive`, `rolling_peak`, `throttle_onset`, `verdict` |
| `MemScan` | component | `mem::collect` on Linux and on Windows, `group`, `print_mem` |
| `Machine` | component | `inventory::collect` and the probes under it, `Age::assess`, `for_machine`, `limits`, the battery gate |
| `PartsProofs` | proofs | theorems of `DiskMode` and `Soak` |
| `Reports` | component | over `Machine`: the printed report, the inventory, the results screen, both comparison tables, word wrap, scrolling |
| `ReportsProofs` | proofs | theorems of `Reports` and of the `Machine` under it |
| `DataFacts` | lemmas | induction over finite sets; folds, sums, maxima, flattened sequences |
| `MCParts` | instance | `Results`, `Soak`, `MemScan`, `Reports` and `DiskMode`, one per behaviour |

In every module a definition named *Faulty variant* is a wrong implementation of
the definition below it: no behaviour uses it, it exists to show that a property
notices the mistake (`PROJECT.json`, "mutants").

### Session

`pc` is the worker's place; `b`, `s`, `w`, `r` are `run_benchmarks`' loop index,
`run_benchmark`'s subtest, its warm-ups and its timed runs. `BenchErrs` is the
error path: an ungraded benchmark becomes a note, a graded one sends `Failed` and
ends the worker, leaving the telemetry sampler running. `EmitHere` and
`EmitBenchStart` are `ChannelProgress::on_event` with its cursor. `Apply` is
`App::apply`. The screen is `draw` (fallible), `drain` (`try_recv` until empty,
then the `cancelling && is_finished` exit), `poll` (a key, or none), `join`,
`back`. Measurements are abstracted to "failed", "positive", "not positive";
`ReadsZero` names the benchmarks that can return 0 without an error. `late` is a
history variable that counts the subtests completed since the flag went up.

The draw-drain-poll order is kept because it matters: messages are applied
before the exit test, keys after it. Every message is sent by an action of its
own, so the screen can see the channel between any two of them.

### Delivery

Each run is an invocation of one command line (`opts`). The `--output` file is
who touched it last, what is in it (`absent`, `empty` after the truncating open,
`whole`, `torn`) and its mtime; this is all a later run can see of an earlier
one. `wire` holds documents on their way: one may arrive at any later time, any
number of times, whatever the poster has been told, and `Collect` is the second
way of the same bytes to the server. A document is the run it is of and the
serialisation its bytes come from, because the server recognises a document by
its hash. `Killed` may happen at any step. The battery and idle gates are a
nondeterministic skip, since nothing else depends on their readings.

### Scratch

A process is a pid, which the operating system may hand out again (`Begin`; the
history variable `heir` marks a run that got a dead run's pid while the file, or
a sweep that has looked at it, was still there). The sweep lists the directory, looks at one file at a time and removes
by path in a separate step, so that files are written, dropped or created again
in between. It is best effort in the code and in the model: the directory may not
be listable (`ListFails`), an entry, its metadata or its age may be refused
(`LookFails`), a removal too (`RemoveFails`), and the sweep goes on; so may the
creation of the run's own file (`CreateFails`) and its deletion at the end
(`DropFails`), which the code logs and lives with. The history variable `refused`
keeps what a sweep was not allowed to handle, so that a property can tell a
refusal from an omission. The pids outside `Live` may have left a file before the
behaviour begins and belong to no run in it. `Silence` is an assumption on the environment: how long a benchmark
that is between two disk subtests may go without a write. With `Silence <
StaleAfter` the sweep is safe (`ScratchIsThere`), and the run `scratch_touched`
shows that without the assumption it is not.

### Loopback

One iteration of one subtest, chosen by `kind` and then fixed. `main` is the
thread in `run_subtest`; `client`, `conn` and `drain` are, per stream, the client
loop (`blast`, or the ping-pong), the connection and the thread that reads it;
`server` is the thread that accepts. In `tcp_stream` and `tcp_rtt` the measuring
thread is the only client and the server thread drains by itself, which the model
keeps as two places of the same thread. `ServerEnds` is both the join of the
drains and the drop of the listener, which resets whatever nobody accepted.
`drainer`, `stop` and `queue` are `udp_pps`. The operating system may refuse a
socket or a connect and may reset a connection at any time (`Break`); payloads
are chunks, a connection holds `Buffer` of them, and a full one blocks the
writer. `MaxTries` stands for the time budget. `read` and `refused` are history.

### DiskMode

A call of `run_subtest` is one action, because a run's disk subtests are
sequential; the environment decides of every open whether the filesystem honours
unbuffered I/O (`honoured`), so it may change its mind at any call. `figures`
keeps how each figure was obtained. `warm` says that a read may have come from
the page cache; only Linux can drop a file from it, by a hint the kernel may
ignore (`heeded`), and only before the first pass: the read loops repeat until
their budget is spent, so a buffered read may find in the cache what an earlier
pass or block brought there (`again`).

### Measures, Scoring, HeadToHead, Results

Every ratio, power and geometric mean of the code is a difference, a product and
a mean of logarithms here, kept as integers: `Log` gives a value's logarithm, 720
to the semitone, `k` is in tenths, so that a score counts 7200 to the semitone
from 1000. `Log` is a constant that has only to increase. A score and a
baseline's reference are floored to a whole unit, and a property that relates
means of such figures says how far they may be apart. The means of a comparison
are exact: they are kept in `Shares` to the unit, a number that every number of
subtests divides (`TrialsAssumption`; 6 in the instance), so that a mean over
subtests is a product. The grade bands and
the tolerances are the code's, converted once. Values are doubled, so that a median of an
even number of runs is whole. The coefficient of variation is compared squared.

`HeadToHead` is about names. The code pairs the benchmarks and the subtests of
its files by identifier, in the order of the first file; the model has the set of
identifiers both have and looks each up (`OfId`), since the order of the rows
changes no figure. A component whose common subtests are all informational is
kept (`empty`): the code takes the mean of nothing, which is the same floor for
every file, and reads the two zero ratios as a component the leader lost. A run is held
against its processor's model only; the GPU half of `for_run` does the same with
another table.

`Results` is the only one with state. `WriteResult` is a whole run after its
measuring: telemetry, downgrade, scoring, model reference, file. `Rescore`
replaces a file by its re-scored form, as `score -o` over it does; it may follow
itself, with any baseline. `origin` (each file as first written) and `members`
(the files a baseline was made of) are history.

### Soak

A wake-up of the sampling loop is an action; it may be late, and `rate` is what
the workers did meanwhile. The flag may go up at any time, and the wake after it
ends the soak however little time has gone by. `derive` is a family of
operators over the samples, and comparisons of means are multiplied out.

### MemScan

The scan is one action per read of the operating system: on Linux the name of a
process and its `smaps_rollup` are two, on Windows the names are listed first and
the counters follow. Between any two, `ProcessMoves`. A process is what it is
called, its private memory, whether it maps the shared pages and whether it may
be looked into; that is all the snapshot depends on. The groups are in some
ascending order: the code puts programs of one size by their names, and no property
depends on it. A size is counted in kB and the shared pages are divided in whole
kB, so what the groups add up to may fall short of the memory in use by less
than one for each sharer; the instance has pages that do not divide evenly.

### Machine, Reports

`world` is the machine: what its firmware, drives and operating system would
answer, the power situation, the month. The user changes the situation at any
time (`PowerChanges`): before the run, between its readings and while it measures;
months pass. `GateAsks` is `--not-on-battery`, which fills the process's battery
cache, and `CollectBattery` does so in a run without that gate. `Collect` then reads
the settings and assesses the age (`machine`); `WriteFile` is the other end of the
run, after the benchmarks and the soak; `RescoreFile` writes the file again later,
with a new timestamp. `asked` is the power situation the battery was asked in and
`seen` the world at `Collect`, both history. An absent field is the empty sequence and a present one a sequence of
one, so that `Option`'s `filter`, `map` and `or` are sequence operators. A UUID is
a few bytes, an ATA page the fields the code reads, a date its month.

`Reports` has the lines of each rendering by kind and subject, in their order and
under their conditions. The two renderings of a run are written out separately,
like in the code, since what is compared is whether they agree. The screens are
drawn, scrolled by the keys and resized; the scroll is clamped when drawn and
only if the frame is large enough. The results screen leaves wrapping to the
widget, which scrolls by rows while the clamp counts lines. Each line wider than
the window takes from 2 to `Tallest` rows, whichever the words make of it. A
subtest's row has the width of its columns (`WidthOf`); `Wide` gives some kinds of
text a width and the rest are taken to fit.

## 3. Runs

| run | what it shows | bounds |
|---|---|---|
| `session` | type invariant; mirror; outcome; completeness; cancel; two liveness properties; refinement of `Assessment` | `<<"cpu","network","gpu">>` and `<<"network">>`, two subtests for network, 1 warm-up, 1 timed run, soak on and off, at most 3 samples |
| `delivery` | truthful exit codes; kept and indexed once; apart; ends; refinement of `Submission` | 2 invocations, 2 attempts, window 1, clock 0..1, three command lines |
| `scratch` | file stays, leaks are collected and explained | 2 pids, symmetric, and a third with an old file; clock 0..3, stale after 2 |
| `loopback` | type invariant; threads gone and chunks read when a value is returned; one ping in flight; every subtest returns | 2 streams, 4 kinds, a buffer of 2 chunks, 3 writes per client |
| `parts` | thermal trust, re-scores, a fleet's baseline, reasons, comparisons, model verdicts; onset; the scan; identity, blame, age; both reports, scrolling; cached reads | 2 files of 6 trials, re-scored with one other profile and curve; soaks of at most 5 samples; 3 processes, 4 programs, 2 moves; 4 machines with 1 to 3 power situations, 2 months; 4 terminal sizes, a line wrapped to at most 3 rows, scroll up to 47; 9 disk calls on 3 platforms |
| `session_cancel`, `session_ungraded`, `delivery_next`, `scratch_touched`, `scratch_leak`, `loopback_hang`, `loopback_left` | one statement of the repository's text each, refuted by what the code does | as above, smaller |

Why these are enough: a session needs one benchmark before and one after the one
that fails or is cancelled, a second subtest to tell the cursor's two components
apart, and three samples because `spawn_worker` keeps a soak from three on.
Delivery needs two invocations for every check-then-act on the file and a second
attempt for a repeated document (a third attempt repeats the second); window and
clock need one tick inside and one outside. Scratch needs a victim, a sweeper
acting between each other's look and removal, pids given out again (which makes
more than two runs of two pids), and one more stale file, so that a refused
removal has a file behind it that the sweep must still take. Loopback
needs two streams for the acceptor's count (one accepted, one refused) and more
writes than the buffer holds, so that a writer blocks on its reader; no symmetry
is used, since it checks liveness. What the small instance cannot show of more
streams or larger buffers, the theorems do.

`parts` is one run over five state machines because they share no state in the
program: `part` chooses one and the others stay where they begin, so that the
states add up and are not multiplied. `Reports` over `Machine` is looked at twice
for the same reason: "machine" lets power and months change with no screen open,
"screens" opens, scrolls and resizes the screens over a file written in a world
that does not change; what a file says does not depend on the screens, and what
they do with their lines does not depend on how the file came about. Two files are needed for a comparison and for a
baseline of files that lack what the other has, and the trials have the cases that matter:
throttled, cool and too short for a verdict; one without graded components; one
without a peak; one scoring refuses; informational subtests in one file only.
Re-scores are unbounded (a re-score of a re-score is a state of the same form). Five
samples let a dip lie before, across and after the best three, with a tail that
recovers or does not; from 16 samples on the steady quarter is wider than three,
which is not reached. Three processes are one to
be dropped, one to take its number and one to share pages with. `ScrollMax` stands
for `u16::MAX`, above any line count of the instance and near enough to be
reached; `Word` for the width of the drive's hours. One month passes, before a run,
in it or between it and the re-score of its file. Of the four windows, one is as wide
as every line, one is wide enough for the subtests and not for a preset's note, one
wraps both, and one is too narrow for the results and not for the comparison. Three
rows are enough to have a line wrap once and more than once.

### Findings

The seven "violation" runs check a sentence of the repository's own text:

1. `session_cancel`: a cancel inside an ungraded component is swallowed as that
   component's failure (`run.rs:521`); the cancelled run returns, writes and
   uploads a result, against `tui/mod.rs:43` (`Ok(None)` if the user cancelled).
2. `session_ungraded`: an ungraded component that measures 0 makes `score_run`
   refuse the run (`scoring/mod.rs:300`), against `run.rs:508`.
3. `delivery_next`: "the next run will deliver it" (`upload.rs:319`): none does.
4. `scratch_touched`: "a run happening concurrently is never touched"
   (`disk.rs:73`) holds only while that run keeps writing.
5. `scratch_leak`: "deleted when the run ends" (`disk.rs:8`) fails when filling
   the file fails, since the value that deletes it does not exist yet.
6. `loopback_hang`: a refused connect in `tcp_parallel` hangs the run at
   `acceptor.join()` (`network.rs:140`), against "a blocked optional subtest
   doesn't lose the run" (`README.md:680`): the acceptor waits for exactly as
   many connections as there are streams.
7. `loopback_left`: "server threads are torn down before the function returns"
   (`network.rs:9`) holds of a subtest that returns a value (`OkTearsDown`, proved)
   and fails of one left through an error: the accepting thread, or `udp_pps`'
   spinning drain, stays.

Smaller disagreements of the text with the code, met while modelling. No run is
about them; the hazards of `PROJECT.json` name most of them, and each property
that would otherwise fail states its exception:

* `tui/compare.rs:3` calls the screen's table "the same" as the printed one; of
  the steady rate only the screen asks for 2 % before it names a winner
  (`output/mod.rs:817`). `BothReportsCaution` leaves that row out.
* The results screen counts its lines before it wraps them (`tui/view.rs:607`), and the
  widget scrolls by wrapped rows: in a window narrower than its lines the last rows
  cannot be reached, as many as wrapping adds. At 80 columns a model's preset note
  does it. `OnlyWrappingHidesRows` says that nothing else does, and nothing in the
  comparison, which wraps before it counts.
* The results screen does not show the soak's verdict (`output/mod.rs:703`). That a soak
  throttled it tells by the onset; that one drifted down, not at all. It leaves out
  the skipped components, the remark on a single sample and the one on fallen
  clocks as well, and neither of the two shows a drive's warnings, which are printed
  by `info` only (`output/mod.rs:200`). `BothReportsCaution` names these and compares the rest.
* `power.rs:1` speaks of "the power settings in force when the machine was measured".
  They are read once, before the measurements (`run.rs:154`), and the battery
  perhaps before a jitter; a plug pulled later is not noticed.
  `BlamesWhatWasInForce` is about the moment each was read.
* `scroll_results` truncates to 16 bits (`tui/app.rs:305`): End and then Down, on
  a terminal too small to draw in between, goes back to the top.
* `soak.rs:450` says the remainder stays below the line; the code asks it of the
  remainder's mean. `OnsetIffThrottled` is about the code's definition.
* A re-score gives the file a new timestamp (`scoring/mod.rs:242`), so a file from
  before the age was stored is given the age of its re-score.
* A write that falls back to the page cache is remarked on nowhere
  (`disk.rs:207`); `CachedReadsOwnedUp` is about reads.
* Of a tie, the comparison's JSON names the later file as `best`, so that field does
  depend on the order of the arguments. `FileOrderDoesNotMatter` is about the
  verdict, which is a matter of the margin and the wins.
* `logging.rs:12` promises a bounded log; it is rotated when opened only.

### Deadlock and fairness

Deadlock is not checked: a session that has returned, invocations that have all
ended, a clock at its horizon, a subtest that has returned, a soak that is over, a
scan that is through and a series of disk calls at its end stop.
That a system stops only *there* is what the liveness properties say.

`Session` assumes weak fairness of both threads: the operating system schedules
them, a measurement is bounded by its time budget, and the event loop's poll
returns after 100 ms. (That a measurement ends is `Loopback`'s `Returns`, with the one
exception of finding 6; in that case the session does not end either.) No key press is fair by itself: the user may never touch
the keyboard, `CancelReturns` starts only once the flag is up, and it holds
although no further key is pressed. `Delivery` assumes weak fairness of each
started invocation (a write and a post end, the latter by the 30 s timeout) and
none of the network, the server, the clock or a kill. `Scratch` states safety
only and needs none, and so do the parts of `MCParts`. `Loopback` assumes weak fairness of each thread by itself,
since each is a thread of the operating system, and none of `Break`: a
connection may stay whole for ever, and `Returns` does not rely on a reset to wake
anybody. Its one exception, the acceptor that waits for a refused stream, is
spelled out in the formula and is finding 6.

## 4. Proofs

TLAPS proves the theorems below for every value of the constants that satisfies
the named assumptions of each module. Assumptions say what the environment is
like, never what the code achieves; TLC evaluates each of them on the instance:

* `SessionAssumption`, `DeliveryAssumption`, `ScratchAssumption`,
  `LoopbackAssumption`, `DiskAssumption`, `SoakAssumption`, `MemScanAssumption`, `ScoringAssumption`,
  `ResultsAssumption`: the constants are numbers, sets and functions of the kind
  the code has (`Log` increases); the built-in baseline has a name of its own;
* `TrialsAssumption`: a run measures a component, and a subtest of it, once, and only
  values whose logarithm is known, and `Shares` divides into as many parts as a
  component has subtests; `SharesAssumption`: there are shares at all;
* `SpecsAssumption`: two runs that have a subtest agree on its direction and on
  whether it is scored (they are runs of one version of the program, whose table
  of subtests is fixed);
* `ModelsAssumption`: a model's entry holds positive values of subtests of the
  processor, which the program specifies as scored, the higher the better;
* `MachineAssumption`: a processor is launched before a machine is built with it,
  a drive's hours are a number;
* `SituationsAssumption`: a pack is a sequence, as every optional value is, and the
  kernel's turbo files hold a digit (that a pack discharges with mains on line is
  allowed, and happens in the instance);
* `FirmwareAssumption`: a firmware describes one system (the SMBIOS standard asks
  for exactly one type-1 structure), and two machines share no UUID or serial
  that somebody filled in. The code's part is that a number nobody filled in is
  recognised and that both ways to read the table give one form of the number;
* `ReportsAssumption`: runs and comparisons have the fields the reports read, and a
  line that wraps takes at least two rows.

| theorem | says |
|---|---|
| `SessionTypeOK`, `SessionTerminalIsLast`, `SessionScoredNeverDiscarded`, `SessionGradedComplete`, `SessionCancelStopsMeasuring`, `SessionImplementsContract` | one outcome, last and final; complete; a cancel stops; the contract |
| `SessionMirrorConverges` | what is drawn is what the engine had done when the last applied message was sent, and nothing is lost between |
| `SessionProgressNeverRetreats` | no row of the screen goes back, at any step |
| `DeliveryTypeOK`, `DeliveryOkMeansIndexed`, `DeliveryIndexedOnce`, `DeliveryFailureKeepsResult`, `DeliveryMeasuredApart`, `DeliveryImplementsSubmission` | the exit code, the file and the server agree |
| `ScratchTypeOK`, `ScratchKept`, `ScratchSweepCollects`, `ScratchLeftoversExplained` | the scratch file stays, leaks are collected and explained |
| `LoopbackTypeOK`, `LoopbackOkTearsDown`, `LoopbackCountedIsRead`, `LoopbackOneInFlight` | a value means the threads are gone and the chunks read |
| `DiskModeCachedReadsOwnedUp` | a figure the page cache made is remarked upon |
| `ScanEveryone` | the memory scan accounts for every process that stays itself |
| `SoakOnset` | the onset, the verdict and the series agree, whatever the series |
| `ResultsRescoreForgetsNothing`, `ResultsInvariance`, `ResultsThermalNeverHigh`, `ResultsWhyExplainsGrade` | re-scores; thermal trust; the reasons given add up to the grade |
| `OriginInvariance`, `ResultsFleetBaselineCentred` | a baseline's machines average 1000 against it, subtest by subtest and overall, to within rounding |
| `ResultsFileOrderDoesNotMatter`, `ResultsReferencesAgree` | a comparison has one verdict, whoever is named first; a model's verdict in the file is the comparison with its synthetic file |
| `ReportsInvariance`, `ReportsIdentity`, `ReportsBlame`, `ReportsAge`, `ReportsCautionTogether`, `ReportsReachable` | the machine block and everything that shows it |

### Session

`SessionTypeOK` is inductive by itself. The other theorems rest on strengthenings:

* `OneOutcome` ties the four places an outcome can be (not yet sent, in the
  channel, in `App.phase`, in `answer`) to `pc` and `err`. `TerminalIsLast` alone
  is not inductive, since it does not say that a worker that is gone has sent
  something, nor that what is in the channel agrees with `err`. From it follow
  `SessionTerminalIsLast`, `SessionScoredNeverDiscarded` and, with the step
  simulation, `SessionImplementsContract`.
* `Complete` says of every benchmark before `b` that it is kept or, if ungraded,
  noted, and of every result in the channel, in `App` or in `answer` that it
  holds the graded ones. From it follows `SessionGradedComplete`.
* `Noticed`: once a subtest has completed after the flag went up, the worker is
  not inside another one and, with the flag still up, cannot begin one
  (`SessionCancelStopsMeasuring`).
* `MirrorInv` carries both theorems about the screen. `MirrorConverges` only says
  where `Seen` (the screen after every message of the channel) is once the
  worker is through; a step in the middle of a subtest needs to know where it is
  *now*. `Engine` says where in its three loops the worker may be, `Mirrored(Seen)`
  says of every row of `Seen` what the engine has done of it and that the
  cursor, which names no subtest in a message, points at the row of the subtest
  being measured; `AppSet` types what the screen holds. Sending a message applies it at the end of
  the fold that is `Seen` (`ShownAppend`), receiving one takes it off the front
  (`ShownTail`), and a step that sends the wrong event, or in the wrong order,
  breaks `Mirrored`. `Steadily` adds that the messages still in the channel move
  each row forward only, which is what `ProgressNeverRetreats` needs of a step
  of the *screen*: it applies a message that the worker sent long ago.

### Delivery, Scratch, Loopback

`DeliveryTypeOK` is inductive by itself. Two invariants carry the
rest, and neither of the properties is inductive without them:

* `OneSource`: a reply that says "indexed" is true (`ReplyTrue`), a run has a code of
  its own only once it has measured (`CodeOf`), and whatever is on the wire, on
  the server or whole in the file is the one serialisation of a run that finished
  and did not fail (`Sourced`). From it follow `DeliveryOkMeansIndexed` (an exit 0
  goes back to a reply, not to a guess), `DeliveryIndexedOnce`, and
  `DeliveryImplementsSubmission`: a step of an invocation tells one verdict or
  none (`ToldOnce`), and what arrives is a run that may still be indexed
  (`IndexedIsIndex`, since `Finished` is never undone).
* `Kept`: the file is never older than any run's write, a truncated file belongs to
  the only process that has it open, and a run that goes on to its upload has
  written. From it follow `DeliveryFailureKeepsResult` and `DeliveryMeasuredApart`.

`ScratchLeftoversExplained` needs that a run past its fill has a full file (`Whole`),
since a removal the operating system refuses leaves what is there. `ScratchKept` needs an invariant about sweeps in
flight: a target or a listed file of a live benchmark that is not an heir cannot be
stale, because its file was written less than `StaleAfter` ago.
`ScratchSweepCollects` needs the invariant that while a sweep is under way every
file that was stale at its start is still listed, is the target or was refused
(`InHand`), since files created or written meanwhile are newer than the start. A
refusal adds its own file to `refused` and no other, and takes only that one
off the list: so the theorem says that an error skips one file and not the rest.

`LoopbackProofs` has one inductive invariant, `IInv`, of five parts. The types alone
are not inductive: that `sent` stays below `MaxTries` holds because a client that
is writing has already been charged the try (`Counts`). `Shape` says which
threads and connections a subtest has at all, and when: a server that is gone has
left no connection unaccepted and no drain reading, a joined main thread no
client running. `Flow` says where the chunks of a stream are: counted is read
plus still in the connection, and a drain that is gone from a whole connection
has emptied it. `Ping` is the request or the echo in flight. `OkTearsDown`
follows from `Shape`, `CountedIsRead` from `Shape` and `Flow` (only a drain that
is *gone* has read everything, and it is the join that makes it gone), and
`OneInFlight` from `Ping`.

### DiskMode, Soak

`CachedReadsOwnedUp` is not inductive, since it does not mention the
cached decision. `Decided` ties decision, remark and figures to each other (the
decision is "buffered" just when some read fell back, and that moment remarked
upon it); with it `NeverBack`, `Cached` and `Filled` are kept by a step. Every call
is first shown to be a step that adds one figure in one of four ways (`Adds`,
`StepFigure`), and the invariant is then kept by any such step.

`OnsetIffThrottled` is about one series; the state machine only has to make it
one that the sampling loop can produce, and `SoakInv` types it. What
remains is arithmetic over averages of three widths: the peak is a mean of at most three
samples (`PeakIs`), the steady rate one of the last quarter (`SteadyIs`), and
in a series that settles under 95 % of its peak some sample is under the line and
averages under it with everything after it (`OnsetExists`): of the tails within
the steady quarter that average under the line, the one that starts last starts with
a sample under the line, or what follows that sample would average under it too.
The converse is read off the definition (`OnsetIs`).

### MemScan

`ScanAccountsForEveryone` speaks of the scan that is through, of sums and of
processes; the program only has rows and a count. `ScanInv` supplies what
connects them: a process for each row (`who`) and a set of processes for the
count (`denied`), so that no process is in both or in two rows and every process
passed that stayed itself and takes any memory is in one (`Accounts`). A step that
looks at a process has one of three outcomes (`SkipKeeps`, `DeniedKeeps`,
`ReadKeeps`), and the two operating systems' steps are each shown to have one of
them: on Linux a row may carry another program's name, but only of a process that
moved. After the scan, counting goes through `who`: no more rows than
processes (`NobodyDropped`), a group at least as large as the processes of its
name (`EveryNameThere`). The groups' sizes add up to the rows' sizes
(`GroupsHoldTheRows`: `SumGathered`, a sum taken heap by heap), the rows' to
the proportional sizes of all processes (`RowsAddUp`: `SumRenamed`, a sum taken
over other names), and those to the memory in use less the remainder of the
division of the shared pages (`SharesAddUp`). The table is a part of a sorted
sequence, and there is one (`SortExists`).

### Measures, Scoring, HeadToHead, Results

`OneRescoreAway` says of each file that it is its original or some
re-score of it with a baseline there is. It is inductive because a re-score of a
re-score is the re-score of the original (`RescoredTwice`), which holds
because re-scoring takes nothing from the scores it replaces and leaves `raw`
alone. That a baseline is found again by the name in the file (`Named`) needs
the fleet's baseline not to have the built-in one's name (`ResultsAssumption`).

`ResultsInv` adds that what a run wrote is sound (`RunsSound`: positive figures,
and with a limited clock no trusted peak), that a baseline holds whole numbers
(`IntBaselines`) and that what a file shows is its own measurements scored
against a baseline that can score them (`Viewed`). The two
further theorems are then about what scoring computes of such a file.
`ThermalNeverHigh` goes through the downgrade, the weakest of the components and
the re-score: none gives a trust back. `WhyExplainsGrade` goes through the
weighted sum that makes the overall score: a grade other than the middle one has
a component that pulls that way, since the terms of a sum that is below its
threshold cannot all be at theirs (`SumCompare`). The boundary is exact: the best grade begins *at*
its threshold and a component is said to lift it only *above* it
(`scoring/mod.rs:51` and `:394`), so a run of exactly the threshold may have no
reason given; the property says so.

`OriginInv` adds where the files and the baseline come from: a file is what the
run of some trial wrote (`FromTrials`), and the fleet's baseline is made of its
members' measurements (`FleetOfMembers`). The three properties about several
files need it, because they compare runs, and two `raw`s alone do not say that a
subtest means the same in both: lowering a confidence touches nothing that a
comparison reads (`LoweringSpares`), so two files agree wherever their trials do
(`TrialsSameSpecs`).

* `ResultsFileOrderDoesNotMatter`: what a subtest of the second file is worth
  against the first is one number (`Gap`), and exchanging the files changes its
  sign (`GapSwaps`); a zero or missing value is 0 from both sides. The mean of a
  component and the sum of the components keep that (`ComponentSwaps`,
  `OverallSwaps`), and of the verdict only the sign of the margin is asked
  (`VerdictSwaps`). A margin of exactly 0 has no leader: the property leaves it out.
* `ResultsReferencesAgree`: the subtests a model and a run share are those the
  comparison with the synthetic file finds common (`SynthIs`), with the same
  gaps and as many of them (`ModelAgrees`); the informational subtests of a run
  are no obstacle because a model has none (`ModelsAssumption`).
* `ResultsFleetBaselineCentred`: of a subtest, the reference is the floor of the
  mean over the n machines that have it, so their ratios add up to less than n
  (`KeyCentred`). A machine's overall score is a floored mean over subtests in a
  weighted sum over components. Against a baseline of the same subtests, nothing
  of the run is left out (`CoveredExactly`), every component is the floored mean
  of a row of a table of machines by subtests (`RunScores`), and the table is
  added up by its columns instead (`SumSwap`, `FlooredMeans`): k (n - 1) for the
  references and n for the means of a component at most (`ComponentCentred`). With
  the weights this is the property's bound (`OverallCentred`). That all the
  machines have the same subtests is needed: a component mean over other subtests
  is not centred by them.

### Machine, Reports

`ReportsInv` says that what was collected is what `Collected` makes of the world the
settings were read in and of the battery's cache (`CollectedOk`, with the history
`seen`), that the cache is of the situation the battery was asked in (`BatteryOk`, with
`asked`), that a file holds what its run collected (`FileOk`), that the screen shows the
file or a comparison, and that a drawn frame lies within its range and has the rows
its lines can wrap to (`DrawnOk`). None of the properties is inductive: when the
file is written, power and month are no longer what they were, and only the
collected block, tied to the histories, says what they had been; a re-score changes the
timestamp that the age would be reckoned from, and only `FileOk` says that
the stored age is not reckoned again.

* `ReportsIdentity`: what the code writes of a UUID is what the kernel writes
  (`FormatSwaps`), the swap loses nothing (`SwapInjective`), no UUID is mistaken for a
  placeholder on the way (`TextIsMeaningful`), and either reading gives the truth
  about the machine or nothing (`IdentityIs`).
* `ReportsBlame`: a limit named is one of the settings read (`HeldBackInForce`, by system);
  where the report has the battery's note instead, the cache discharged and so
  did the pack when it was asked. Nothing is said of the time in which the run
  measured, since nothing in the code looks then.
* `ReportsAge`: bounds, and independence of the month it is read in.
* `ReportsCautionTogether`: each part of each rendering says a set of cautions
  (`Says`), a text says what its parts say (`JoinSays`, `EachSays`), and the
  renderings, differently cut into parts, have the same sets but for the kinds
  each has for itself (`KindsTellApart`). That the clocks fell, and that the soak
  throttled, goes from the printed line to the field of the file and from there
  to the other line of the screen.
* `ReportsReachable`: for any number of lines, any window and any wrapping. What a
  frame at the end of the scroll leaves hidden is what its rows exceed its lines
  by, which is none unless some line is wider than the window (`WrappedIs`).

### Induction over data

The library's induction theorems take an operator as a parameter, which the
installed provers do not instantiate. `DataFacts` states induction of a *set* of
numbers instead (`SetInduction`, proved from the pigeonhole principle: a set of
naturals that lacks one number but is closed would map one-to-one into a smaller
set), and of the subsets of a finite set (`SubsetInduction`). From these follow
what a fold, a flattened sequence, a sum, a maximum are, that a sum may be
taken in parts, heap by heap, over other names, or of a table by its columns
instead of its rows, and that a finite set can be sorted; and from those the theorems on sums, means, texts, groups and the
screen's fold over the channel.

### Only model-checked

* The liveness properties (`OutcomeArrives`, `CancelReturns`, `Ends`, `Returns`): liveness
  under fairness and `ENABLED` are out of the prover's reach here.

Every safety invariant and action property that a run checks is proved as well.
What the runs alone show beyond that is that the states the theorems speak of
are reached, and the seven refutations.

## 5. Not modelled

* Logging: one file per process, opened and perhaps rotated at start-up; nothing
  reads it back, so what two processes do to each other's rotation changes no
  result.
* Configuration and tags: a chain of `or` per setting and one merge of maps. A
  model would restate the assignments.
* The text of an age, a URL, a token (`gates.rs:112`, `upload.rs`): the models
  take the window, the reply and the pause as values. That an age of thousands
  of millions of days wraps is listed as a hazard without a property.
* The link probe and its server (`network.rs` from line 210 on), `parallel_sum`, core
  pinning and the soak's worker threads: they measure; what can go wrong with threads and
  sockets there has the form of what `Loopback` shows.
* What the kernels and OpenCL compute; unsafe allocation; the system calls and byte
  formats under the probes; the table of models and the matching of names.
* Wording, colours, bars, the running screen, help.

## 6. Plan

1. The link probe and `net-server`: connections, phases, a peer that disappears.
