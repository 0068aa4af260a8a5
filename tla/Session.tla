------------------------------ MODULE Session ------------------------------
(***************************************************************************)
(* One interactive run of loadbearer.  A worker thread executes the        *)
(* selected benchmarks (run.rs run_benchmarks, engine/mod.rs               *)
(* run_benchmark), scores them and may soak; it streams progress over an   *)
(* unbounded mpsc channel to the UI loop (tui/mod.rs event_loop), which    *)
(* mirrors it in App, reads keys, raises the shared abort flag and decides *)
(* what tui::run returns.  The two threads interleave freely.              *)
(*                                                                         *)
(* Times, values, labels and drawing are left out.  A measurement is only  *)
(* told apart by whether it failed and whether its value is positive.      *)
(***************************************************************************)
EXTENDS Naturals, Sequences, SequencesExt

CONSTANTS
  Bench,        (* benchmark ids                                           *)
  Selections,   (* the lists select_benchmarks may hand over               *)
  Subtests,     (* number of subtests of each benchmark                    *)
  Ungraded,     (* UNGRADED_COMPONENTS: they never feed the grade          *)
  ReadsZero,    (* benchmarks that can measure 0 without returning an error*)
  Warmups,      (* warm-up iterations per subtest                          *)
  Timed,        (* timed iterations per subtest                            *)
  Soaks,        (* the values of "--soak was given" to consider            *)
  MaxSamples    (* bound on the samples a soak takes                       *)

ASSUME SessionAssumption ==
  /\ Selections \subseteq Seq(Bench)
  /\ Subtests \in [Bench -> Nat \ {0}]
  /\ Warmups \in Nat
  /\ Timed \in Nat \ {0}
  /\ Soaks \subseteq BOOLEAN
  /\ MaxSamples \in Nat \ {0}

VARIABLES
  selected,     (* the benchmarks of this run, in order                    *)
  soaking,      (* RunInit.soak is Some                                    *)
  pc,           (* where the worker is                                     *)
  b,            (* index in selected of the benchmark being run            *)
  s,            (* its subtest that is running or comes next               *)
  w,            (* warm-ups announced in this subtest                      *)
  r,            (* timed runs finished in this subtest                     *)
  measured,     (* subtests completed, per index in selected               *)
  kept,         (* indices whose outcome was pushed                        *)
  notes,        (* <<index, why>> of each benchmark noted and skipped      *)
  zero,         (* indices holding a representative value that is not > 0  *)
  err,          (* why the worker sent Failed, or "none"                   *)
  samples,      (* soak samples taken                                      *)
  sampling,     (* the telemetry thread is running                         *)
  cursor,       (* ChannelProgress: the row the engine's events belong to  *)
  chan,         (* the mpsc channel, oldest message first                  *)
  abort,        (* RunContext.abort, shared by both threads                *)
  ui,           (* where the UI thread is                                  *)
  app,          (* App: the mirror the screen is drawn from                *)
  answer,       (* what tui::run returns                                   *)
  late          (* history: subtests completed since abort was raised      *)

position == <<b, s, w, r>>
outcomes == <<measured, kept, notes, zero>>
soakVars == <<samples, sampling>>
workVars == <<pc, position, outcomes, err, soakVars, cursor>>
uiVars   == <<ui, app, answer>>
fixed    == <<selected, soaking>>
vars     == <<fixed, workVars, chan, abort, uiVars, late>>

Index  == DOMAIN selected
Skipped == {n[1] : n \in notes}
Graded == {i \in Index : selected[i] \notin Ungraded}

-----------------------------------------------------------------------------
(* Messages (tui/app.rs Msg and Ev) and the results they carry.            *)

Ev(t, i, j, k) == [t |-> t, bench |-> i, sub |-> j, run |-> k]
Result(soak)   == [kept |-> kept, notes |-> notes, soak |-> soak]
NoResult       == [kept |-> {}, notes |-> {}, soak |-> FALSE]
Done(res)      == [t |-> "done", result |-> res]
Failed(why)    == [t |-> "failed", why |-> why]

(* ChannelProgress::on_event: BenchStart moves the cursor to the first     *)
(* subtest of the next benchmark and SubtestDone to the next subtest; every*)
(* other event is labelled with the cursor as it stands.                   *)
(* Faulty variant: the subtest index survives into the next benchmark.     *)
NextBenchKeepsSub == [cursor EXCEPT !.bench = @ + 1]

NextBench == [bench |-> cursor.bench + 1, sub |-> 1]
EmitBenchStart ==
  /\ cursor' = NextBench
  /\ chan' = Append(chan, Ev("benchStart", 0, 0, 0))

(* Faulty variant: the cursor stays on the first subtest.                  *)
EmitHereStuck(t, k) ==
  /\ chan' = Append(chan, Ev(t, cursor.bench, cursor.sub, k))
  /\ UNCHANGED cursor

EmitHere(t, k) ==
  /\ chan' = Append(chan, Ev(t, cursor.bench, cursor.sub, k))
  /\ cursor' = IF t = "subDone" THEN [cursor EXCEPT !.sub = @ + 1] ELSE cursor

-----------------------------------------------------------------------------
(* The worker: run_benchmarks around run_benchmark.                        *)

BenchBegins ==
  /\ pc = "bench"
  /\ b <= Len(selected)
  /\ pc' = "subtest"
  /\ s' = 1
  /\ EmitBenchStart
  /\ UNCHANGED <<b, w, r, outcomes, err, soakVars, abort, late>>

(* Faulty variant: a failed graded benchmark is passed over too.           *)
TolerateAny(why) ==
  /\ notes' = notes \union {<<b, why>>}
  /\ b' = b + 1
  /\ pc' = "bench"
  /\ UNCHANGED <<s, w, r, measured, kept, zero, soakVars, cursor, abort, late, chan, err>>

(* Faulty variant: the worker reports the failure and carries on.          *)
ReportAndGoOn(why) ==
  /\ chan' = IF selected[b] \in Ungraded THEN chan ELSE Append(chan, Failed(why))
  /\ notes' = notes \union {<<b, why>>}
  /\ b' = b + 1
  /\ pc' = "bench"
  /\ UNCHANGED <<s, w, r, measured, kept, zero, soakVars, cursor, abort, late, err>>

(* run_benchmark returned Err: an ungraded benchmark is noted and passed   *)
(* over, a graded one ends the worker, which leaves without stopping the   *)
(* telemetry sampler.                                                      *)
BenchErrs(why) ==
  /\ \/ /\ selected[b] \in Ungraded
        /\ notes' = notes \union {<<b, why>>}
        /\ b' = b + 1
        /\ pc' = "bench"
        /\ UNCHANGED <<chan, err>>
     \/ /\ selected[b] \notin Ungraded
        /\ chan' = Append(chan, Failed(why))
        /\ err' = why
        /\ pc' = "gone"
        /\ UNCHANGED <<notes, b>>
  /\ UNCHANGED <<s, w, r, measured, kept, zero, soakVars, cursor, abort, late>>

(* The abort flag is looked at before each subtest and nowhere else.       *)
AbortNoticed ==
  /\ pc = "subtest"
  /\ s <= Subtests[selected[b]]
  /\ abort
  /\ BenchErrs("aborted")

(* Faulty variant: only the first subtest of a benchmark minds the flag.   *)
SubtestBeginsAnyway ==
  /\ pc = "subtest"
  /\ s <= Subtests[selected[b]]
  /\ ~abort \/ s > 1
  /\ pc' = "measure"
  /\ w' = 0
  /\ r' = 0
  /\ EmitHere("subStart", 0)
  /\ UNCHANGED <<b, s, outcomes, err, soakVars, abort, late>>

SubtestBegins ==
  /\ pc = "subtest"
  /\ s <= Subtests[selected[b]]
  /\ ~abort
  /\ pc' = "measure"
  /\ w' = 0
  /\ r' = 0
  /\ EmitHere("subStart", 0)
  /\ UNCHANGED <<b, s, outcomes, err, soakVars, abort, late>>

WarmUp ==
  /\ pc = "measure"
  /\ w < Warmups
  /\ w' = w + 1
  /\ EmitHere("warmup", 0)
  /\ UNCHANGED <<pc, b, s, r, outcomes, err, soakVars, abort, late>>

(* Faulty variant: 0..=timed instead of 1..=timed.                         *)
TimedRunOnceMore ==
  /\ pc = "measure"
  /\ w = Warmups
  /\ r <= Timed
  /\ r' = r + 1
  /\ EmitHere("run", r + 1)
  /\ UNCHANGED <<pc, b, s, w, outcomes, err, soakVars, abort, late>>

TimedRun ==
  /\ pc = "measure"
  /\ w = Warmups
  /\ r < Timed
  /\ r' = r + 1
  /\ EmitHere("run", r + 1)
  /\ UNCHANGED <<pc, b, s, w, outcomes, err, soakVars, abort, late>>

(* run_one fails in a warm-up already announced or in the next timed run.  *)
MeasurementFails ==
  /\ pc = "measure"
  /\ r < Timed
  /\ w > 0 \/ Warmups = 0
  /\ BenchErrs("measurement")

SubtestEnds ==
  /\ pc = "measure"
  /\ r = Timed
  /\ pc' = "subtest"
  /\ s' = s + 1
  /\ measured' = [measured EXCEPT ![b] = @ + 1]
  /\ \/ UNCHANGED zero
     \/ /\ selected[b] \in ReadsZero
        /\ zero' = zero \union {b}
  /\ late' = IF abort THEN late + 1 ELSE late
  /\ EmitHere("subDone", 0)
  /\ UNCHANGED <<b, w, r, kept, notes, err, soakVars, abort>>

BenchEnds ==
  /\ pc = "subtest"
  /\ s > Subtests[selected[b]]
  /\ pc' = "bench"
  /\ b' = b + 1
  /\ kept' = kept \union {b}
  /\ EmitHere("benchDone", 0)
  /\ UNCHANGED <<s, w, r, measured, notes, zero, err, soakVars, abort, late>>

(* Every benchmark has had its turn.  Nothing measured at all is a failure.*)
NothingMeasured ==
  /\ pc = "bench"
  /\ b > Len(selected)
  /\ kept = {}
  /\ chan' = Append(chan, Failed("empty"))
  /\ err' = "empty"
  /\ pc' = "gone"
  /\ UNCHANGED <<position, outcomes, soakVars, cursor, abort, late>>

BenchmarksDone ==
  /\ pc = "bench"
  /\ b > Len(selected)
  /\ kept # {}
  /\ sampling' = FALSE
  /\ pc' = "score"
  /\ UNCHANGED <<position, outcomes, err, samples, cursor, chan, abort, late>>

(* score_run refuses any scored value that is not positive, graded or not. *)
ScoreRefuses ==
  /\ pc = "score"
  /\ zero \intersect kept # {}
  /\ chan' = Append(chan, Failed("score"))
  /\ err' = "score"
  /\ pc' = "gone"
  /\ UNCHANGED <<position, outcomes, soakVars, cursor, abort, late>>

Score ==
  /\ pc = "score"
  /\ zero \intersect kept = {}
  /\ pc' = "scored"
  /\ UNCHANGED <<position, outcomes, err, soakVars, cursor, chan, abort, late>>

(* The soak phase is entered only if it was asked for and the flag is down.*)
SoakBegins ==
  /\ pc = "scored"
  /\ soaking
  /\ ~abort
  /\ pc' = "soak"
  /\ chan' = Append(chan, Ev("soakStart", 0, 0, 0))
  /\ UNCHANGED <<position, outcomes, err, soakVars, cursor, abort, late>>

NoSoak ==
  /\ pc = "scored"
  /\ ~soaking \/ abort
  /\ pc' = "send"
  /\ UNCHANGED <<position, outcomes, err, soakVars, cursor, chan, abort, late>>

(* One turn of soak::run's sampling loop: a sample, unless the wait was cut*)
(* short before 0.2 s, then the check of the flag and of the deadline.     *)
SoakTurn ==
  /\ pc = "soak"
  /\ \E sampled \in BOOLEAN, deadline \in BOOLEAN :
       /\ ~sampled => abort \/ deadline
       /\ samples = MaxSamples => ~sampled /\ deadline
       /\ samples' = IF sampled THEN samples + 1 ELSE samples
       /\ chan' = IF sampled THEN Append(chan, Ev("soakSample", 0, 0, 0)) ELSE chan
       /\ pc' = IF abort \/ deadline THEN "send" ELSE "soak"
  /\ UNCHANGED <<position, outcomes, err, sampling, cursor, abort, late>>

(* Faulty variant: a cancelled soak ends the worker without a message.     *)
SendDoneUnlessAborted ==
  /\ pc = "send"
  /\ chan' = IF abort THEN chan ELSE Append(chan, Done(Result(samples >= 3)))
  /\ pc' = "gone"
  /\ UNCHANGED <<position, outcomes, err, soakVars, cursor, abort, late>>

(* Fewer than three samples are not a usable soak series and are dropped.  *)
SendDone ==
  /\ pc = "send"
  /\ chan' = Append(chan, Done(Result(samples >= 3)))
  /\ pc' = "gone"
  /\ UNCHANGED <<position, outcomes, err, soakVars, cursor, abort, late>>

Worker ==
  /\ \/ BenchBegins \/ AbortNoticed \/ SubtestBegins \/ WarmUp \/ TimedRun
     \/ MeasurementFails \/ SubtestEnds \/ BenchEnds
     \/ NothingMeasured \/ BenchmarksDone \/ ScoreRefuses \/ Score
     \/ SoakBegins \/ NoSoak \/ SoakTurn \/ SendDone
  /\ UNCHANGED <<fixed, uiVars>>
-----------------------------------------------------------------------------
(* App::apply: how one message changes the mirror.                         *)

PendingRow   == [state |-> "pending", runs |-> 0, timed |-> 0]
HasRow(a, i, j) == i \in DOMAIN a.rows /\ j \in DOMAIN a.rows[i]

RowAfter(row, m) ==
  CASE m.t = "subStart" -> [row EXCEPT !.state = "warmup", !.timed = Timed]
    [] m.t = "warmup"   -> [row EXCEPT !.state = "warmup"]
    [] m.t = "run"      -> [row EXCEPT !.state = "running", !.runs = m.run]
    [] m.t = "subDone"  -> [row EXCEPT !.state = "done", !.runs = row.timed]

Apply(a, m) ==
  CASE m.t = "done"       -> [a EXCEPT !.phase = "done", !.result = m.result]
    [] m.t = "failed"     -> [a EXCEPT !.phase = "failed"]
    [] m.t = "benchStart" -> a
    [] m.t = "benchDone"  -> [a EXCEPT !.done = @ \union ({m.bench} \intersect DOMAIN a.rows)]
    [] m.t = "soakStart"  -> [a EXCEPT !.soak = <<0>>]
    [] m.t = "soakSample" -> [a EXCEPT !.soak = IF @ = <<>> THEN @ ELSE <<@[1] + 1>>]
    [] OTHER -> IF HasRow(a, m.bench, m.sub)
                THEN [a EXCEPT !.rows[m.bench][m.sub] = RowAfter(@, m)]
                ELSE a

Finished(a) == a.phase \in {"done", "failed"}

-----------------------------------------------------------------------------
(* The UI thread: event_loop, then tui::run's join.                        *)

Answer(kind, res) == [kind |-> kind, result |-> res]
Pending           == Answer("pending", NoResult)

(* Faulty variant: the flag is looked at before the phase.                 *)
ResolveAbortFirst ==
  /\ answer' = CASE abort                             -> Answer("none", NoResult)
                 [] app.phase = "done" /\ ~abort      -> Answer("some", app.result)
                 [] app.phase # "done" /\ ~abort      -> Answer("error", NoResult)
  /\ app' = [app EXCEPT !.phase = "running"]
  /\ ui' = "join"

(* Faulty variant: every failure is taken for a cancel.                    *)
ResolveFailureAsCancel ==
  /\ answer' = IF app.phase = "done" THEN Answer("some", app.result)
                                     ELSE Answer("none", NoResult)
  /\ app' = [app EXCEPT !.phase = "running"]
  /\ ui' = "join"

(* resolve: what a finished run means to the caller.                       *)
Resolve ==
  /\ answer' = CASE app.phase = "done"              -> Answer("some", app.result)
                 [] app.phase = "failed" /\ abort   -> Answer("none", NoResult)
                 [] app.phase = "failed" /\ ~abort  -> Answer("error", NoResult)
                 [] app.phase = "running"           -> Answer("none", NoResult)
  /\ app' = [app EXCEPT !.phase = "running"]
  /\ ui' = "join"

Draw ==
  /\ ui = "draw"
  /\ ui' = "drain"
  /\ UNCHANGED <<chan, app, answer, abort>>

Receive ==
  /\ ui = "drain"
  /\ chan # <<>>
  /\ app' = Apply(app, Head(chan))
  /\ chan' = Tail(chan)
  /\ UNCHANGED <<ui, answer, abort>>

(* Faulty variant: a cancelled run still waits for a key.                  *)
DrainedWaits ==
  /\ ui = "drain"
  /\ chan = <<>>
  /\ ui' = "poll"
  /\ UNCHANGED <<chan, app, answer, abort>>

(* try_recv found nothing: a cancelled run that has finished leaves at     *)
(* once, every other one goes on to wait for a key.                        *)
Drained ==
  /\ ui = "drain"
  /\ chan = <<>>
  /\ \/ /\ app.cancelling /\ Finished(app)
        /\ Resolve
     \/ /\ ~(app.cancelling /\ Finished(app))
        /\ ui' = "poll"
        /\ UNCHANGED <<app, answer>>
  /\ UNCHANGED <<chan, abort>>

(* No key within the poll interval, or one that does not end anything.     *)
NoKey ==
  /\ ui = "poll"
  /\ ui' = "draw"
  /\ UNCHANGED <<chan, app, answer, abort>>

Cancel ==
  /\ app' = [app EXCEPT !.cancelling = TRUE]
  /\ abort' = TRUE
  /\ ui' = "draw"
  /\ UNCHANGED answer

Quit ==
  /\ ui = "poll"
  /\ \/ /\ Finished(app)
        /\ Resolve
        /\ UNCHANGED abort
     \/ /\ ~Finished(app)
        /\ Cancel
  /\ UNCHANGED chan

CtrlC ==
  /\ ui = "poll"
  /\ Cancel
  /\ UNCHANGED chan

Enter ==
  /\ ui = "poll"
  /\ Finished(app)
  /\ Resolve
  /\ UNCHANGED <<chan, abort>>

(* Drawing, polling or reading an event fails: the loop is left with an    *)
(* error and the worker is not told.                                       *)
TerminalFails ==
  /\ ui \in {"draw", "poll"}
  /\ answer' = Answer("error", NoResult)
  /\ ui' = "join"
  /\ UNCHANGED <<chan, app, abort>>

Join ==
  /\ ui = "join"
  /\ pc = "gone"
  /\ ui' = "back"
  /\ UNCHANGED <<chan, app, answer, abort>>

Screen ==
  /\ \/ Draw \/ Receive \/ Drained \/ NoKey \/ Quit \/ CtrlC \/ Enter
     \/ TerminalFails \/ Join
  /\ UNCHANGED <<fixed, workVars, late>>

-----------------------------------------------------------------------------

Init ==
  /\ selected \in Selections
  /\ soaking \in Soaks
  /\ pc = "bench" /\ b = 1 /\ s = 1 /\ w = 0 /\ r = 0
  /\ measured = [i \in Index |-> 0]
  /\ kept = {} /\ notes = {} /\ zero = {}
  /\ err = "none"
  /\ samples = 0
  /\ sampling \in BOOLEAN      (* --no-telemetry, or the thread did not start *)
  /\ cursor = [bench |-> 0, sub |-> 1]
  /\ chan = <<>>
  /\ abort = FALSE
  /\ ui = "draw"
  /\ app = [rows       |-> [i \in Index |-> [j \in 1 .. Subtests[selected[i]] |-> PendingRow]],
            done       |-> {},
            soak       |-> <<>>,
            phase      |-> "running",
            result     |-> NoResult,
            cancelling |-> FALSE]
  /\ answer = Pending
  /\ late = 0

Next == Worker \/ Screen

(* Both threads are scheduled; the user may never touch a key.  A step of  *)
(* the worker ends: each measurement is bounded by its time budget.        *)
Fairness == WF_vars(Worker) /\ WF_vars(Screen)

Spec == Init /\ [][Next]_vars /\ Fairness

-----------------------------------------------------------------------------
(* Properties.                                                             *)

NoteType   == Nat \X {"aborted", "measurement"}
ResultType == [kept : SUBSET Nat, notes : SUBSET NoteType, soak : BOOLEAN]
EventType  == [t : {"benchStart", "subStart", "warmup", "run", "subDone", "benchDone",
                    "soakStart", "soakSample"},
               bench : Nat, sub : Nat, run : Nat]
Message    == EventType
                \union [t : {"done"}, result : ResultType]
                \union [t : {"failed"}, why : {"aborted", "measurement", "empty", "score"}]

(* The variables stay in the shapes the two threads use them in.           *)
TypeOK ==
  /\ selected \in Selections
  /\ soaking \in BOOLEAN
  /\ pc \in {"bench", "subtest", "measure", "score", "scored", "soak", "send", "gone"}
  /\ b \in Nat \ {0}
  /\ pc \in {"subtest", "measure"} => b \in Index
  /\ s \in Nat
  /\ w \in 0 .. Warmups
  /\ r \in 0 .. Timed
  /\ measured \in [Index -> Nat]
  /\ kept \subseteq Index /\ zero \subseteq Index
  /\ notes \subseteq NoteType
  /\ err \in {"none", "aborted", "measurement", "empty", "score"}
  /\ samples \in 0 .. MaxSamples
  /\ sampling \in BOOLEAN
  /\ cursor \in [bench : Nat, sub : Nat]
  /\ chan \in Seq(Message)
  /\ abort \in BOOLEAN
  /\ ui \in {"draw", "drain", "poll", "join", "back"}
  /\ DOMAIN app = {"rows", "done", "soak", "phase", "result", "cancelling"}
  /\ app.phase \in {"running", "done", "failed"}
  /\ app.result \in ResultType
  /\ app.cancelling \in BOOLEAN
  /\ answer \in [kind : {"pending", "some", "none", "error"}, result : ResultType]
  /\ late \in Nat

(* What the screen will show once the messages still in the channel have   *)
(* been applied.                                                           *)
Seen == FoldLeft(Apply, app, chan)

DoneRow    == [state |-> "done", runs |-> Timed, timed |-> Timed]
CurrentRow == [state |-> IF r > 0 THEN "running" ELSE "warmup", runs |-> r, timed |-> Timed]
Stuck(i)   == i \in Skipped \/ (i = b /\ err = "measurement")

(* The mirror converges on what the engine did.  Every subtest the engine  *)
(* completed ends up as a done row, the one being measured shows its run   *)
(* count, no other row has moved, the benchmarks ticked off are the kept   *)
(* ones, and the soak gauge counts the samples taken: no event is          *)
(* attributed to the wrong row, even after a benchmark failed half way     *)
(* (ChannelProgress and App::apply_ev).                                    *)
MirrorConverges ==
  /\ Seen.done = kept
  /\ samples > 0 => Seen.soak = <<samples>>
  /\ \A i \in Index : \A j \in 1 .. Subtests[selected[i]] :
       LET row == Seen.rows[i][j]
       IN  CASE j <= measured[i] -> row = DoneRow
             [] j = measured[i] + 1 /\ pc = "measure" /\ i = b -> row = CurrentRow
             [] j = measured[i] + 1 /\ Stuck(i) -> row.state # "done"
             [] OTHER -> row = PendingRow

(* Nothing follows the worker's last word: once App is finished no message *)
(* can change it, and the channel never holds two outcomes                 *)
(* (spawn_worker's returns; is_finished is final for the event loop).      *)
IsTerminal(m) == m.t \in {"done", "failed"}
TerminalIsLast ==
  /\ \A k \in DOMAIN chan : IsTerminal(chan[k]) => k = Len(chan) /\ pc = "gone"
  /\ Finished(app) => chan = <<>> /\ pc = "gone"

(* A result is never missing a graded component: whatever failed, was      *)
(* skipped or was cancelled, tui::run hands over a result only with every  *)
(* graded benchmark that was selected in it (run_benchmarks).              *)
GradedComplete == answer.kind = "some" => Graded \subseteq answer.result.kept

(* A grade that was reached is not thrown away by a cancel: the caller is  *)
(* told "cancelled" only if the worker failed (tui/mod.rs: a cancel during *)
(* the soak still keeps the completed grade).                              *)
ScoredNeverDiscarded == answer.kind = "none" => err # "none"

(* Cancelling lets the current subtest finish and no other: at most one    *)
(* subtest completes after the flag went up (run_benchmark's check).       *)
CancelStopsMeasuring == late <= 1

(* A row on the screen only moves forward: pending, warm-up, 1, 2, ... runs*)
(* done, finished (the progress bar is the sum of these fractions).        *)
Rank(row) == CASE row.state = "pending" -> 0
               [] row.state = "warmup"  -> 1
               [] row.state = "running" -> 1 + row.runs
               [] row.state = "done"    -> 2 + Timed
ProgressNeverRetreats ==
  [][\A i \in Index : \A j \in DOMAIN app.rows[i] :
       Rank(app'.rows[i][j]) >= Rank(app.rows[i][j])]_vars

(* Cancelling always ends the session without another key, even though the *)
(* worker only looks at the flag between subtests (event_loop's            *)
(* cancelling && is_finished exit, then the join).                         *)
CancelReturns == abort ~> (ui = "back")

(* The outcome always reaches the screen, unless the loop was left first.  *)
OutcomeArrives == <>(Finished(app) \/ ui \in {"join", "back"})

(* What tui::run promises its caller (module Assessment).                  *)
Contract == INSTANCE Assessment WITH
  asked  <- abort,
  broken <- err \in {"measurement", "empty", "score"} \/ answer.kind = "error",
  answer <- answer.kind
ImplementsContract == Contract!Spec

(* tui/mod.rs: "Ok(None) if the user cancelled".  A benchmark that was     *)
(* skipped because the run was aborted is not part of a result.            *)
CancelYieldsNoResult ==
  answer.kind = "some" => \A n \in answer.result.notes : n[2] # "aborted"

(* run.rs: "Losing the CPU, memory and disk grades over an ungraded extra  *)
(* is the wrong trade".  A run whose graded benchmarks all completed with  *)
(* values that can be scored does not fail.                                *)
UngradedNeverCostsTheGrade ==
  Graded # {} /\ Graded \subseteq kept /\ zero \intersect Graded = {} => err = "none"

=============================================================================
