------------------------------ MODULE Delivery ------------------------------
(***************************************************************************)
(* Unattended invocations of `loadbearer run` on one machine, from the     *)
(* command line to the exit code (run.rs execute, run_interactive,         *)
(* run_plain, write_output, deliver; gates.rs evaluate; upload.rs          *)
(* send_with, post, into_outcome; main.rs exit).  They share the --output  *)
(* file, whose mtime is the only record of an earlier run, and a fleet     *)
(* server reached over a network that loses and delays.  Invocations may   *)
(* overlap and may be killed at any step.                                  *)
(*                                                                         *)
(* A result document is told apart by the run it is of and by the          *)
(* serialisation its bytes come from.  Measuring is one step.              *)
(***************************************************************************)
EXTENDS Integers

CONSTANTS
  Run,        (* invocations                                               *)
  Nobody,     (* not a run: whoever wrote the file before                  *)
  Options,    (* the option sets to consider: see OptionType               *)
  Window,     (* --skip-if-newer-than                                      *)
  Horizon,    (* bound on the clock                                        *)
  ATTEMPTS,   (* posts in all, counting the first                          *)
  MAX_WAIT    (* the longest Retry-After honoured                          *)

(* --output, --upload, --skip-if-newer-than, --fail-under, a terminal on   *)
(* stdout.  --skip-if-newer-than requires --output.                        *)
OptionType == [output : BOOLEAN, upload : BOOLEAN, recency : BOOLEAN,
               floor : BOOLEAN, interactive : BOOLEAN]

ASSUME DeliveryAssumption ==
  /\ Nobody \notin Run
  /\ Options \subseteq {o \in OptionType : o.recency => o.output}
  /\ Window \in Nat \ {0}
  /\ Horizon \in Nat
  /\ ATTEMPTS \in Nat \ {0}
  /\ MAX_WAIT \in Nat

(* main.rs exit.                                                           *)
OK              == 0
ERROR           == 1
BELOW_THRESHOLD == 3
UPLOAD_FAILED   == 4
NoCode          == -1

VARIABLES
  opts,      (* this estate's command line                                 *)
  clock,
  pc,        (* where each invocation is                                   *)
  code,      (* its exit code so far                                       *)
  measured,  (* it has a finished result                                   *)
  attempt,   (* send_with's attempt                                        *)
  reply,     (* what post will return, or Waiting                          *)
  file,      (* the --output file: who touched it last, its body, its mtime*)
  wire,      (* documents sent: each may arrive, late or more than once    *)
  indexed,   (* documents the server holds                                 *)
  earlier,   (* history: the runs that had ended when each run started     *)
  wrote,     (* history: when each run's result was on disk                *)
  clash,     (* history: two invocations had the file open for writing     *)
  limited    (* history: the runs that gave up on a 429                    *)

runVars  == <<pc, code, measured, attempt, reply>>
netVars  == <<wire, indexed>>
history  == <<earlier, wrote, clash, limited>>
vars     == <<opts, clock, runVars, file, netVars, history>>

Never == -1

(* The document of run p: execute serialises the result once, for stdout,  *)
(* the file and the upload alike.                                          *)
Doc(p)     == [run |-> p, bytes |-> "once"]
DocType    == [run : Run, bytes : {"once", "again"}]

-----------------------------------------------------------------------------
(* Replies (upload.rs Reply) and what they mean.                           *)

Reply(c, says, after) == [code |-> c, says |-> says, after |-> after]
Waiting     == Reply(-1, "", 0)
Unreachable == Reply(0, "", 0)
Indexes     == {Reply(200, "added", 0), Reply(200, "already indexed", 0)}
Refusals    == {Reply(200, "", 0), Reply(403, "", 0),
                Reply(429, "", 5), Reply(429, "", MAX_WAIT + 1), Reply(503, "", 0)}
ReplyType   == Indexes \union Refusals \union {Waiting, Unreachable}

backoff(a)   == 2 * 4 ^ (a - 1)
retryable(r) == r.code = 429 \/ r.code >= 500 \/ r = Unreachable
wait(r, a)   == IF r.code = 429 THEN r.after ELSE backoff(a)

(* Faulty variant: a retry is worth it however often it was tried.         *)
RetriesForever(r, a) == retryable(r) /\ wait(r, a) <= MAX_WAIT

Retries(r, a) == retryable(r) /\ a < ATTEMPTS /\ wait(r, a) <= MAX_WAIT

(* Faulty variant: any 200 will do, without reading the outcome.           *)
DeliveredByStatus(r) == r.code = 200

Delivered(r) == r.code = 200 /\ r.says \in {"added", "already indexed"}

-----------------------------------------------------------------------------
(* One invocation.                                                         *)

Exit(p, c) ==
  /\ pc' = [pc EXCEPT ![p] = "exited"]
  /\ code' = [code EXCEPT ![p] = c]

Goto(p, l) == pc' = [pc EXCEPT ![p] = l] /\ UNCHANGED code

Start(p) ==
  /\ pc[p] = "idle"
  /\ earlier' = [earlier EXCEPT ![p] = {q \in Run : pc[q] = "exited"}]
  /\ Goto(p, "gates")
  /\ UNCHANGED <<measured, attempt, reply, file, netVars, wrote, clash, limited>>

(* resolve or select_benchmarks refuses the command line.                  *)
ResolveFails(p) ==
  /\ pc[p] = "gates"
  /\ Exit(p, ERROR)
  /\ UNCHANGED <<measured, attempt, reply, file, netVars, history>>

(* age_of: no age for a file that is not there or is dated in the future.  *)
(* Faulty variant: `<=` on the age of the file, the wrong way round.       *)
RecentOffByOne ==
  /\ opts.recency
  /\ file.body # "absent"
  /\ file.mtime <= clock
  /\ clock - file.mtime < Window - 1

Recent ==
  /\ opts.recency
  /\ file.body # "absent"
  /\ file.mtime <= clock
  /\ clock - file.mtime < Window

(* Skipped by the recency gate, or by the battery or the idle gate.        *)
GatesSkip(p) ==
  /\ pc[p] = "gates"
  /\ Exit(p, OK)
  /\ UNCHANGED <<measured, attempt, reply, file, netVars, history>>

GatesProceed(p) ==
  /\ pc[p] = "gates"
  /\ ~Recent
  /\ Goto(p, "bench")
  /\ UNCHANGED <<measured, attempt, reply, file, netVars, history>>

(* The benchmarks, the scoring or the scratch directory fail.              *)
RunFails(p) ==
  /\ pc[p] = "bench"
  /\ Exit(p, ERROR)
  /\ UNCHANGED <<measured, attempt, reply, file, netVars, history>>

Cancelled(p) ==
  /\ pc[p] = "bench"
  /\ opts.interactive
  /\ Exit(p, OK)
  /\ UNCHANGED <<measured, attempt, reply, file, netVars, history>>

(* The result is finished; threshold_code settles the code a run without   *)
(* upload trouble will leave with.                                         *)
(* Faulty variant: the upload comes before the file is written.            *)
MeasuredUploadFirst(p) ==
  /\ pc[p] = "bench"
  /\ measured' = [measured EXCEPT ![p] = TRUE]
  /\ \E c \in {OK} \union IF opts.floor THEN {BELOW_THRESHOLD} ELSE {} :
       code' = [code EXCEPT ![p] = c]
  /\ pc' = [pc EXCEPT ![p] = "deliver"]
  /\ UNCHANGED <<attempt, reply, file, netVars, history>>

Measured(p) ==
  /\ pc[p] = "bench"
  /\ measured' = [measured EXCEPT ![p] = TRUE]
  /\ \E c \in {OK} \union IF opts.floor THEN {BELOW_THRESHOLD} ELSE {} :
       code' = [code EXCEPT ![p] = c]
  /\ pc' = [pc EXCEPT ![p] = IF opts.output THEN "output" ELSE "deliver"]
  /\ UNCHANGED <<attempt, reply, file, netVars, history>>

(* write_output is std::fs::write: the file is truncated when it is opened *)
(* and filled afterwards.                                                  *)
OpenOutput(p) ==
  /\ pc[p] = "output"
  /\ file' = [by |-> p, body |-> "empty", mtime |-> clock]
  /\ clash' = (clash \/ \E q \in Run : pc[q] = "opened")
  /\ Goto(p, "opened")
  /\ UNCHANGED <<measured, attempt, reply, netVars, earlier, wrote, limited>>

(* Another invocation may have written since p truncated the file; bytes   *)
(* of a longer document then stay behind p's own.                          *)
WriteOutput(p) ==
  /\ pc[p] = "opened"
  /\ \E body \in {"whole"} \union IF file.body = "empty" THEN {} ELSE {"torn"} :
       file' = [by |-> p, body |-> body, mtime |-> clock]
  /\ wrote' = [wrote EXCEPT ![p] = clock]
  /\ Goto(p, "deliver")
  /\ UNCHANGED <<measured, attempt, reply, netVars, earlier, clash, limited>>

(* No such directory, no permission, no space left: the run ends before    *)
(* the upload is tried.                                                    *)
OutputFails(p) ==
  /\ \/ pc[p] = "output" /\ UNCHANGED file
     \/ pc[p] = "opened" /\ file' = [by |-> p, body |-> "torn", mtime |-> clock]
  /\ Exit(p, ERROR)
  /\ UNCHANGED <<measured, attempt, reply, netVars, history>>

NoUpload(p) ==
  /\ pc[p] = "deliver"
  /\ ~opts.upload
  /\ Exit(p, code[p])
  /\ UNCHANGED <<measured, attempt, reply, file, netVars, history>>

(* Faulty variant: the result is serialised again for the upload.          *)
PostAgain(p) ==
  /\ pc[p] = "deliver"
  /\ opts.upload
  /\ wire' = wire \union {[run |-> p, bytes |-> "again"]}
  /\ Goto(p, "post")
  /\ UNCHANGED <<measured, attempt, reply, file, indexed, history>>

Post(p) ==
  /\ pc[p] = "deliver"
  /\ opts.upload
  /\ wire' = wire \union {Doc(p)}
  /\ Goto(p, "post")
  /\ UNCHANGED <<measured, attempt, reply, file, indexed, history>>

(* No connection, or nothing within the 30 s timeout.  The request may     *)
(* still be on its way.                                                    *)
PostUnreachable(p) ==
  /\ pc[p] = "post"
  /\ reply[p] = Waiting
  /\ reply' = [reply EXCEPT ![p] = Unreachable]
  /\ UNCHANGED <<pc, code, measured, attempt, file, netVars, history>>

(* Faulty variant: the attempt is not counted.                             *)
RetryUncounted(p) ==
  /\ pc[p] = "post"
  /\ Retries(reply[p], attempt[p])
  /\ reply' = [reply EXCEPT ![p] = Waiting]
  /\ Goto(p, "deliver")
  /\ UNCHANGED <<measured, attempt, file, netVars, history>>

Retry(p) ==
  /\ pc[p] = "post"
  /\ Retries(reply[p], attempt[p])
  /\ attempt' = [attempt EXCEPT ![p] = @ + 1]
  /\ reply' = [reply EXCEPT ![p] = Waiting]
  /\ Goto(p, "deliver")
  /\ UNCHANGED <<measured, file, netVars, history>>

(* into_outcome, then deliver: a failed upload outranks a low grade.       *)
(* Faulty variant: the grade's code wins.                                  *)
SettleKeepsCode(p) ==
  /\ pc[p] = "post"
  /\ reply[p] # Waiting
  /\ ~Retries(reply[p], attempt[p])
  /\ Exit(p, IF Delivered(reply[p]) \/ code[p] # OK THEN code[p] ELSE UPLOAD_FAILED)
  /\ reply' = [reply EXCEPT ![p] = Waiting]
  /\ limited' = IF reply[p].code = 429 THEN limited \union {p} ELSE limited
  /\ UNCHANGED <<measured, attempt, file, netVars, earlier, wrote, clash>>

Settle(p) ==
  /\ pc[p] = "post"
  /\ reply[p] # Waiting
  /\ ~Retries(reply[p], attempt[p])
  /\ Exit(p, IF Delivered(reply[p]) THEN code[p] ELSE UPLOAD_FAILED)
  /\ reply' = [reply EXCEPT ![p] = Waiting]
  /\ limited' = IF reply[p].code = 429 THEN limited \union {p} ELSE limited
  /\ UNCHANGED <<measured, attempt, file, netVars, earlier, wrote, clash>>

(* A reboot, a kill, a deployment step's timeout: nothing is cleaned up.   *)
Killed(p) ==
  /\ pc[p] \notin {"idle", "exited", "killed"}
  /\ Goto(p, "killed")
  /\ UNCHANGED <<measured, attempt, reply, file, netVars, history>>

Steps(p) ==
  \/ Start(p) \/ ResolveFails(p) \/ GatesSkip(p) \/ GatesProceed(p) \/ RunFails(p)
  \/ Cancelled(p) \/ Measured(p) \/ OpenOutput(p) \/ WriteOutput(p) \/ OutputFails(p)
  \/ NoUpload(p) \/ Post(p) \/ PostUnreachable(p) \/ Retry(p) \/ Settle(p)

Invocation(p) == (Steps(p) \/ Killed(p)) /\ UNCHANGED <<opts, clock>>
-----------------------------------------------------------------------------
(* The world around: none of it is in src/.                                *)

(* A document arrives: the server indexes it by its hash, or it does not.  *)
Arrive(d) ==
  /\ indexed' = indexed \union {d}
  /\ UNCHANGED <<runVars, file, wire, history>>

(* An answer reaches a poster that still waits: that its document is       *)
(* indexed, or a refusal, which may hide that it is (a proxy's 503).       *)
Answer(p) ==
  /\ pc[p] = "post"
  /\ reply[p] = Waiting
  /\ \E r \in Indexes \union Refusals :
       /\ r \in Indexes => \E d \in wire : d.run = p /\ d \in indexed
       /\ reply' = [reply EXCEPT ![p] = r]
  /\ UNCHANGED <<pc, code, measured, attempt, file, netVars, history>>

(* The same file is also collected from a share; the server does not take  *)
(* a document it cannot parse.                                             *)
Collect ==
  /\ file.by # Nobody
  /\ file.body = "whole"
  /\ indexed' = indexed \union {Doc(file.by)}
  /\ UNCHANGED <<runVars, file, wire, history>>

Tick ==
  /\ clock < Horizon
  /\ clock' = clock + 1
  /\ UNCHANGED <<opts, runVars, file, netVars, history>>

World ==
  /\ (\E d \in wire : Arrive(d)) \/ (\E p \in Run : Answer(p)) \/ Collect
  /\ UNCHANGED <<opts, clock>>

-----------------------------------------------------------------------------

Init ==
  /\ opts \in Options
  /\ clock = 0
  /\ pc = [p \in Run |-> "idle"]
  /\ code = [p \in Run |-> NoCode]
  /\ measured = [p \in Run |-> FALSE]
  /\ attempt = [p \in Run |-> 1]
  /\ reply = [p \in Run |-> Waiting]
  /\ \E body \in {"absent", "whole"}, t \in 0 .. Horizon :
       file = [by |-> Nobody, body |-> body, mtime |-> IF body = "absent" THEN 0 ELSE t]
  /\ wire = {}
  /\ indexed = {}
  /\ earlier = [p \in Run |-> {}]
  /\ wrote = [p \in Run |-> Never]
  /\ clash = FALSE
  /\ limited = {}

Next == (\E p \in Run : Invocation(p)) \/ World \/ Tick

(* A process that runs keeps running: measuring is bounded by the time     *)
(* budgets, a write and a post by the operating system and the timeout.    *)
Fairness == \A p \in Run : WF_vars(Steps(p) /\ UNCHANGED <<opts, clock>>)

Spec == Init /\ [][Next]_vars /\ Fairness

-----------------------------------------------------------------------------
(* Properties.                                                             *)

TypeOK ==
  /\ opts \in Options
  /\ clock \in 0 .. Horizon
  /\ pc \in [Run -> {"idle", "gates", "bench", "output", "opened", "deliver", "post",
                     "exited", "killed"}]
  /\ code \in [Run -> {NoCode, OK, ERROR, BELOW_THRESHOLD, UPLOAD_FAILED}]
  /\ measured \in [Run -> BOOLEAN]
  /\ attempt \in [Run -> 1 .. ATTEMPTS]
  /\ reply \in [Run -> ReplyType]
  /\ file \in [by : Run \union {Nobody}, body : {"absent", "empty", "whole", "torn"},
               mtime : 0 .. Horizon]
  /\ wire \subseteq DocType
  /\ indexed \subseteq DocType
  /\ earlier \in [Run -> SUBSET Run]
  /\ wrote \in [Run -> Never .. Horizon]
  /\ clash \in BOOLEAN
  /\ limited \subseteq Run

Exited(p, codes) == pc[p] = "exited" /\ code[p] \in codes

(* An exit code that does not say UPLOAD_FAILED is a delivery: a run that  *)
(* measured, was to upload and leaves with 0 or 3 has its document on the  *)
(* server, whatever was lost, delayed or repeated on the way (deliver:     *)
(* UPLOAD_FAILED outranks a low grade).                                    *)
OkMeansIndexed ==
  \A p \in Run : opts.upload /\ measured[p] /\ Exited(p, {OK, BELOW_THRESHOLD}) =>
    Doc(p) \in indexed

(* "A failed upload never loses the result": it is whole on disk, unless   *)
(* another invocation has opened the file since (or two wrote at once).    *)
FailureKeepsResult ==
  \A p \in Run : opts.output /\ Exited(p, {UPLOAD_FAILED}) /\ ~clash =>
    /\ wrote[p] # Never
    /\ file.by = p => file.body = "whole"
    /\ file.by # Nobody

(* However often it is posted, and though the same file is collected from  *)
(* a share, a run is indexed once: all its bytes are one serialisation.    *)
IndexedOnce == \A d \in indexed, e \in indexed : d.run = e.run => d = e

(* A retrying deployment tool does not benchmark again: no run passes the  *)
(* recency gate within a window of any run's writing its result, whoever   *)
(* wrote or tore the file in between.                                      *)
MeasuredApart ==
  [][\A p \in Run : pc[p] = "gates" /\ pc'[p] = "bench" /\ opts.recency =>
       \A q \in Run : wrote[q] # Never => clock - wrote[q] >= Window]_vars

(* An invocation that was started ends: gates, retries and waits are       *)
(* bounded, whatever the server answers.                                   *)
Ends == \A p \in Run : pc[p] = "gates" ~> pc[p] \in {"exited", "killed"}

(* The exit codes keep the promises of module Submission.                  *)
Verdict(p) ==
  CASE pc[p] = "killed"                                      -> "killed"
    [] Exited(p, {UPLOAD_FAILED})                            -> "undelivered"
    [] Exited(p, {ERROR})                                    -> "failed"
    [] Exited(p, {OK, BELOW_THRESHOLD}) /\ ~measured[p]      -> "declined"
    [] Exited(p, {OK, BELOW_THRESHOLD}) /\ measured[p] /\ opts.upload  -> "delivered"
    [] Exited(p, {OK, BELOW_THRESHOLD}) /\ measured[p] /\ ~opts.upload -> "kept"
    [] OTHER                                                 -> "open"
Promise == INSTANCE Submission WITH
  verdict  <- [p \in Run |-> Verdict(p)],
  onServer <- {d.run : d \in indexed}
ImplementsSubmission == Promise!Spec

(* upload.rs: "The result is in --output if one was given; the next run    *)
(* will deliver it."  Once a later invocation with the same command line   *)
(* has left with OK, the result of the earlier one is on the server.       *)
NextRunDelivers ==
  \A p \in Run, q \in Run :
    /\ opts.upload /\ wrote[p] # Never
    /\ Exited(p, {UPLOAD_FAILED}) /\ p \in limited
    /\ p \in earlier[q] /\ Exited(q, {OK})
    => Doc(p) \in indexed

=============================================================================
