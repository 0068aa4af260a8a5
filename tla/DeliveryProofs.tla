--------------------------- MODULE DeliveryProofs ---------------------------
(***************************************************************************)
(* Delivery's properties for any number of invocations, any command lines, *)
(* window and number of attempts.                                          *)
(***************************************************************************)
EXTENDS Delivery, TLAPS

LEMMA ReplyTypes ==
  /\ Waiting \in ReplyType /\ Unreachable \in ReplyType
  /\ \A r \in Indexes \union Refusals : r \in ReplyType
BY DEF ReplyType

LEMMA TypeStep == TypeOK /\ [Next]_vars => TypeOK'
<1> SUFFICES ASSUME TypeOK, [Next]_vars PROVE TypeOK'
  OBVIOUS
<1> USE DeliveryAssumption DEF TypeOK
<1>1. CASE UNCHANGED vars
  BY <1>1 DEF vars, runVars, netVars, history
<1>2. ASSUME NEW p \in Run, Steps(p) \/ Killed(p), UNCHANGED <<opts, clock>> PROVE TypeOK'
  <2>1. CASE Start(p)
    BY <1>2, <2>1 DEF Start, Goto, netVars
  <2>2. CASE ResolveFails(p) \/ GatesSkip(p) \/ RunFails(p) \/ Cancelled(p) \/ NoUpload(p)
    BY <1>2, <2>2 DEF ResolveFails, GatesSkip, RunFails, Cancelled, NoUpload, Exit, OK, ERROR,
                      netVars, history
  <2>3. CASE GatesProceed(p) \/ Killed(p)
    BY <1>2, <2>3 DEF GatesProceed, Killed, Goto, netVars, history
  <2>4. CASE Measured(p)
    BY <1>2, <2>4 DEF Measured, netVars, history
  <2>5. CASE OpenOutput(p)
    BY <1>2, <2>5 DEF OpenOutput, Goto, netVars
  <2>6. CASE WriteOutput(p)
    BY <1>2, <2>6 DEF WriteOutput, Goto, netVars, Never
  <2>7. CASE OutputFails(p)
    BY <1>2, <2>7 DEF OutputFails, Exit, netVars, history
  <2>8. CASE Post(p)
    <3>1. Doc(p) \in DocType
      BY DEF Doc, DocType
    <3>2. QED
      BY <1>2, <2>8, <3>1 DEF Post, Goto, history
  <2>9. CASE PostUnreachable(p)
    BY <1>2, <2>9, ReplyTypes DEF PostUnreachable, netVars, history
  <2>10. CASE Retry(p)
    BY <1>2, <2>10, ReplyTypes DEF Retry, Retries, Goto, netVars, history
  <2>11. CASE Settle(p)
    <3>1. code'[p] \in {NoCode, OK, ERROR, BELOW_THRESHOLD, UPLOAD_FAILED}
      BY <2>11 DEF Settle, Exit
    <3>2. code' = [code EXCEPT ![p] = code'[p]] /\ pc' = [pc EXCEPT ![p] = "exited"]
      BY <2>11 DEF Settle, Exit
    <3>3. reply' = [reply EXCEPT ![p] = Waiting] /\ limited' \in {limited, limited \union {p}}
      BY <2>11 DEF Settle
    <3>4. UNCHANGED <<measured, attempt, file, wire, indexed, earlier, wrote, clash>>
      BY <2>11 DEF Settle, netVars
    <3>5. QED
      BY <1>2, <3>1, <3>2, <3>3, <3>4, ReplyTypes
  <2>12. QED
    BY <1>2, <2>1, <2>2, <2>3, <2>4, <2>5, <2>6, <2>7, <2>8, <2>9, <2>10, <2>11 DEF Steps
<1>3. CASE World
  <2>1. ASSUME NEW d \in wire, Arrive(d) PROVE indexed' \subseteq DocType
    BY <2>1 DEF Arrive
  <2>2. ASSUME NEW p \in Run, Answer(p) PROVE reply' \in [Run -> ReplyType]
    BY <2>2, ReplyTypes DEF Answer
  <2>3. ASSUME Collect PROVE indexed' \subseteq DocType
    BY <2>3 DEF Collect, Doc, DocType
  <2>4. QED
    BY <1>3, <2>1, <2>2, <2>3 DEF World, Arrive, Answer, Collect, runVars, netVars, history
<1>4. CASE Tick
  BY <1>4 DEF Tick, runVars, netVars, history
<1>5. QED
  BY <1>1, <1>2, <1>3, <1>4 DEF Next, Invocation

(* Every invocation stays where its code can be, its exit code is one of   *)
(* main.rs' and no attempt passes ATTEMPTS.                                *)
THEOREM DeliveryTypeOK == Spec => []TypeOK
<1>1. Init => TypeOK
  <2> SUFFICES ASSUME Init PROVE TypeOK
    OBVIOUS
  <2>1. file \in [by : Run \union {Nobody}, body : {"absent", "empty", "whole", "torn"},
                  mtime : 0 .. Horizon]
    BY DeliveryAssumption DEF Init
  <2>2. attempt \in [Run -> 1 .. ATTEMPTS] /\ reply \in [Run -> ReplyType]
    BY DeliveryAssumption, ReplyTypes DEF Init
  <2>3. wrote \in [Run -> Never .. Horizon] /\ clock \in 0 .. Horizon
    BY DeliveryAssumption DEF Init, Never
  <2>4. QED
    BY <2>1, <2>2, <2>3 DEF Init, TypeOK
<1>2. QED
  BY <1>1, TypeStep, PTL DEF Spec

-----------------------------------------------------------------------------
(* Where documents come from, and what a reply may be believed.            *)

Finished(p) ==
  /\ measured[p]
  /\ pc[p] \in {"deliver", "post", "killed"} \/ (pc[p] = "exited" /\ code[p] # ERROR)

(* Before the result there is no code, after it the one of threshold_code. *)
CodeOf(p) ==
  /\ pc[p] \in {"idle", "gates", "bench"} => ~measured[p]
  /\ pc[p] \in {"output", "opened", "deliver", "post"} =>
       measured[p] /\ code[p] \in {OK, BELOW_THRESHOLD}

ReplyTrue(p) ==
  /\ Delivered(reply[p]) => Doc(p) \in indexed
  /\ pc[p] \notin {"post", "killed"} => reply[p] = Waiting

Sourced ==
  /\ \A d \in wire \union indexed : d = Doc(d.run) /\ Finished(d.run)
  /\ file.by # Nobody /\ file.body = "whole" => Finished(file.by)

OneSource ==
  /\ \A p \in Run : CodeOf(p) /\ ReplyTrue(p)
  /\ Sourced
  /\ OkMeansIndexed

(* The --output file.  A truncated file is refilled by whoever truncated   *)
(* it, unless two have it open; and it only gets younger.                  *)
FileOf(p) ==
  /\ wrote[p] # Never => /\ file.by # Nobody
                         /\ wrote[p] <= file.mtime
  /\ opts.output /\ pc[p] \in {"deliver", "post"} => wrote[p] # Never
  /\ ~clash /\ pc[p] = "opened" => file.by = p /\ file.body = "empty"
  /\ ~clash /\ opts.output /\ file.by = p /\ pc[p] \in {"deliver", "post"} => file.body = "whole"

Kept ==
  /\ file.by # Nobody => file.body # "absent" /\ file.mtime <= clock
  /\ \A p \in Run : FileOf(p)
  /\ FailureKeepsResult

LEMMA CodeStep ==
  ASSUME TypeOK, NEW q \in Run, CodeOf(q), [Next]_vars
  PROVE  CodeOf(q)'
<1> USE DEF TypeOK, CodeOf, OK, ERROR, BELOW_THRESHOLD
<1>1. CASE UNCHANGED vars
  BY <1>1 DEF vars, runVars
<1>2. ASSUME NEW p \in Run, Steps(p) \/ Killed(p) PROVE CodeOf(q)'
  <2>1. CASE Start(p) \/ GatesProceed(p) \/ Killed(p) \/ OpenOutput(p) \/ WriteOutput(p) \/ Post(p)
             \/ Retry(p)
    <3>1. pc' = [pc EXCEPT ![p] = pc'[p]] /\ UNCHANGED <<code, measured>>
      BY <2>1 DEF Start, GatesProceed, Killed, OpenOutput, WriteOutput, Post, Retry, Goto
    <3>2. \/ pc[p] \in {"idle", "gates"} /\ pc'[p] \in {"gates", "bench"}
          \/ pc[p] \in {"output", "opened", "deliver", "post"} /\ pc'[p] \in {"opened", "deliver", "post"}
          \/ pc'[p] = "killed"
      BY <2>1 DEF Start, GatesProceed, Killed, OpenOutput, WriteOutput, Post, Retry, Goto
    <3>3. QED
      BY <3>1, <3>2
  <2>2. CASE ResolveFails(p) \/ GatesSkip(p) \/ RunFails(p) \/ Cancelled(p) \/ OutputFails(p)
             \/ NoUpload(p) \/ Settle(p)
    BY <2>2 DEF ResolveFails, GatesSkip, RunFails, Cancelled, OutputFails, NoUpload, Settle, Exit
  <2>3. CASE Measured(p)
    BY <2>3 DEF Measured
  <2>4. CASE PostUnreachable(p)
    BY <2>4 DEF PostUnreachable
  <2>5. QED
    BY <1>2, <2>1, <2>2, <2>3, <2>4 DEF Steps
<1>3. CASE World \/ Tick
  BY <1>3 DEF World, Arrive, Answer, Collect, Tick, runVars
<1>4. QED
  BY <1>1, <1>2, <1>3 DEF Next, Invocation

(* A finished run stays finished.                                          *)
LEMMA FinishedStep ==
  ASSUME TypeOK, NEW q \in Run, CodeOf(q), Finished(q), [Next]_vars
  PROVE  Finished(q)'
<1> USE DEF TypeOK, CodeOf, Finished, OK, ERROR, BELOW_THRESHOLD, UPLOAD_FAILED
<1>1. CASE UNCHANGED vars
  BY <1>1 DEF vars, runVars
<1>2. ASSUME NEW p \in Run, Steps(p) \/ Killed(p) PROVE Finished(q)'
  <2>1. CASE Start(p) \/ GatesProceed(p) \/ OpenOutput(p) \/ ResolveFails(p) \/ GatesSkip(p)
             \/ RunFails(p) \/ Cancelled(p) \/ OutputFails(p) \/ Measured(p) \/ WriteOutput(p)
    <3>1. p # q
      BY <2>1 DEF Start, GatesProceed, OpenOutput, ResolveFails, GatesSkip, RunFails, Cancelled,
                  OutputFails, Measured, WriteOutput
    <3>2. /\ pc' = [pc EXCEPT ![p] = pc'[p]] /\ code' = [code EXCEPT ![p] = code'[p]]
          /\ measured' = [measured EXCEPT ![p] = measured'[p]]
      <4>1. CASE Start(p) \/ GatesProceed(p) \/ OpenOutput(p) \/ WriteOutput(p)
        BY <4>1 DEF Start, GatesProceed, OpenOutput, WriteOutput, Goto
      <4>2. CASE ResolveFails(p) \/ GatesSkip(p) \/ RunFails(p) \/ Cancelled(p) \/ OutputFails(p)
        BY <4>2 DEF ResolveFails, GatesSkip, RunFails, Cancelled, OutputFails, Exit
      <4>3. CASE Measured(p)
        BY <4>3 DEF Measured
      <4>4. QED
        BY <2>1, <4>1, <4>2, <4>3
    <3>3. QED
      BY <3>1, <3>2
  <2>2. CASE Killed(p) \/ Post(p) \/ Retry(p)
    BY <2>2 DEF Killed, Post, Retry, Goto
  <2>3. CASE NoUpload(p) \/ Settle(p)
    BY <2>3 DEF NoUpload, Settle, Exit
  <2>4. CASE PostUnreachable(p)
    BY <2>4 DEF PostUnreachable
  <2>5. QED
    BY <1>2, <2>1, <2>2, <2>3, <2>4 DEF Steps
<1>3. CASE World \/ Tick
  BY <1>3 DEF World, Arrive, Answer, Collect, Tick, runVars
<1>4. QED
  BY <1>1, <1>2, <1>3 DEF Next, Invocation

LEMMA SourcedStep == TypeOK /\ OneSource /\ [Next]_vars => Sourced'
<1> SUFFICES ASSUME TypeOK, OneSource, [Next]_vars PROVE Sourced'
  OBVIOUS
<1>a. \A q \in Run : Finished(q) => Finished(q)'
  BY FinishedStep DEF OneSource
<1>b. \A d \in wire \union indexed : d.run \in Run
  BY DEF TypeOK, DocType
<1>c. /\ \A d \in wire \union indexed : d = Doc(d.run) /\ Finished(d.run)'
      /\ file.body = "whole" => \A q \in Run : q = file.by => Finished(q)'
  <2>1. \A d \in wire \union indexed : d = Doc(d.run) /\ Finished(d.run)
    BY DEF OneSource, Sourced
  <2>2. file.body = "whole" => \A q \in Run : q = file.by => Finished(q)
    BY DeliveryAssumption DEF OneSource, Sourced
  <2>3. QED
    BY <2>1, <2>2, <1>a, <1>b
<1>d. file \in [by : Run \union {Nobody}, body : {"absent", "empty", "whole", "torn"},
                mtime : 0 .. Horizon]
  BY DEF TypeOK
<1>1. CASE UNCHANGED <<file, wire, indexed>>
  BY <1>1, <1>c, <1>d DEF Sourced, Doc
<1>2. ASSUME NEW p \in Run, Steps(p) \/ Killed(p) PROVE Sourced'
  <2>1. CASE OpenOutput(p)
    BY <2>1, <1>c DEF OpenOutput, netVars, Sourced, Doc
  <2>2. CASE WriteOutput(p)
    <3>1. Finished(p)'
      BY <2>2 DEF WriteOutput, Goto, Finished, OneSource, CodeOf, TypeOK
    <3>2. QED
      BY <2>2, <3>1, <1>c DEF WriteOutput, netVars, Sourced, Doc
  <2>3. CASE OutputFails(p)
    BY <2>3, <1>c, <1>d DEF OutputFails, netVars, Sourced, Doc
  <2>4. CASE Post(p)
    <3>1. Finished(p)'
      BY <2>4 DEF Post, Goto, Finished, OneSource, CodeOf, TypeOK
    <3>2. Doc(p) = Doc(Doc(p).run) /\ Doc(p).run = p
      BY DEF Doc
    <3>3. QED
      BY <2>4, <3>1, <3>2, <1>c, <1>d DEF Post, Sourced, Doc
  <2>5. CASE UNCHANGED <<file, wire, indexed>>
    BY <1>1, <2>5
  <2>6. QED
    BY <1>2, <2>1, <2>2, <2>3, <2>4, <2>5
       DEF Steps, Start, ResolveFails, GatesSkip, GatesProceed, RunFails, Cancelled, Measured,
           NoUpload, PostUnreachable, Retry, Settle, Killed, netVars
<1>3. ASSUME NEW d \in wire, Arrive(d) PROVE Sourced'
  BY <1>3, <1>c, <1>d DEF Arrive, Sourced, Doc
<1>4. CASE Collect
  <2>1. PICK q \in Run : q = file.by
    BY <1>4, <1>d DEF Collect
  <2>2. Doc(q).run = q /\ Finished(q)'
    BY <1>4, <2>1, <1>c DEF Collect, Doc
  <2>3. file' = file /\ wire' = wire /\ indexed' = indexed \union {Doc(q)}
    BY <1>4, <2>1 DEF Collect
  <2>4. QED
    BY <2>2, <2>3, <1>c, <1>d DEF Sourced, Doc
<1>5. CASE UNCHANGED vars \/ Tick \/ \E p \in Run : Answer(p)
  BY <1>1, <1>5 DEF vars, netVars, Tick, Answer
<1>6. QED
  BY <1>2, <1>3, <1>4, <1>5 DEF Next, Invocation, World

LEMMA NoReply == ~Delivered(Waiting) /\ ~Delivered(Unreachable)
                 /\ \A r \in Refusals : ~Delivered(r)
BY DEF Delivered, Waiting, Unreachable, Refusals, Reply

LEMMA IndexedGrows == [Next]_vars => indexed \subseteq indexed'
<1>1. CASE UNCHANGED indexed
  BY <1>1
<1>2. CASE \E d \in wire : Arrive(d)
  BY <1>2 DEF Arrive
<1>3. CASE Collect
  BY <1>3 DEF Collect
<1>4. [Next]_vars => UNCHANGED indexed \/ (\E d \in wire : Arrive(d)) \/ Collect
  BY DEF Next, vars, netVars, Invocation, Steps, World, Tick, Answer, Start, ResolveFails, GatesSkip,
         GatesProceed, RunFails, Cancelled, Measured, OpenOutput, WriteOutput, OutputFails, NoUpload,
         Post, PostUnreachable, Retry, Settle, Killed
<1>5. QED
  BY <1>1, <1>2, <1>3, <1>4

LEMMA ReplyStep ==
  ASSUME TypeOK, Sourced, NEW q \in Run, ReplyTrue(q), [Next]_vars
  PROVE  ReplyTrue(q)'
<1>a. indexed \subseteq indexed' /\ Doc(q)' = Doc(q)
  BY IndexedGrows DEF Doc
<1>b. reply \in [Run -> ReplyType] /\ pc \in [Run -> {"idle", "gates", "bench", "output", "opened",
                                               "deliver", "post", "exited", "killed"}]
  BY DEF TypeOK
<1>n. ~Delivered(Waiting) /\ ~Delivered(Unreachable)
  BY NoReply
<1> USE <1>a, <1>b DEF ReplyTrue
<1>1. CASE UNCHANGED <<pc, reply>>
  BY <1>1 DEF Delivered
<1>2. ASSUME NEW p \in Run, Steps(p) \/ Killed(p) PROVE ReplyTrue(q)'
  <2>1. CASE /\ pc' = [pc EXCEPT ![p] = pc'[p]]
             /\ reply' = reply
             /\ pc[p] \in {"post", "killed"} => pc'[p] = "killed"
    BY <2>1 DEF Delivered
  <2>2. CASE Retry(p) \/ Settle(p)
    <3>1. reply' = [reply EXCEPT ![p] = Waiting] /\ pc' = [pc EXCEPT ![p] = pc'[p]]
      BY <2>2 DEF Retry, Settle, Goto, Exit
    <3>2. CASE p = q
      BY <3>1, <3>2, <1>n DEF Delivered
    <3>3. CASE p # q
      BY <3>1, <3>3 DEF Delivered
    <3>4. QED
      BY <3>2, <3>3
  <2>3. CASE PostUnreachable(p)
    <3>1. reply' = [reply EXCEPT ![p] = Unreachable] /\ pc' = pc /\ pc[p] = "post"
      BY <2>3 DEF PostUnreachable
    <3>2. CASE p = q
      BY <3>1, <3>2, <1>n DEF Delivered
    <3>3. CASE p # q
      BY <3>1, <3>3 DEF Delivered
    <3>4. QED
      BY <3>2, <3>3
  <2>4. Retry(p) \/ Settle(p) \/ PostUnreachable(p) \/
        (/\ pc' = [pc EXCEPT ![p] = pc'[p]]
         /\ reply' = reply
         /\ pc[p] \in {"post", "killed"} => pc'[p] = "killed")
    <3>1. CASE Start(p) \/ GatesProceed(p) \/ OpenOutput(p) \/ WriteOutput(p) \/ Post(p) \/ Killed(p)
      BY <3>1 DEF Start, GatesProceed, OpenOutput, WriteOutput, Post, Killed, Goto
    <3>2. CASE ResolveFails(p) \/ GatesSkip(p) \/ RunFails(p) \/ Cancelled(p) \/ OutputFails(p)
               \/ NoUpload(p) \/ Measured(p)
      BY <3>2 DEF ResolveFails, GatesSkip, RunFails, Cancelled, OutputFails, NoUpload, Measured, Exit
    <3>3. QED
      BY <1>2, <3>1, <3>2 DEF Steps
  <2>5. QED
    BY <2>1, <2>2, <2>3, <2>4
<1>3. ASSUME NEW p \in Run, Answer(p) PROVE ReplyTrue(q)'
  <2>1. PICK r \in Indexes \union Refusals :
          /\ r \in Indexes => \E d \in wire : d.run = p /\ d \in indexed
          /\ reply' = [reply EXCEPT ![p] = r]
    BY <1>3 DEF Answer
  <2>2. pc' = pc /\ pc[p] = "post"
    BY <1>3 DEF Answer
  <2>3. CASE p # q
    BY <2>1, <2>2, <2>3 DEF Delivered
  <2>4. CASE p = q
    <3>1. r \in Indexes => Doc(q) \in indexed
      BY <2>1, <2>4 DEF Sourced
    <3>2. r \notin Indexes => ~Delivered(r)
      BY NoReply
    <3>3. reply'[q] = r
      BY <2>1, <2>4
    <3>4. QED
      BY <2>2, <2>4, <3>1, <3>2, <3>3 DEF Delivered
  <2>5. QED
    BY <2>3, <2>4
<1>4. QED
  BY <1>1, <1>2, <1>3 DEF Next, Invocation, World, Arrive, Collect, Tick, vars, runVars

LEMMA OkStep == TypeOK /\ OneSource /\ [Next]_vars => OkMeansIndexed'
<1> SUFFICES ASSUME TypeOK, OneSource, [Next]_vars,
                    NEW q \in Run, opts'.upload, measured'[q], Exited(q, {OK, BELOW_THRESHOLD})'
             PROVE  Doc(q) \in indexed'
  BY DEF OkMeansIndexed, Doc
<1>a. /\ indexed \subseteq indexed' /\ opts' = opts
      /\ CodeOf(q) /\ ReplyTrue(q)
      /\ opts.upload /\ measured[q] /\ Exited(q, {OK, BELOW_THRESHOLD}) => Doc(q) \in indexed
  BY IndexedGrows DEF OneSource, OkMeansIndexed, Next, vars, Invocation, World, Tick
<1> USE <1>a DEF TypeOK, CodeOf, Exited
<1>1. CASE UNCHANGED <<pc, code, measured>>
  BY <1>1
<1>2. ASSUME NEW p \in Run, Steps(p) \/ Killed(p) PROVE Doc(q) \in indexed'
  <2>1. CASE pc'[q] = pc[q] /\ code'[q] = code[q] /\ measured'[q] = measured[q]
    BY <2>1
  <2>2. CASE p = q
    <3>1. CASE Settle(p)
      <4>1. Delivered(reply[q])
        BY <2>2, <3>1 DEF Settle, Exit, UPLOAD_FAILED, OK, BELOW_THRESHOLD
      <4>2. QED
        BY <4>1 DEF ReplyTrue
    <3>2. ~NoUpload(p)
      BY DEF NoUpload
    <3>3. ~(ResolveFails(p) \/ GatesSkip(p) \/ RunFails(p) \/ Cancelled(p))
      BY <2>2 DEF ResolveFails, GatesSkip, RunFails, Cancelled
    <3>4. ~OutputFails(p)
      BY <2>2 DEF OutputFails, Exit, ERROR, OK, BELOW_THRESHOLD
    <3>5. ~(Start(p) \/ GatesProceed(p) \/ Measured(p) \/ OpenOutput(p) \/ WriteOutput(p) \/ Post(p)
            \/ Retry(p) \/ Killed(p))
      BY <2>2 DEF Start, GatesProceed, Measured, OpenOutput, WriteOutput, Post, Retry, Killed, Goto
    <3>6. ~PostUnreachable(p)
      BY <2>2 DEF PostUnreachable
    <3>7. QED
      BY <1>2, <3>1, <3>2, <3>3, <3>4, <3>5, <3>6 DEF Steps
  <2>3. CASE p # q
    BY <1>2, <2>1, <2>3 DEF Steps, Start, ResolveFails, GatesSkip, GatesProceed, RunFails, Cancelled,
           Measured, OpenOutput, WriteOutput, OutputFails, NoUpload, Post, PostUnreachable, Retry,
           Settle, Killed, Goto, Exit
  <2>4. QED
    BY <2>2, <2>3
<1>3. CASE World \/ Tick \/ UNCHANGED vars
  BY <1>1, <1>3 DEF World, Arrive, Answer, Collect, Tick, runVars, vars
<1>4. QED
  BY <1>2, <1>3 DEF Next, Invocation

LEMMA OneSourceInvariant == Spec => []OneSource
<1>1. Init => OneSource
  <2> SUFFICES ASSUME Init PROVE OneSource
    OBVIOUS
  <2>1. ASSUME NEW p \in Run PROVE pc[p] = "idle" /\ ~measured[p] /\ reply[p] = Waiting
    BY DEF Init
  <2>2. wire = {} /\ indexed = {} /\ file.by = Nobody
    BY DEF Init
  <2>3. ASSUME NEW p \in Run PROVE CodeOf(p) /\ ReplyTrue(p)
    BY <2>1, NoReply DEF CodeOf, ReplyTrue
  <2>4. Sourced
    BY <2>2 DEF Sourced
  <2>5. OkMeansIndexed
    BY <2>1 DEF OkMeansIndexed
  <2>6. QED
    BY <2>3, <2>4, <2>5 DEF OneSource
<1>2. TypeOK /\ OneSource /\ [Next]_vars => OneSource'
  <2> SUFFICES ASSUME TypeOK, OneSource, [Next]_vars PROVE OneSource'
    OBVIOUS
  <2>1. ASSUME NEW q \in Run PROVE CodeOf(q)' /\ ReplyTrue(q)'
    BY CodeStep, ReplyStep DEF OneSource
  <2>2. QED
    BY <2>1, SourcedStep, OkStep DEF OneSource
<1>3. QED
  BY <1>1, <1>2, DeliveryTypeOK, PTL DEF Spec

(* A run that was to upload and leaves with 0 or 3 is on the server,       *)
(* whatever the network lost, delayed or repeated.                         *)
THEOREM DeliveryOkMeansIndexed == Spec => []OkMeansIndexed
<1>1. OneSource => OkMeansIndexed
  BY DEF OneSource
<1>2. QED
  BY <1>1, OneSourceInvariant, PTL

(* However a run's result reaches the server, it is indexed once.          *)
THEOREM DeliveryIndexedOnce == Spec => []IndexedOnce
<1>1. OneSource => IndexedOnce
  BY DEF OneSource, Sourced, IndexedOnce
<1>2. QED
  BY <1>1, OneSourceInvariant, PTL

-----------------------------------------------------------------------------
(* The --output file.                                                      *)

(* A step of p that neither touches the file nor lets time pass.           *)
Aside(p) ==
  /\ UNCHANGED <<file, wrote, clash>>
  /\ pc' = [pc EXCEPT ![p] = pc'[p]] /\ code' = [code EXCEPT ![p] = code'[p]]
  /\ pc'[p] # "opened"
  /\ pc'[p] \in {"deliver", "post"} => pc[p] \in {"deliver", "post"} \/ ~opts.output
  /\ pc'[p] = "exited" /\ code'[p] = UPLOAD_FAILED => pc[p] = "post"

LEMMA StepsAside ==
  ASSUME TypeOK, NEW p \in Run, CodeOf(p), Steps(p) \/ Killed(p)
  PROVE  Aside(p) \/ OpenOutput(p) \/ WriteOutput(p) \/ OutputFails(p)
<1> USE DEF TypeOK, CodeOf, Aside, OK, ERROR, BELOW_THRESHOLD, UPLOAD_FAILED
<1>1. CASE Start(p) \/ GatesProceed(p) \/ Killed(p) \/ Post(p) \/ Retry(p)
  BY <1>1 DEF Start, GatesProceed, Killed, Post, Retry, Goto, history
<1>2. CASE ResolveFails(p) \/ GatesSkip(p) \/ RunFails(p) \/ Cancelled(p)
  BY <1>2 DEF ResolveFails, GatesSkip, RunFails, Cancelled, Exit, history
<1>3. CASE NoUpload(p) \/ Settle(p)
  BY <1>3 DEF NoUpload, Settle, Exit, history
<1>4. CASE Measured(p)
  BY <1>4 DEF Measured, history
<1>5. CASE PostUnreachable(p)
  BY <1>5 DEF PostUnreachable, history
<1>6. QED
  BY <1>1, <1>2, <1>3, <1>4, <1>5 DEF Steps

LEMMA KeptStep ==
  TypeOK /\ (\A p \in Run : CodeOf(p)) /\ Kept /\ [Next]_vars => Kept'
<1> SUFFICES ASSUME TypeOK, \A p \in Run : CodeOf(p), Kept, [Next]_vars PROVE Kept'
  OBVIOUS
<1>a. opts' = opts /\ (~Tick => clock' = clock)
  BY DEF Next, vars, Invocation, World, Tick
<1>b. /\ file.by # Nobody => file.body # "absent" /\ file.mtime <= clock
      /\ \A p \in Run : FileOf(p)
      /\ \A p \in Run : opts.output /\ pc[p] = "exited" /\ code[p] = UPLOAD_FAILED /\ ~clash =>
           wrote[p] # Never /\ (file.by = p => file.body = "whole")
  BY DEF Kept, FailureKeepsResult, Exited
<1> DEFINE KeptNext ==
      /\ file'.by # Nobody => file'.body # "absent" /\ file'.mtime <= clock'
      /\ \A q \in Run : FileOf(q)'
      /\ \A q \in Run :
           opts.output /\ pc'[q] = "exited" /\ code'[q] = UPLOAD_FAILED /\ ~clash' =>
             wrote'[q] # Never /\ (file'.by = q => file'.body = "whole")
<1> SUFFICES KeptNext
  BY <1>a DEF Kept, FailureKeepsResult, Exited, FileOf
<1> USE DEF TypeOK, FileOf
<1>1. CASE UNCHANGED <<file, wrote, clash, pc, code, clock>>
  BY <1>1, <1>a, <1>b
<1>2. CASE Tick
  BY <1>2, <1>a, <1>b DEF Tick, runVars, history
<1>3. ASSUME NEW p \in Run, Aside(p), clock' = clock PROVE KeptNext
  BY <1>3, <1>a, <1>b DEF Aside
<1>4. ASSUME NEW p \in Run, OpenOutput(p), clock' = clock PROVE KeptNext
  <2>1. /\ file'.by = p /\ file'.body = "empty" /\ file'.mtime = clock
        /\ wrote' = wrote /\ code' = code /\ pc' = [pc EXCEPT ![p] = "opened"]
    BY <1>4 DEF OpenOutput, Goto
  <2>2. ~clash' => ~clash /\ \A q \in Run : pc[q] # "opened"
    BY <1>4 DEF OpenOutput
  <2>3. ASSUME NEW q \in Run PROVE FileOf(q)'
    BY <2>1, <2>2, <1>a, <1>b, DeliveryAssumption DEF Never
  <2>4. QED
    BY <1>4, <2>1, <2>2, <2>3, <1>b
<1>5. ASSUME NEW p \in Run, WriteOutput(p), clock' = clock PROVE KeptNext
  <2>1. /\ file'.by = p /\ file'.body \in {"whole", "torn"} /\ file'.mtime = clock
        /\ file.body = "empty" => file'.body = "whole"
        /\ wrote' = [wrote EXCEPT ![p] = clock] /\ UNCHANGED <<code, clash>>
        /\ pc[p] = "opened" /\ pc' = [pc EXCEPT ![p] = "deliver"]
    BY <1>5 DEF WriteOutput, Goto
  <2>2. ASSUME NEW q \in Run PROVE FileOf(q)'
    BY <2>1, <1>a, <1>b, DeliveryAssumption DEF Never
  <2>3. QED
    BY <1>5, <2>1, <2>2, <1>b, DeliveryAssumption DEF Never
<1>6. ASSUME NEW p \in Run, OutputFails(p), clock' = clock PROVE KeptNext
  <2>1. /\ UNCHANGED <<wrote, clash>>
        /\ pc' = [pc EXCEPT ![p] = "exited"] /\ code' = [code EXCEPT ![p] = ERROR]
    BY <1>6 DEF OutputFails, Exit, history
  <2>2. CASE file' = file
    BY <2>1, <2>2, <1>6, <1>a, <1>b DEF ERROR, UPLOAD_FAILED
  <2>3. CASE pc[p] = "opened" /\ file' = [by |-> p, body |-> "torn", mtime |-> clock]
    <3>1. ASSUME NEW q \in Run PROVE FileOf(q)'
      BY <2>1, <2>3, <1>a, <1>b, DeliveryAssumption DEF Never
    <3>2. QED
      BY <1>6, <2>1, <2>3, <3>1, <1>b, DeliveryAssumption DEF ERROR, UPLOAD_FAILED
  <2>4. QED
    BY <1>6, <2>2, <2>3 DEF OutputFails
<1>7. QED
  BY <1>1, <1>2, <1>3, <1>4, <1>5, <1>6, StepsAside
     DEF Next, Invocation, World, Arrive, Answer, Collect, vars, runVars, history

LEMMA KeptInvariant == Spec => []Kept
<1>1. Init => Kept
  <2> SUFFICES ASSUME Init PROVE Kept
    OBVIOUS
  <2>1. ASSUME NEW p \in Run PROVE pc[p] = "idle" /\ wrote[p] = Never
    BY DEF Init
  <2>2. file.by = Nobody
    BY DEF Init
  <2>3. QED
    BY <2>1, <2>2 DEF Kept, FileOf, FailureKeepsResult, Exited
<1>2. OneSource => \A p \in Run : CodeOf(p)
  BY DEF OneSource
<1>3. QED
  BY <1>1, <1>2, KeptStep, OneSourceInvariant, DeliveryTypeOK, PTL DEF Spec

(* A run that leaves with UPLOAD_FAILED has its result on disk, whole      *)
(* unless another invocation has opened the file since.                    *)
THEOREM DeliveryFailureKeepsResult == Spec => []FailureKeepsResult
<1>1. Kept => FailureKeepsResult
  BY DEF Kept
<1>2. QED
  BY <1>1, KeptInvariant, PTL

(* No run passes the recency gate within a window of any run's writing its *)
(* result.                                                                 *)
THEOREM DeliveryMeasuredApart == Spec => MeasuredApart
<1> DEFINE Apart == \A p \in Run : pc[p] = "gates" /\ pc'[p] = "bench" /\ opts.recency =>
                      \A q \in Run : wrote[q] # Never => clock - wrote[q] >= Window
<1>1. TypeOK /\ Kept /\ [Next]_vars => Apart \/ UNCHANGED vars
  <2> SUFFICES ASSUME TypeOK, Kept, [Next]_vars, NEW p \in Run, pc[p] = "gates", pc'[p] = "bench",
                      opts.recency, NEW q \in Run, wrote[q] # Never
               PROVE  clock - wrote[q] >= Window
    OBVIOUS
  <2>1. GatesProceed(p)
    <3>1. PICK r \in Run : Steps(r) \/ Killed(r)
      BY DEF Next, vars, Invocation, World, Tick, Arrive, Answer, Collect, runVars
    <3>2. r = p
      BY <3>1 DEF TypeOK, Steps, Start, ResolveFails, GatesSkip, GatesProceed, RunFails, Cancelled,
           Measured, OpenOutput, WriteOutput, OutputFails, NoUpload, Post, PostUnreachable, Retry,
           Settle, Killed, Goto, Exit
    <3>3. QED
      BY <3>1, <3>2 DEF TypeOK, Steps, Start, ResolveFails, GatesSkip, RunFails, Cancelled,
           Measured, OpenOutput, WriteOutput, OutputFails, NoUpload, Post, PostUnreachable, Retry,
           Settle, Killed, Goto, Exit
  <2>2. ~Recent
    BY <2>1 DEF GatesProceed
  <2>3. file.body # "absent" /\ file.mtime <= clock /\ wrote[q] <= file.mtime
    BY DEF Kept, FileOf
  <2>4. clock - file.mtime >= Window
    BY <2>2, <2>3, DeliveryAssumption DEF Recent, TypeOK
  <2>5. QED
    BY <2>3, <2>4, DeliveryAssumption DEF TypeOK, Never
<1>2. QED
  BY <1>1, KeptInvariant, DeliveryTypeOK, PTL DEF Spec, MeasuredApart

-----------------------------------------------------------------------------
(* The refinement: a step of an invocation tells one verdict or none, a    *)
(* document that arrives is an indexed run.                                *)

LEMMA StepOfOne ==
  ASSUME TypeOK, NEW p \in Run, Steps(p) \/ Killed(p)
  PROVE  /\ pc[p] \notin {"exited", "killed"}
         /\ UNCHANGED indexed
         /\ \A q \in Run \ {p} :
              pc'[q] = pc[q] /\ code'[q] = code[q] /\ measured'[q] = measured[q]
<1> USE DEF TypeOK
<1>1. CASE Start(p) \/ GatesProceed(p) \/ Killed(p) \/ OpenOutput(p) \/ WriteOutput(p) \/ Post(p)
           \/ Retry(p)
  BY <1>1 DEF Start, GatesProceed, Killed, OpenOutput, WriteOutput, Post, Retry, Goto, netVars
<1>2. CASE ResolveFails(p) \/ GatesSkip(p) \/ RunFails(p) \/ Cancelled(p) \/ OutputFails(p)
           \/ NoUpload(p) \/ Settle(p)
  BY <1>2 DEF ResolveFails, GatesSkip, RunFails, Cancelled, OutputFails, NoUpload, Settle, Exit,
              netVars
<1>3. CASE Measured(p) \/ PostUnreachable(p)
  BY <1>3 DEF Measured, PostUnreachable, netVars
<1>4. QED
  BY <1>1, <1>2, <1>3 DEF Steps

LEMMA VerdictStays ==
  ASSUME NEW q \in Run, opts' = opts, pc'[q] = pc[q], code'[q] = code[q], measured'[q] = measured[q]
  PROVE  Verdict(q)' = Verdict(q)
BY DEF Verdict, Exited

LEMMA ToldOnce ==
  ASSUME TypeOK, OneSource, [Next]_vars, OkMeansIndexed', NEW p \in Run, Steps(p) \/ Killed(p),
         opts' = opts
  PROVE  Promise!Next \/ UNCHANGED Promise!svars
<1> DEFINE told == [q \in Run |-> Verdict(q)]
           onServer == {d.run : d \in indexed}
           v == Verdict(p)'
<1>1. Verdict(p) = "open"
  BY StepOfOne DEF Verdict, Exited
<1>2. UNCHANGED indexed /\ onServer' = onServer
  BY StepOfOne
<1>3. told' = [told EXCEPT ![p] = v]
  <2>1. \A q \in Run \ {p} : Verdict(q)' = Verdict(q)
    BY StepOfOne, VerdictStays
  <2>2. QED
    BY <2>1
<1>4. v = "delivered" => p \in onServer
  <2>1. v = "delivered" => Doc(p) \in indexed
    BY <1>2 DEF Verdict, Exited, OkMeansIndexed, Doc, OK, BELOW_THRESHOLD
  <2>2. Doc(p).run = p
    BY DEF Doc
  <2>3. QED
    BY <2>1, <2>2
<1>5. v \in {"declined", "failed"} => p \notin onServer
  <2> SUFFICES ASSUME p \in onServer PROVE v \notin {"declined", "failed"}
    OBVIOUS
  <2>1. CodeOf(p) /\ Finished(p)
    BY DEF OneSource, Sourced
  <2>2. Finished(p)'
    BY <2>1, FinishedStep
  <2>3. QED
    BY <2>2 DEF Finished, Verdict, Exited, OK, ERROR, BELOW_THRESHOLD, UPLOAD_FAILED
<1>6. CASE v = "open"
  <2>1. told' = told
    BY <1>1, <1>3, <1>6
  <2>2. QED
    BY <1>2, <2>1 DEF Promise!svars
<1>7. CASE v # "open"
  <2>1. v \in Promise!Verdicts
    BY <1>7 DEF Verdict, Promise!Verdicts
  <2>2. Promise!Tell(p, v)
    BY <1>1, <1>2, <1>3, <1>4, <1>5 DEF Promise!Tell
  <2>3. QED
    BY <2>1, <2>2 DEF Promise!Next
<1>8. QED
  BY <1>6, <1>7

LEMMA IndexedIsIndex ==
  ASSUME TypeOK, OneSource, NEW p \in Run, Finished(p), indexed' = indexed \union {Doc(p)},
         UNCHANGED <<opts, pc, code, measured>>
  PROVE  Promise!Next
<1> DEFINE told == [q \in Run |-> Verdict(q)]
           onServer == {d.run : d \in indexed}
<1>1. told' = told
  BY VerdictStays
<1>2. onServer' = onServer \union {p}
  <2>1. Doc(p).run = p
    BY DEF Doc
  <2>2. \A q : q \in onServer' <=> \E d \in indexed \union {Doc(p)} : q = d.run
    OBVIOUS
  <2>3. \A q : q \in onServer' <=> q \in onServer \/ q = p
    BY <2>1, <2>2
  <2>4. QED
    BY <2>3
<1>3. told[p] \notin {"declined", "failed"}
  BY DEF Finished, Verdict, Exited, OK, ERROR, BELOW_THRESHOLD, UPLOAD_FAILED
<1>4. Promise!Index(p)
  BY <1>1, <1>2, <1>3 DEF Promise!Index
<1>5. QED
  BY <1>4 DEF Promise!Next

(* What an exit code tells is what module Submission promises, whatever    *)
(* overlaps, is killed, lost or repeated.                                  *)
THEOREM DeliveryImplementsSubmission == Spec => ImplementsSubmission
<1>1. Init => Promise!Init
  <2> SUFFICES ASSUME Init PROVE Promise!Init
    OBVIOUS
  <2>1. \A p \in Run : Verdict(p) = "open"
    BY DEF Init, Verdict, Exited
  <2>2. indexed = {}
    BY DEF Init
  <2>3. QED
    BY <2>1, <2>2 DEF Promise!Init
<1>2. TypeOK /\ OneSource /\ OkMeansIndexed' /\ [Next]_vars => [Promise!Next]_(Promise!svars)
  <2> SUFFICES ASSUME TypeOK, OneSource, OkMeansIndexed', [Next]_vars
               PROVE  Promise!Next \/ UNCHANGED Promise!svars
    OBVIOUS
  <2>1. ASSUME NEW p \in Run, Invocation(p) PROVE Promise!Next \/ UNCHANGED Promise!svars
    BY <2>1, ToldOnce DEF Invocation
  <2>2. ASSUME UNCHANGED <<opts, pc, code, measured, indexed>>
        PROVE  UNCHANGED Promise!svars
    BY <2>2, VerdictStays DEF Promise!svars
  <2>3. ASSUME NEW d \in wire, Arrive(d), UNCHANGED opts PROVE Promise!Next
    <3>1. d.run \in Run /\ d = Doc(d.run) /\ Finished(d.run)
      BY DEF TypeOK, DocType, OneSource, Sourced
    <3>2. QED
      BY <2>3, <3>1, IndexedIsIndex DEF Arrive, runVars
  <2>4. ASSUME Collect, UNCHANGED opts PROVE Promise!Next
    <3>1. file.by \in Run /\ Finished(file.by)
      BY <2>4 DEF Collect, TypeOK, OneSource, Sourced
    <3>2. QED
      BY <2>4, <3>1, IndexedIsIndex DEF Collect, runVars
  <2>5. CASE UNCHANGED vars \/ Tick \/ (\E p \in Run : Answer(p) /\ UNCHANGED opts)
    BY <2>2, <2>5 DEF vars, runVars, netVars, Tick, Answer
  <2>6. QED
    BY <2>1, <2>3, <2>4, <2>5 DEF Next, World
<1>3. OneSource => OkMeansIndexed
  BY DEF OneSource
<1>4. QED
  BY <1>1, <1>2, <1>3, OneSourceInvariant, DeliveryTypeOK, PTL
     DEF Spec, ImplementsSubmission, Promise!Spec

=============================================================================
