--------------------------- MODULE SessionProofs ---------------------------
(***************************************************************************)
(* Session's type correctness and its main safety properties, for every    *)
(* selection of benchmarks, any number of subtests, warm-ups and runs.     *)
(***************************************************************************)
EXTENDS Session, DataFacts, SequenceTheorems, TLAPS

-----------------------------------------------------------------------------
(* Type correctness.                                                       *)

(* A benchmark that errs leaves the bookkeeping and the channel well typed.*)
LEMMA ErrTypes ==
  ASSUME TypeOK, b \in Index, NEW why \in {"aborted", "measurement"}, BenchErrs(why),
         UNCHANGED <<fixed, uiVars>>
  PROVE  TypeOK'
<1>1. selected \in Seq(Bench) /\ Index' = Index /\ Index = 1 .. Len(selected)
  BY SessionAssumption DEF TypeOK, fixed, Index
<1>2. chan' \in Seq(Message)
  <2>1. Failed(why) \in Message
    BY DEF Failed, Message
  <2>2. Append(chan, Failed(why)) \in Seq(Message)
    BY <2>1 DEF TypeOK
  <2>3. QED
    BY <2>2 DEF BenchErrs, TypeOK
<1>3. notes' \subseteq NoteType
  <2>1. <<b, why>> \in NoteType
    BY DEF NoteType, TypeOK
  <2>2. QED
    BY <2>1 DEF BenchErrs, TypeOK
<1>4. /\ b' \in Nat \ {0}
      /\ pc' \in {"bench", "gone"}
      /\ err' \in {"none", "aborted", "measurement", "empty", "score"}
  BY DEF BenchErrs, TypeOK
<1>5. UNCHANGED <<selected, soaking, s, w, r, measured, kept, zero, samples, sampling, cursor,
                  abort, ui, app, answer, late>>
  BY DEF BenchErrs, fixed, uiVars, soakVars
<1>6. QED
  BY <1>1, <1>2, <1>3, <1>4, <1>5 DEF TypeOK

(* Every other step of the worker sends at most one well typed message.    *)
LEMMA WorkerSends ==
  ASSUME TypeOK,
         \/ BenchBegins \/ SubtestBegins \/ WarmUp \/ TimedRun \/ SubtestEnds \/ BenchEnds
         \/ NothingMeasured \/ BenchmarksDone \/ ScoreRefuses \/ Score
         \/ SoakBegins \/ NoSoak \/ SoakTurn \/ SendDone
  PROVE  /\ chan' \in Seq(Message)
         /\ cursor' \in [bench : Nat, sub : Nat]
<1>1. \A m \in Message : Append(chan, m) \in Seq(Message)
  BY DEF TypeOK
<1>2. \A t \in {"benchStart", "subStart", "warmup", "run", "subDone", "benchDone",
                "soakStart", "soakSample"} :
        \A i \in Nat, j \in Nat, k \in Nat : Ev(t, i, j, k) \in Message
  BY DEF Ev, Message, EventType
<1>3. cursor.bench \in Nat /\ cursor.sub \in Nat /\ cursor \in [bench : Nat, sub : Nat]
  BY DEF TypeOK
<1>4. ASSUME NEW t \in {"subStart", "warmup", "run", "subDone", "benchDone"}, NEW k \in Nat,
             EmitHere(t, k)
      PROVE  chan' \in Seq(Message) /\ cursor' \in [bench : Nat, sub : Nat]
  BY <1>1, <1>2, <1>3, <1>4 DEF EmitHere
<1>5. CASE BenchBegins
  BY <1>1, <1>2, <1>3, <1>5 DEF BenchBegins, EmitBenchStart, NextBench
<1>6. CASE SubtestBegins \/ WarmUp \/ TimedRun \/ SubtestEnds \/ BenchEnds
  BY <1>4, <1>6 DEF SubtestBegins, WarmUp, TimedRun, SubtestEnds, BenchEnds, TypeOK
<1>7. CASE NothingMeasured \/ ScoreRefuses
  <2>1. Failed("empty") \in Message /\ Failed("score") \in Message
    BY DEF Failed, Message
  <2>2. QED
    BY <1>1, <1>3, <1>7, <2>1 DEF NothingMeasured, ScoreRefuses
<1>8. CASE BenchmarksDone \/ Score \/ NoSoak
  BY <1>3, <1>8 DEF BenchmarksDone, Score, NoSoak, TypeOK
<1>9. CASE SoakBegins \/ SoakTurn
  <2>1. Ev("soakStart", 0, 0, 0) \in Message /\ Ev("soakSample", 0, 0, 0) \in Message
    BY <1>2
  <2>2. chan' \in {chan, Append(chan, Ev("soakStart", 0, 0, 0)), Append(chan, Ev("soakSample", 0, 0, 0))}
    BY <1>9 DEF SoakBegins, SoakTurn
  <2>3. cursor' = cursor
    BY <1>9 DEF SoakBegins, SoakTurn
  <2>4. chan \in Seq(Message)
    BY DEF TypeOK
  <2>5. chan' \in Seq(Message)
    BY <1>1, <2>1, <2>2, <2>4
  <2>6. QED
    BY <1>3, <2>3, <2>5
<1>10. CASE SendDone
  <2>1. Result(samples >= 3) \in ResultType
    <3>1. kept \subseteq Nat
      BY SessionAssumption DEF TypeOK, Index
    <3>2. QED
      BY <3>1 DEF Result, ResultType, TypeOK
  <2>2. Done(Result(samples >= 3)) \in Message
    BY <2>1 DEF Done, Message
  <2>3. QED
    BY <1>1, <1>3, <1>10, <2>2 DEF SendDone
<1>11. QED
  BY <1>5, <1>6, <1>7, <1>8, <1>9, <1>10

(* TypeOK without the part the worker cannot touch.                        *)
WorkTypes ==
  /\ selected \in Selections
  /\ soaking \in BOOLEAN
  /\ pc \in {"bench", "subtest", "measure", "score", "scored", "soak", "send", "gone"}
  /\ b \in Nat \ {0}
  /\ pc \in {"subtest", "measure"} => b \in Index
  /\ s \in Nat
  /\ w \in 0 .. Warmups
  /\ r \in 0 .. Timed
  /\ measured \in [Index -> Nat]
  /\ kept \subseteq Index /\ zero \subseteq Index
  /\ notes \subseteq NoteType
  /\ err \in {"none", "aborted", "measurement", "empty", "score"}
  /\ samples \in 0 .. MaxSamples
  /\ sampling \in BOOLEAN
  /\ abort \in BOOLEAN
  /\ late \in Nat

LEMMA WorkerTypes == TypeOK /\ Worker => TypeOK'
<1> SUFFICES ASSUME TypeOK, Worker PROVE TypeOK'
  OBVIOUS
<1>1. /\ selected \in Seq(Bench) /\ Index' = Index /\ Index = 1 .. Len(selected)
      /\ UNCHANGED <<selected, soaking, ui, app, answer>>
  BY SessionAssumption DEF TypeOK, Index, Worker, fixed, uiVars
<1>2. CASE AbortNoticed \/ MeasurementFails
  <2>1. b \in Index /\ UNCHANGED <<fixed, uiVars>>
    BY <1>2 DEF AbortNoticed, MeasurementFails, TypeOK, Worker
  <2>2. QED
    BY <1>2, <2>1, ErrTypes DEF AbortNoticed, MeasurementFails
<1>3. CASE \/ BenchBegins \/ SubtestBegins \/ WarmUp \/ TimedRun \/ SubtestEnds \/ BenchEnds
           \/ NothingMeasured \/ BenchmarksDone \/ ScoreRefuses \/ Score
           \/ SoakBegins \/ NoSoak \/ SoakTurn \/ SendDone
  <2> SUFFICES WorkTypes'
    <3>1. chan' \in Seq(Message) /\ cursor' \in [bench : Nat, sub : Nat]
      BY <1>3, WorkerSends
    <3>2. QED
      BY <1>1, <3>1 DEF WorkTypes, TypeOK
  <2>1. WorkTypes
    BY DEF WorkTypes, TypeOK
  <2> HIDE DEF TypeOK
  <2>a. ASSUME SubtestEnds
        PROVE  /\ pc = "measure" /\ pc' = "subtest" /\ b' = b /\ s' = s + 1
               /\ measured' = [measured EXCEPT ![b] = @ + 1]
               /\ zero' \in {zero, zero \union {b}}
               /\ late' \in {late, late + 1}
               /\ UNCHANGED <<w, r, kept, notes, err, samples, sampling, abort>>
    BY <2>a DEF SubtestEnds, soakVars
  <2>b. ASSUME SoakTurn
        PROVE  /\ samples' \in {samples, samples + 1}
               /\ samples = MaxSamples => samples' = samples
               /\ pc' \in {"send", "soak"}
               /\ UNCHANGED <<b, s, w, r, measured, kept, notes, zero, err, sampling, abort, late>>
    BY <2>b DEF SoakTurn, position, outcomes
  <2> USE DEF WorkTypes, position, outcomes, soakVars
  <2>2. CASE BenchBegins
    BY <1>1, <2>1, <2>2 DEF BenchBegins
  <2>3. CASE SubtestBegins
    BY <1>1, <2>1, <2>3, SessionAssumption DEF SubtestBegins
  <2>4. CASE WarmUp
    BY <1>1, <2>1, <2>4, SessionAssumption DEF WarmUp
  <2>5. CASE TimedRun
    BY <1>1, <2>1, <2>5, SessionAssumption DEF TimedRun
  <2>6. CASE SubtestEnds
    <3>1. b \in Index /\ measured' \in [Index -> Nat]
      BY <2>1, <2>6, <2>a
    <3>2. s' \in Nat /\ late' \in Nat
      BY <2>1, <2>6, <2>a
    <3>3. zero' \subseteq Index
      BY <2>1, <2>6, <2>a, <3>1
    <3>4. pc' = "subtest" /\ b' = b /\ UNCHANGED <<w, r, kept, notes, err, samples, sampling, abort>>
      BY <2>6, <2>a
    <3>5. QED
      BY <1>1, <2>1, <3>1, <3>2, <3>3, <3>4
  <2>7. CASE BenchEnds
    BY <1>1, <2>1, <2>7 DEF BenchEnds
  <2>8. CASE NothingMeasured
    BY <1>1, <2>1, <2>8 DEF NothingMeasured
  <2>9. CASE BenchmarksDone
    <3>1. pc' = "score" /\ sampling' = FALSE
      BY <2>9 DEF BenchmarksDone
    <3>2. UNCHANGED <<b, s, w, r, measured, kept, notes, zero, err, samples, abort, late>>
      BY <2>9 DEF BenchmarksDone
    <3>3. QED
      BY <1>1, <2>1, <3>1, <3>2
  <2>10. CASE ScoreRefuses
    BY <1>1, <2>1, <2>10 DEF ScoreRefuses
  <2>11. CASE Score
    BY <1>1, <2>1, <2>11 DEF Score
  <2>12. CASE SoakBegins
    BY <1>1, <2>1, <2>12 DEF SoakBegins
  <2>13. CASE NoSoak
    BY <1>1, <2>1, <2>13 DEF NoSoak
  <2>14. CASE SoakTurn
    <3>1. samples' \in 0 .. MaxSamples
      BY <2>1, <2>14, <2>b, SessionAssumption
    <3>2. QED
      BY <1>1, <2>1, <2>14, <2>b, <3>1
  <2>15. CASE SendDone
    BY <1>1, <2>1, <2>15 DEF SendDone
  <2>16. QED
    BY <1>3, <2>2, <2>3, <2>4, <2>5, <2>6, <2>7, <2>8, <2>9, <2>10, <2>11, <2>12, <2>13,
       <2>14, <2>15
<1>4. QED
  BY <1>2, <1>3 DEF Worker

(* A message changes the phase and the result only as its kind says, and   *)
(* never the shape of App.                                                 *)
LEMMA ApplyKinds ==
  ASSUME NEW a, NEW m \in Message,
         DOMAIN a = {"rows", "done", "soak", "phase", "result", "cancelling"}
  PROVE  /\ DOMAIN Apply(a, m) = DOMAIN a
         /\ Apply(a, m).cancelling = a.cancelling
         /\ m.t = "done" => Apply(a, m).phase = "done" /\ Apply(a, m).result = m.result
         /\ m.t = "failed" => Apply(a, m).phase = "failed" /\ Apply(a, m).result = a.result
         /\ ~IsTerminal(m) => Apply(a, m).phase = a.phase /\ Apply(a, m).result = a.result
<1>1. CASE m.t \in {"done", "failed"}
  BY <1>1 DEF Apply, IsTerminal
<1>2. CASE m.t \in {"benchStart", "benchDone", "soakStart", "soakSample"}
  BY <1>2 DEF Apply, IsTerminal
<1>3. CASE m.t \in {"subStart", "warmup", "run", "subDone"}
  <2>1. Apply(a, m) = IF HasRow(a, m.bench, m.sub)
                      THEN [a EXCEPT !.rows[m.bench][m.sub] = RowAfter(@, m)]
                      ELSE a
    BY <1>3 DEF Apply
  <2>2. QED
    BY <1>3, <2>1 DEF IsTerminal
<1>4. m.t \in {"done", "failed", "benchStart", "benchDone", "soakStart", "soakSample",
               "subStart", "warmup", "run", "subDone"}
  BY DEF Message, EventType
<1>5. QED
  BY <1>1, <1>2, <1>3, <1>4

LEMMA ScreenTypes == TypeOK /\ Screen => TypeOK'
<1> SUFFICES ASSUME TypeOK, Screen PROVE TypeOK'
  OBVIOUS
<1>1. /\ selected \in Seq(Bench) /\ Index' = Index
      /\ UNCHANGED <<selected, soaking, pc, b, s, w, r, measured, kept, notes, zero, err,
                     samples, sampling, cursor, late>>
  BY SessionAssumption
     DEF TypeOK, Index, Screen, fixed, workVars, position, outcomes, soakVars
<1> DEFINE AppOK(a) == /\ DOMAIN a = {"rows", "done", "soak", "phase", "result", "cancelling"}
                       /\ a.phase \in {"running", "done", "failed"}
                       /\ a.result \in ResultType
                       /\ a.cancelling \in BOOLEAN
           AnswerType == [kind : {"pending", "some", "none", "error"}, result : ResultType]
<1>2. AppOK(app) /\ answer \in AnswerType /\ chan \in Seq(Message)
  BY DEF TypeOK
<1>3. NoResult \in ResultType
  BY DEF NoResult, ResultType, NoteType
<1>4. ASSUME Resolve PROVE AppOK(app') /\ answer' \in AnswerType /\ ui' = "join"
  <2>1. ui' = "join" /\ AppOK(app')
    BY <1>2, <1>4 DEF Resolve
  <2>2. answer' \in AnswerType
    BY <1>2, <1>3, <1>4 DEF Resolve, Answer
  <2>3. QED
    BY <2>1, <2>2
<1>5. ASSUME Cancel
      PROVE  AppOK(app') /\ answer' = answer /\ abort' = TRUE /\ ui' = "draw"
  BY <1>2, <1>5 DEF Cancel
<1>6. /\ AppOK(app') /\ answer' \in AnswerType
      /\ ui' \in {"draw", "drain", "poll", "join", "back"}
      /\ abort' \in BOOLEAN
      /\ chan' \in Seq(Message)
  <2> USE DEF TypeOK
  <2>1. CASE Receive
    <3>1. Head(chan) \in Message /\ Tail(chan) \in Seq(Message)
      BY <1>2, <2>1 DEF Receive
    <3>2. AppOK(Apply(app, Head(chan)))
      <4>1. Head(chan).t = "done" => Head(chan).result \in ResultType
        BY <3>1 DEF Message, EventType
      <4>2. QED
        BY <1>2, <3>1, <4>1, ApplyKinds DEF IsTerminal
    <3>3. QED
      BY <1>2, <2>1, <3>1, <3>2 DEF Receive
  <2>2. CASE Draw \/ NoKey \/ Join
    BY <1>2, <2>2 DEF Draw, NoKey, Join
  <2>3. CASE Drained
    BY <1>2, <1>4, <2>3 DEF Drained
  <2>4. CASE Quit
    BY <1>2, <1>4, <1>5, <2>4 DEF Quit
  <2>5. CASE CtrlC
    BY <1>2, <1>5, <2>5 DEF CtrlC
  <2>6. CASE Enter
    BY <1>2, <1>4, <2>6 DEF Enter
  <2>7. CASE TerminalFails
    BY <1>2, <1>3, <2>7 DEF TerminalFails, Answer
  <2>8. QED
    BY <2>1, <2>2, <2>3, <2>4, <2>5, <2>6, <2>7 DEF Screen
<1>7. QED
  <2> HIDE DEF AppOK, AnswerType
  <2>1. /\ DOMAIN app' = {"rows", "done", "soak", "phase", "result", "cancelling"}
        /\ app'.phase \in {"running", "done", "failed"}
        /\ app'.result \in ResultType
        /\ app'.cancelling \in BOOLEAN
        /\ answer' \in [kind : {"pending", "some", "none", "error"}, result : ResultType]
    BY <1>6 DEF AppOK, AnswerType
  <2>2. QED
    BY <1>1, <1>6, <2>1 DEF TypeOK

LEMMA InitTypes == Init => TypeOK
<1> SUFFICES ASSUME Init PROVE TypeOK
  OBVIOUS
<1>1. selected \in Seq(Bench) /\ Index = 1 .. Len(selected)
  BY SessionAssumption DEF Init, Index
<1>2. NoResult \in ResultType
  BY DEF NoResult, ResultType, NoteType
<1>3. <<>> \in Seq(Message)
  OBVIOUS
<1>4. /\ selected \in Selections /\ soaking \in BOOLEAN
      /\ pc = "bench" /\ b = 1 /\ s = 1 /\ w = 0 /\ r = 0
      /\ kept = {} /\ notes = {} /\ zero = {} /\ err = "none"
      /\ samples = 0 /\ sampling \in BOOLEAN /\ chan = <<>> /\ abort = FALSE
      /\ ui = "draw" /\ late = 0
  BY SessionAssumption DEF Init
<1>5. measured \in [Index -> Nat] /\ cursor \in [bench : Nat, sub : Nat]
  BY DEF Init
<1>6. /\ DOMAIN app = {"rows", "done", "soak", "phase", "result", "cancelling"}
      /\ app.phase = "running" /\ app.result = NoResult /\ app.cancelling = FALSE
  BY DEF Init
<1>7. answer \in [kind : {"pending", "some", "none", "error"}, result : ResultType]
  BY <1>2 DEF Init, Pending, Answer
<1>8. 0 \in 0 .. Warmups /\ 0 \in 0 .. Timed /\ 0 \in 0 .. MaxSamples
  BY SessionAssumption
<1>9. chan \in Seq(Message) /\ answer \in [kind : {"pending", "some", "none", "error"}, result : ResultType]
  BY <1>3, <1>4, <1>7
<1>10. /\ kept \subseteq Index /\ zero \subseteq Index /\ notes \subseteq NoteType
  BY <1>4
<1>11. /\ b \in Nat \ {0} /\ s \in Nat /\ w \in 0 .. Warmups /\ r \in 0 .. Timed
       /\ samples \in 0 .. MaxSamples /\ late \in Nat
  BY <1>4, <1>8
<1>12. app.phase \in {"running", "done", "failed"} /\ app.result \in ResultType /\ app.cancelling \in BOOLEAN
  BY <1>2, <1>6
<1>13. /\ pc = "bench" /\ err = "none" /\ ui = "draw" /\ abort = FALSE
       /\ selected \in Selections /\ soaking \in BOOLEAN /\ sampling \in BOOLEAN
  BY <1>4
<1>14. QED
  <2> HIDE DEF Message, ResultType, NoteType, Index
  <2>1. DOMAIN app = {"rows", "done", "soak", "phase", "result", "cancelling"}
    BY <1>6
  <2>2. QED
    BY <1>5, <1>9, <1>10, <1>11, <1>12, <1>13, <2>1 DEF TypeOK

(* The variables of both threads stay in the shapes the code gives them:   *)
(* the counters within their bounds, the messages of the kinds Msg and Ev. *)
THEOREM SessionTypeOK == Spec => []TypeOK
<1>1. Init => TypeOK
  BY InitTypes
<1>2. TypeOK /\ [Next]_vars => TypeOK'
  <2> SUFFICES ASSUME TypeOK, [Next]_vars PROVE TypeOK'
    OBVIOUS
  <2>1. CASE UNCHANGED vars
    BY <2>1 DEF vars, fixed, workVars, position, outcomes, soakVars, uiVars, TypeOK, Index
  <2>2. QED
    BY <2>1, WorkerTypes, ScreenTypes DEF Next
<1>3. QED
  BY <1>1, <1>2, PTL DEF Spec

-----------------------------------------------------------------------------
(* What a step of either thread does to the channel and to the outcome.    *)

(* The message m is the last word of a worker that has err = e.            *)
Report(m, e) ==
  \/ m.t = "failed" /\ e # "none"
  \/ m.t = "done" /\ e = "none"

(* A step of the worker sends nothing, an event, or its last word.         *)
WorkerQuiet   == chan' = chan /\ pc' # "gone" /\ err' = err
WorkerTells   == \E m \in Message : /\ ~IsTerminal(m) /\ chan' = Append(chan, m)
                                    /\ pc' # "gone" /\ err' = err
WorkerReports == \E m \in Message : /\ Report(m, err') /\ chan' = Append(chan, m)
                                    /\ pc' = "gone"
                                    /\ m.t = "done" => /\ m.result.kept = kept
                                                       /\ pc = "send" /\ err' = err

LEMMA WorkerStep ==
  ASSUME TypeOK, Worker, err = "none"
  PROVE  /\ pc # "gone" /\ UNCHANGED <<selected, abort, ui, app, answer>>
         /\ WorkerQuiet \/ WorkerTells \/ WorkerReports
<1>1. /\ pc # "gone" /\ UNCHANGED <<selected, abort, ui, app, answer>>
  BY DEF Worker, fixed, uiVars, BenchBegins, AbortNoticed, SubtestBegins, WarmUp, TimedRun,
         MeasurementFails, SubtestEnds, BenchEnds, NothingMeasured, BenchmarksDone, ScoreRefuses,
         Score, SoakBegins, NoSoak, SoakTurn, SendDone, BenchErrs
<1>2. SUFFICES WorkerQuiet \/ WorkerTells \/ WorkerReports
  BY <1>1
<1>3. \A t \in {"benchStart", "subStart", "warmup", "run", "subDone", "benchDone",
                "soakStart", "soakSample"} :
        \A i \in Nat, j \in Nat, k \in Nat :
           Ev(t, i, j, k) \in Message /\ ~IsTerminal(Ev(t, i, j, k))
  BY DEF Ev, Message, EventType, IsTerminal
<1>4. cursor.bench \in Nat /\ cursor.sub \in Nat /\ r + 1 \in Nat
  BY SessionAssumption DEF TypeOK
<1>5. ASSUME NEW m \in Message, ~IsTerminal(m), chan' = Append(chan, m), pc' # "gone", err' = err
      PROVE  WorkerTells
  BY <1>5 DEF WorkerTells
<1>6. ASSUME NEW why \in {"aborted", "measurement", "empty", "score"},
             chan' = Append(chan, Failed(why)), err' = why, pc' = "gone"
      PROVE  WorkerReports
  <2>1. Failed(why) \in Message /\ Failed(why).t = "failed" /\ why # "none"
    BY DEF Failed, Message
  <2>2. Report(Failed(why), err')
    BY <1>6, <2>1 DEF Report
  <2>3. QED
    BY <1>6, <2>1, <2>2 DEF WorkerReports
<1>7. CASE AbortNoticed \/ MeasurementFails
  <2>1. PICK why \in {"aborted", "measurement"} : BenchErrs(why)
    BY <1>7 DEF AbortNoticed, MeasurementFails
  <2>2. CASE selected[b] \in Ungraded
    BY <2>1, <2>2 DEF BenchErrs, WorkerQuiet
  <2>3. CASE selected[b] \notin Ungraded
    BY <1>6, <2>1, <2>3 DEF BenchErrs
  <2>4. QED
    BY <2>2, <2>3
<1>8. CASE BenchBegins
  BY <1>3, <1>8, <1>5 DEF BenchBegins, EmitBenchStart
<1>9. CASE SubtestBegins \/ WarmUp \/ TimedRun \/ SubtestEnds \/ BenchEnds
  <2>1. PICK t \in {"subStart", "warmup", "run", "subDone", "benchDone"}, k \in Nat :
           EmitHere(t, k)
    BY <1>4, <1>9 DEF SubtestBegins, WarmUp, TimedRun, SubtestEnds, BenchEnds
  <2>2. pc' # "gone" /\ err' = err
    BY <1>9 DEF SubtestBegins, WarmUp, TimedRun, SubtestEnds, BenchEnds, TypeOK
  <2>3. QED
    BY <1>3, <1>4, <1>5, <2>1, <2>2 DEF EmitHere
<1>10. CASE NothingMeasured \/ ScoreRefuses
  BY <1>10, <1>6 DEF NothingMeasured, ScoreRefuses
<1>11. CASE BenchmarksDone \/ Score \/ NoSoak
  BY <1>11 DEF BenchmarksDone, Score, NoSoak, WorkerQuiet
<1>12. CASE SoakBegins
  BY <1>3, <1>12, <1>5 DEF SoakBegins
<1>13. CASE SoakTurn
  <2>1. pc' # "gone" /\ err' = err
    BY <1>13 DEF SoakTurn
  <2>2. chan' = chan \/ chan' = Append(chan, Ev("soakSample", 0, 0, 0))
    BY <1>13 DEF SoakTurn
  <2>3. QED
    BY <1>3, <1>5, <2>1, <2>2 DEF WorkerQuiet
<1>14. CASE SendDone
  <2>1. Done(Result(samples >= 3)) \in Message
    <3>1. kept \subseteq Nat
      BY SessionAssumption DEF TypeOK, Index
    <3>2. Result(samples >= 3) \in ResultType
      BY <3>1 DEF Result, ResultType, TypeOK
    <3>3. QED
      BY <3>2 DEF Done, Message
  <2>2. Done(Result(samples >= 3)).t = "done" /\ Done(Result(samples >= 3)).result.kept = kept
    BY DEF Done, Result
  <2>3. /\ chan' = Append(chan, Done(Result(samples >= 3)))
        /\ pc = "send" /\ pc' = "gone" /\ err' = err
    BY <1>14 DEF SendDone
  <2>4. Report(Done(Result(samples >= 3)), err')
    BY <2>2, <2>3 DEF Report
  <2>5. QED
    BY <2>1, <2>2, <2>3, <2>4 DEF WorkerReports
<1>15. QED
  BY <1>1, <1>7, <1>8, <1>9, <1>10, <1>11, <1>12, <1>13, <1>14 DEF Worker

(* A step of the screen receives a message, settles the answer once App is *)
(* finished, gives up on a broken terminal, returns after the join, or     *)
(* leaves messages, phase and answer alone.                                *)
Watching       == ui \in {"draw", "drain", "poll"}
ScreenReceives == /\ chan # <<>> /\ chan' = Tail(chan) /\ app' = Apply(app, Head(chan))
                  /\ Watching /\ Watching' /\ UNCHANGED <<answer, abort>>
ScreenSettles  == /\ Watching /\ Finished(app) /\ Resolve /\ UNCHANGED <<chan, abort>>
ScreenGivesUp  == /\ Watching /\ ui' = "join" /\ answer' = Answer("error", NoResult)
                  /\ UNCHANGED <<chan, app, abort>>
ScreenReturns  == /\ ~Watching /\ ~Watching' /\ UNCHANGED <<chan, app, answer, abort>>
ScreenWatches  == /\ Watching /\ Watching' /\ UNCHANGED <<chan, answer>>
                  /\ app'.phase = app.phase /\ app'.result = app.result
                  /\ abort' \in {abort, TRUE}

LEMMA ScreenStep ==
  ASSUME TypeOK, Screen
  PROVE  /\ UNCHANGED <<selected, pc, b, kept, notes, err, late>>
         /\ \/ ScreenReceives \/ ScreenSettles \/ ScreenGivesUp \/ ScreenReturns
            \/ ScreenWatches
<1>1. UNCHANGED <<selected, pc, b, kept, notes, err, late>>
  BY DEF Screen, fixed, workVars, position, outcomes
<1>2. SUFFICES \/ ScreenReceives \/ ScreenSettles \/ ScreenGivesUp \/ ScreenReturns
               \/ ScreenWatches
  BY <1>1
<1>3. ASSUME Cancel PROVE app'.phase = app.phase /\ app'.result = app.result
  BY <1>3 DEF Cancel, TypeOK
<1>4. CASE Draw \/ NoKey
  BY <1>4 DEF Draw, NoKey, ScreenWatches, Watching
<1>5. CASE Receive
  BY <1>5 DEF Receive, ScreenReceives, Watching
<1>6. CASE Drained
  BY <1>6 DEF Drained, ScreenSettles, ScreenWatches, Watching
<1>7. CASE Quit \/ CtrlC \/ Enter
  <2>1. Watching
    BY <1>7 DEF Quit, CtrlC, Enter, Watching
  <2>2. CASE Cancel /\ chan' = chan
    BY <1>3, <2>1, <2>2 DEF Cancel, ScreenWatches, Watching
  <2>3. CASE Finished(app) /\ Resolve /\ UNCHANGED <<chan, abort>>
    BY <2>1, <2>3 DEF ScreenSettles
  <2>4. QED
    BY <1>7, <2>2, <2>3 DEF Quit, CtrlC, Enter
<1>8. CASE TerminalFails
  BY <1>8 DEF TerminalFails, ScreenGivesUp, Watching
<1>9. CASE Join
  BY <1>9 DEF Join, ScreenReturns, Watching
<1>10. QED
  BY <1>4, <1>5, <1>6, <1>7, <1>8, <1>9 DEF Screen

-----------------------------------------------------------------------------
(* One outcome.  The invariant behind TerminalIsLast and the contract: the *)
(* messages in flight, the phase and the answer all tell the same story    *)
(* about err, and the worker is gone by the time any of them tells it.     *)

OneOutcome ==
  /\ err # "none" => pc = "gone"
  /\ \A k \in DOMAIN chan : IsTerminal(chan[k]) =>
        k = Len(chan) /\ pc = "gone" /\ Report(chan[k], err)
  /\ Finished(app) => /\ chan = <<>> /\ pc = "gone"
                      /\ app.phase = "done" <=> err = "none"
  /\ Watching <=> answer.kind = "pending"
  /\ answer.kind = "some" => err = "none" /\ pc = "gone"
  /\ answer.kind = "none" => err # "none" /\ pc = "gone"

LEMMA OneOutcomeWorker == TypeOK /\ OneOutcome /\ Worker => OneOutcome'
<1> SUFFICES ASSUME TypeOK, OneOutcome, Worker PROVE OneOutcome'
  OBVIOUS
<1>1. pc # "gone" /\ err = "none"
  BY DEF OneOutcome, Worker, BenchBegins, AbortNoticed, SubtestBegins, WarmUp, TimedRun,
         MeasurementFails, SubtestEnds, BenchEnds, NothingMeasured, BenchmarksDone, ScoreRefuses,
         Score, SoakBegins, NoSoak, SoakTurn, SendDone
<1>2. UNCHANGED <<ui, app, answer>> /\ (WorkerQuiet \/ WorkerTells \/ WorkerReports)
  BY <1>1, WorkerStep
<1>3. \A k \in DOMAIN chan : ~IsTerminal(chan[k])
  BY <1>1 DEF OneOutcome
<1>4. ~Finished(app) /\ answer.kind \notin {"some", "none"} /\ chan \in Seq(Message)
  BY <1>1 DEF OneOutcome, TypeOK
<1>5. ~Finished(app') /\ answer'.kind \notin {"some", "none"} /\ (Watching' <=> answer'.kind = "pending")
  BY <1>2, <1>4 DEF OneOutcome, Watching, Finished
<1>6. err' # "none" => pc' = "gone"
  BY <1>1, <1>2 DEF WorkerQuiet, WorkerTells, WorkerReports
<1>7. \A k \in DOMAIN chan' : IsTerminal(chan'[k]) =>
         k = Len(chan') /\ pc' = "gone" /\ Report(chan'[k], err')
  <2>1. CASE WorkerQuiet
    BY <1>3, <2>1 DEF WorkerQuiet
  <2>2. CASE WorkerTells
    <3>1. PICK m \in Message : ~IsTerminal(m) /\ chan' = Append(chan, m)
      BY <2>2 DEF WorkerTells
    <3>2. QED
      BY <1>3, <1>4, <3>1
  <2>3. CASE WorkerReports
    <3>1. PICK m \in Message : Report(m, err') /\ chan' = Append(chan, m) /\ pc' = "gone"
      BY <2>3 DEF WorkerReports
    <3>2. QED
      BY <1>3, <1>4, <3>1
  <2>4. QED
    BY <1>2, <2>1, <2>2, <2>3
<1>8. QED
  BY <1>5, <1>6, <1>7 DEF OneOutcome

LEMMA OneOutcomeScreen == TypeOK /\ OneOutcome /\ Screen => OneOutcome'
<1> SUFFICES ASSUME TypeOK, OneOutcome, Screen PROVE OneOutcome'
  OBVIOUS
<1>1. /\ UNCHANGED <<pc, err>>
      /\ ScreenReceives \/ ScreenSettles \/ ScreenGivesUp \/ ScreenReturns \/ ScreenWatches
  BY ScreenStep
<1>2. CASE ScreenReceives
  <2>1. /\ Head(chan) = chan[1] /\ 1 \in DOMAIN chan /\ Head(chan) \in Message
        /\ \A k \in DOMAIN Tail(chan) : k + 1 \in DOMAIN chan /\ Tail(chan)[k] = chan[k + 1]
        /\ Len(Tail(chan)) = Len(chan) - 1 /\ Len(chan) \in Nat /\ Tail(chan) \in Seq(Message)
    BY <1>2 DEF ScreenReceives, TypeOK
  <2>2. \A k \in DOMAIN chan' : IsTerminal(chan'[k]) =>
           k = Len(chan') /\ pc' = "gone" /\ Report(chan'[k], err')
    BY <1>1, <1>2, <2>1 DEF ScreenReceives, OneOutcome
  <2>3. ~Finished(app)
    BY <1>2 DEF ScreenReceives, OneOutcome
  <2>4. CASE IsTerminal(Head(chan))
    <3>1. Len(chan) = 1 /\ pc = "gone" /\ Report(Head(chan), err)
      BY <2>1, <2>4 DEF OneOutcome
    <3>2. chan' = <<>>
      BY <1>2, <2>1, <3>1 DEF ScreenReceives, TypeOK
    <3>3. app'.phase = Head(chan).t
      BY <1>2, <2>1, <2>4, ApplyKinds DEF ScreenReceives, IsTerminal, TypeOK
    <3>4. QED
      BY <1>1, <1>2, <2>2, <3>1, <3>2, <3>3 DEF OneOutcome, ScreenReceives, Report, Finished
  <2>5. CASE ~IsTerminal(Head(chan))
    <3>1. app'.phase = app.phase
      BY <1>2, <2>1, <2>5, ApplyKinds DEF ScreenReceives, TypeOK
    <3>2. QED
      BY <1>1, <1>2, <2>2, <2>3, <3>1 DEF OneOutcome, ScreenReceives, Finished
  <2>6. QED
    BY <2>4, <2>5
<1>3. CASE ScreenSettles
  <2>1. chan' = chan /\ pc = "gone" /\ (app.phase = "done" <=> err = "none")
    BY <1>3 DEF ScreenSettles, OneOutcome
  <2>2. ~Finished(app') /\ ~Watching'
    BY <1>3 DEF ScreenSettles, Resolve, Finished, Watching, TypeOK
  <2>3. /\ answer'.kind \in {"some", "none", "error"}
        /\ answer'.kind = "some" => app.phase = "done"
        /\ answer'.kind = "none" => app.phase = "failed"
    BY <1>3 DEF ScreenSettles, Resolve, Finished, Answer
  <2>4. QED
    BY <1>1, <2>1, <2>2, <2>3 DEF OneOutcome
<1>4. CASE ScreenGivesUp
  <2>1. answer'.kind = "error" /\ ~Watching'
    BY <1>4 DEF ScreenGivesUp, Answer, Watching
  <2>2. QED
    BY <1>1, <1>4, <2>1 DEF OneOutcome, ScreenGivesUp
<1>5. CASE ScreenReturns
  BY <1>1, <1>5 DEF ScreenReturns, OneOutcome
<1>6. CASE ScreenWatches
  BY <1>1, <1>6 DEF ScreenWatches, OneOutcome, Finished
<1>7. QED
  BY <1>1, <1>2, <1>3, <1>4, <1>5, <1>6

LEMMA OneOutcomeInductive == TypeOK /\ OneOutcome /\ [Next]_vars => OneOutcome'
<1> SUFFICES ASSUME TypeOK, OneOutcome, [Next]_vars PROVE OneOutcome'
  OBVIOUS
<1>1. CASE UNCHANGED vars
  BY <1>1 DEF vars, workVars, uiVars, OneOutcome, Watching, Finished
<1>2. QED
  BY <1>1, OneOutcomeWorker, OneOutcomeScreen DEF Next

LEMMA OneOutcomeInvariant == Spec => []OneOutcome
<1>1. Init => OneOutcome
  BY DEF Init, OneOutcome, Watching, Finished, Pending, Answer
<1>2. QED
  BY <1>1, SessionTypeOK, OneOutcomeInductive, PTL DEF Spec

(* No message follows the worker's last word, and App has nothing more to  *)
(* receive once it is finished (spawn_worker, App::is_finished).           *)
THEOREM SessionTerminalIsLast == Spec => []TerminalIsLast
<1>1. OneOutcome => TerminalIsLast
  BY DEF OneOutcome, TerminalIsLast
<1>2. QED
  BY <1>1, OneOutcomeInvariant, PTL

(* "Cancelled" is never the answer to a run that reached its grade.        *)
THEOREM SessionScoredNeverDiscarded == Spec => []ScoredNeverDiscarded
<1>1. OneOutcome => ScoredNeverDiscarded
  BY DEF OneOutcome, ScoredNeverDiscarded
<1>2. QED
  BY <1>1, OneOutcomeInvariant, PTL

-----------------------------------------------------------------------------
(* The two threads implement the contract of tui::run.                     *)

LEMMA ContractInit == Init => Contract!Init
BY DEF Init, Contract!Init, Pending, Answer

LEMMA ContractWorker ==
  ASSUME TypeOK, OneOutcome, Worker
  PROVE  Contract!Break \/ UNCHANGED Contract!avars
<1>1. pc # "gone" /\ err = "none"
  BY DEF OneOutcome, Worker, BenchBegins, AbortNoticed, SubtestBegins, WarmUp, TimedRun,
         MeasurementFails, SubtestEnds, BenchEnds, NothingMeasured, BenchmarksDone, ScoreRefuses,
         Score, SoakBegins, NoSoak, SoakTurn, SendDone
<1>2. UNCHANGED <<abort, answer>>
  BY <1>1, WorkerStep
<1>3. answer.kind \in {"pending", "error"}
  BY <1>1 DEF OneOutcome, TypeOK
<1>4. err' \in {"none", "aborted", "measurement", "empty", "score"}
  BY WorkerTypes DEF TypeOK
<1>5. QED
  BY <1>1, <1>2, <1>3, <1>4 DEF Contract!Break, Contract!avars

LEMMA ContractScreen ==
  ASSUME TypeOK, OneOutcome, Screen
  PROVE  Contract!Next \/ UNCHANGED Contract!avars
<1>1. /\ UNCHANGED <<pc, err>>
      /\ ScreenReceives \/ ScreenSettles \/ ScreenGivesUp \/ ScreenReturns \/ ScreenWatches
  BY ScreenStep
<1>2. CASE ScreenReceives \/ ScreenReturns
  BY <1>1, <1>2 DEF ScreenReceives, ScreenReturns, Contract!avars
<1>3. CASE ScreenWatches
  BY <1>1, <1>3 DEF ScreenWatches, OneOutcome, Contract!avars, Contract!Next, Contract!Ask
<1>4. CASE ScreenGivesUp
  <2>1. answer.kind = "pending" /\ answer'.kind = "error" /\ abort' = abort
    BY <1>4 DEF ScreenGivesUp, OneOutcome, Answer
  <2>2. QED
    BY <2>1 DEF Contract!Next, Contract!GiveError
<1>5. CASE ScreenSettles
  <2>1. answer.kind = "pending" /\ abort' = abort /\ (app.phase = "done" <=> err = "none")
    BY <1>5 DEF ScreenSettles, OneOutcome
  <2>2. CASE app.phase = "done"
    <3>1. answer'.kind = "some" /\ err' = "none"
      BY <1>1, <1>5, <2>1, <2>2 DEF ScreenSettles, Resolve, Answer
    <3>2. QED
      BY <1>1, <2>1, <3>1 DEF Contract!Next, Contract!GiveResult
  <2>3. CASE app.phase = "failed" /\ abort
    <3>1. answer'.kind = "none"
      BY <1>5, <2>3 DEF ScreenSettles, Resolve, Answer
    <3>2. QED
      BY <1>1, <2>1, <2>3, <3>1 DEF Contract!Next, Contract!GiveNothing
  <2>4. CASE app.phase = "failed" /\ ~abort
    <3>1. answer'.kind = "error"
      BY <1>5, <2>4 DEF ScreenSettles, Resolve, Answer
    <3>2. QED
      BY <2>1, <3>1 DEF Contract!Next, Contract!GiveError
  <2>5. QED
    BY <1>5, <2>2, <2>3, <2>4 DEF ScreenSettles, Finished
<1>6. QED
  BY <1>1, <1>2, <1>3, <1>4, <1>5

(* Worker, channel and screen together give their caller one answer, and   *)
(* the one Assessment allows: a result only of a run that did not break,   *)
(* "cancelled" only to a user who asked, an error only of a broken run.    *)
THEOREM SessionImplementsContract == Spec => ImplementsContract
<1>1. TypeOK /\ OneOutcome /\ [Next]_vars => [Contract!Next]_(Contract!avars)
  <2> SUFFICES ASSUME TypeOK, OneOutcome, [Next]_vars
               PROVE  Contract!Next \/ UNCHANGED Contract!avars
    OBVIOUS
  <2>1. CASE UNCHANGED vars
    BY <2>1 DEF vars, workVars, uiVars, Contract!avars
  <2>2. CASE Worker
    BY <2>2, ContractWorker DEF Contract!Next
  <2>3. CASE Screen
    BY <2>3, ContractScreen
  <2>4. QED
    BY <2>1, <2>2, <2>3 DEF Next
<1>2. QED
  BY <1>1, ContractInit, SessionTypeOK, OneOutcomeInvariant, PTL
     DEF Spec, ImplementsContract, Contract!Spec

-----------------------------------------------------------------------------
(* Complete results.  A benchmark the worker has passed is kept or noted,  *)
(* only an ungraded one is ever noted, and scoring starts after the last;  *)
(* so the kept set is complete when it is sent, and stays so in every      *)
(* place the result travels through.                                       *)

TurnsTaken ==
  /\ \A i \in Index : i < b => i \in kept \/ selected[i] \in Ungraded
  /\ pc \in {"score", "scored", "soak", "send"} => b > Len(selected)

ResultsComplete ==
  /\ \A k \in DOMAIN chan : chan[k].t = "done" => Graded \subseteq chan[k].result.kept
  /\ app.phase = "done" => Graded \subseteq app.result.kept
  /\ GradedComplete

Complete == TurnsTaken /\ ResultsComplete

LEMMA TurnsTakenWorker == TypeOK /\ TurnsTaken /\ Worker => TurnsTaken'
<1> SUFFICES ASSUME TypeOK, TurnsTaken, Worker PROVE TurnsTaken'
  OBVIOUS
<1>1. /\ selected \in Seq(Bench) /\ selected' = selected
      /\ Index = 1 .. Len(selected) /\ Index' = Index /\ b \in Nat
  BY SessionAssumption DEF TypeOK, Index, Worker, fixed
<1>2. CASE AbortNoticed \/ MeasurementFails
  <2>1. \/ selected[b] \in Ungraded /\ b' = b + 1 /\ pc' = "bench" /\ kept' = kept
        \/ b' = b /\ pc' = "gone" /\ kept' = kept
    BY <1>2 DEF AbortNoticed, MeasurementFails, BenchErrs
  <2>2. QED
    BY <1>1, <2>1 DEF TurnsTaken
<1>3. CASE BenchEnds
  BY <1>1, <1>3 DEF BenchEnds, TurnsTaken
<1>4. CASE \/ BenchBegins \/ SubtestBegins \/ WarmUp \/ TimedRun \/ SubtestEnds
           \/ NothingMeasured \/ BenchmarksDone \/ ScoreRefuses \/ Score
           \/ SoakBegins \/ NoSoak \/ SoakTurn \/ SendDone
  <2>1. b' = b /\ kept' = kept
    BY <1>4 DEF BenchBegins, SubtestBegins, WarmUp, TimedRun, SubtestEnds, NothingMeasured,
                BenchmarksDone, ScoreRefuses, Score, SoakBegins, NoSoak, SoakTurn, SendDone,
                position, outcomes
  <2>2. pc' \in {"score", "scored", "soak", "send"} =>
           b > Len(selected)
    BY <1>4 DEF BenchBegins, SubtestBegins, WarmUp, TimedRun, SubtestEnds, NothingMeasured,
                BenchmarksDone, ScoreRefuses, Score, SoakBegins, NoSoak, SoakTurn, SendDone,
                TurnsTaken
  <2>3. QED
    BY <1>1, <2>1, <2>2 DEF TurnsTaken
<1>5. QED
  BY <1>2, <1>3, <1>4 DEF Worker

LEMMA ResultsCompleteWorker ==
  TypeOK /\ OneOutcome /\ Complete /\ Worker => ResultsComplete'
<1> SUFFICES ASSUME TypeOK, OneOutcome, Complete, Worker PROVE ResultsComplete'
  OBVIOUS
<1>1. pc # "gone" /\ err = "none"
  BY DEF OneOutcome, Worker, BenchBegins, AbortNoticed, SubtestBegins, WarmUp, TimedRun,
         MeasurementFails, SubtestEnds, BenchEnds, NothingMeasured, BenchmarksDone, ScoreRefuses,
         Score, SoakBegins, NoSoak, SoakTurn, SendDone
<1>2. /\ UNCHANGED <<selected, app, answer>> /\ Graded' = Graded
      /\ WorkerQuiet \/ WorkerTells \/ WorkerReports
  BY <1>1, WorkerStep DEF Graded, Index
<1>3. chan \in Seq(Message)
  BY DEF TypeOK
<1>4. pc = "send" => Graded \subseteq kept
  <2>1. selected \in Seq(Bench) /\ Index = 1 .. Len(selected) /\ b \in Nat
    BY SessionAssumption DEF TypeOK, Index
  <2>2. QED
    BY <2>1 DEF Complete, TurnsTaken, Graded
<1>5. \A k \in DOMAIN chan' : chan'[k].t = "done" => Graded \subseteq chan'[k].result.kept
  <2>1. CASE WorkerQuiet
    BY <2>1 DEF WorkerQuiet, Complete, ResultsComplete
  <2>2. CASE WorkerTells
    <3>1. PICK m \in Message : ~IsTerminal(m) /\ chan' = Append(chan, m)
      BY <2>2 DEF WorkerTells
    <3>2. QED
      BY <1>3, <3>1 DEF Complete, ResultsComplete, IsTerminal
  <2>3. CASE WorkerReports
    <3>1. PICK m \in Message : /\ chan' = Append(chan, m)
                               /\ m.t = "done" => m.result.kept = kept /\ pc = "send"
      BY <2>3 DEF WorkerReports
    <3>2. QED
      BY <1>3, <1>4, <3>1 DEF Complete, ResultsComplete
  <2>4. QED
    BY <1>2, <2>1, <2>2, <2>3
<1>6. QED
  BY <1>2, <1>5 DEF Complete, ResultsComplete, GradedComplete

LEMMA CompleteScreen == TypeOK /\ Complete /\ Screen => Complete'
<1> SUFFICES ASSUME TypeOK, Complete, Screen PROVE Complete'
  OBVIOUS
<1>1. /\ UNCHANGED <<selected, pc, b, kept>>
      /\ ScreenReceives \/ ScreenSettles \/ ScreenGivesUp \/ ScreenReturns \/ ScreenWatches
  BY ScreenStep
<1>2. TurnsTaken' /\ Graded' = Graded
  BY <1>1 DEF Complete, TurnsTaken, Graded, Index
<1>3. SUFFICES /\ \A k \in DOMAIN chan' : chan'[k].t = "done" => Graded \subseteq chan'[k].result.kept
               /\ app'.phase = "done" => Graded \subseteq app'.result.kept
               /\ answer'.kind = "some" => Graded \subseteq answer'.result.kept
  BY <1>2 DEF Complete, ResultsComplete, GradedComplete
<1>4. CASE ScreenReceives
  <2>1. /\ Head(chan) = chan[1] /\ 1 \in DOMAIN chan /\ Head(chan) \in Message
        /\ \A k \in DOMAIN Tail(chan) : k + 1 \in DOMAIN chan /\ Tail(chan)[k] = chan[k + 1]
    BY <1>4 DEF ScreenReceives, TypeOK
  <2>2. \A k \in DOMAIN chan' : chan'[k].t = "done" => Graded \subseteq chan'[k].result.kept
    BY <1>4, <2>1 DEF ScreenReceives, Complete, ResultsComplete
  <2>3. app'.phase = "done" => Graded \subseteq app'.result.kept
    <3>1. /\ Head(chan).t = "done" => app'.result = Head(chan).result
          /\ Head(chan).t = "failed" => app'.phase = "failed"
          /\ ~IsTerminal(Head(chan)) => app'.phase = app.phase /\ app'.result = app.result
      BY <1>4, <2>1, ApplyKinds DEF ScreenReceives, TypeOK
    <3>2. QED
      BY <2>1, <3>1 DEF Complete, ResultsComplete, IsTerminal
  <2>4. QED
    BY <1>4, <2>2, <2>3 DEF ScreenReceives, Complete, ResultsComplete, GradedComplete
<1>5. CASE ScreenSettles
  <2>1. app'.phase = "running" /\ chan' = chan
    BY <1>5 DEF ScreenSettles, Resolve, TypeOK
  <2>2. answer'.kind = "some" => app.phase = "done" /\ answer'.result = app.result
    BY <1>5 DEF ScreenSettles, Resolve, Finished, Answer
  <2>3. QED
    BY <2>1, <2>2 DEF Complete, ResultsComplete
<1>6. CASE ScreenGivesUp
  BY <1>6 DEF ScreenGivesUp, Answer, Complete, ResultsComplete
<1>7. CASE ScreenReturns \/ ScreenWatches
  BY <1>7 DEF ScreenReturns, ScreenWatches, Complete, ResultsComplete, GradedComplete
<1>8. QED
  BY <1>1, <1>4, <1>5, <1>6, <1>7

(* Whatever failed, was skipped or was cancelled, the caller only ever     *)
(* gets a result with every graded benchmark it selected.                  *)
THEOREM SessionGradedComplete == Spec => []GradedComplete
<1>1. Init => Complete
  BY SessionAssumption
     DEF Init, Complete, TurnsTaken, ResultsComplete, GradedComplete, Index, Pending, Answer
<1>2. TypeOK /\ OneOutcome /\ Complete /\ [Next]_vars => Complete'
  <2> SUFFICES ASSUME TypeOK, OneOutcome, Complete, [Next]_vars PROVE Complete'
    OBVIOUS
  <2>1. CASE UNCHANGED vars
    BY <2>1 DEF vars, fixed, workVars, position, outcomes, uiVars, Complete, TurnsTaken,
                ResultsComplete, GradedComplete, Graded, Index
  <2>2. CASE Worker
    BY <2>2, TurnsTakenWorker, ResultsCompleteWorker DEF Complete
  <2>3. CASE Screen
    BY <2>3, CompleteScreen
  <2>4. QED
    BY <2>1, <2>2, <2>3 DEF Next
<1>3. Complete => GradedComplete
  BY DEF Complete, ResultsComplete
<1>4. QED
  BY <1>1, <1>2, <1>3, SessionTypeOK, OneOutcomeInvariant, PTL DEF Spec

-----------------------------------------------------------------------------
(* A cancel is noticed before the next subtest.                            *)

Noticed ==
  /\ ~abort => late = 0
  /\ late \in {0, 1}
  /\ late = 1 => pc # "measure"

LEMMA NoticedInductive == TypeOK /\ Noticed /\ [Next]_vars => Noticed'
<1> SUFFICES ASSUME TypeOK, Noticed, [Next]_vars PROVE Noticed'
  OBVIOUS
<1>1. CASE UNCHANGED vars
  BY <1>1 DEF vars, workVars, Noticed
<1>2. CASE Worker
  <2>1. CASE SubtestEnds
    BY <2>1 DEF SubtestEnds, Noticed
  <2>2. CASE SubtestBegins
    BY <2>2 DEF SubtestBegins, Noticed
  <2>3. CASE WarmUp \/ TimedRun
    BY <2>3 DEF WarmUp, TimedRun, Noticed
  <2>4. CASE \/ BenchBegins \/ AbortNoticed \/ MeasurementFails \/ BenchEnds
             \/ NothingMeasured \/ BenchmarksDone \/ ScoreRefuses \/ Score
             \/ SoakBegins \/ NoSoak \/ SoakTurn \/ SendDone
    <3>1. pc' # "measure" /\ UNCHANGED <<abort, late>>
      BY <2>4 DEF BenchBegins, AbortNoticed, MeasurementFails, BenchErrs, BenchEnds,
                  NothingMeasured, BenchmarksDone, ScoreRefuses, Score, SoakBegins, NoSoak,
                  SoakTurn, SendDone
    <3>2. QED
      BY <3>1 DEF Noticed
  <2>5. QED
    BY <1>2, <2>1, <2>2, <2>3, <2>4 DEF Worker
<1>3. CASE Screen
  <2>1. UNCHANGED <<pc, late>> /\ abort' \in {abort, TRUE}
    BY <1>3, ScreenStep
       DEF ScreenReceives, ScreenSettles, ScreenGivesUp, ScreenReturns, ScreenWatches
  <2>2. QED
    BY <2>1 DEF Noticed, TypeOK
<1>4. QED
  BY <1>1, <1>2, <1>3 DEF Next

(* After a cancel at most the subtest under way completes, whatever the    *)
(* number of benchmarks and subtests still to come.                        *)
THEOREM SessionCancelStopsMeasuring == Spec => []CancelStopsMeasuring
<1>1. Init => Noticed
  BY DEF Init, Noticed
<1>2. Noticed => CancelStopsMeasuring
  BY DEF Noticed, CancelStopsMeasuring
<1>3. QED
  BY <1>1, <1>2, NoticedInductive, SessionTypeOK, PTL DEF Spec

-----------------------------------------------------------------------------
(* The mirror.  Shown folds the messages of a sequence into App; a trace   *)
(* keeps what App is after each of them.  The invariant relates what will  *)
(* be shown to what the engine has done, so that sending a message and     *)
(* receiving it are one thing.                                             *)

(* A row of the screen, and what App can be: the rows keep the shape that  *)
(* App::new gave them.                                                     *)
Row == [state : {"pending", "warmup", "running", "done"}, runs : Nat, timed : Nat]
AppSet ==
  {a \in [rows : [Index -> Seq(Row)], done : SUBSET Index, soak : Seq(Nat),
          phase : {"running", "done", "failed"}, result : ResultType, cancelling : BOOLEAN] :
     \A i \in Index : DOMAIN a.rows[i] = 1 .. Subtests[selected[i]]}

(* App after the messages of c, and App after each of them.                *)
Shown(a, c) == FoldLeft(Apply, a, c)
Trace(tr, a, c) == /\ tr[0] = a
                   /\ \A k \in 1 .. Len(c) : tr[k] = Apply(tr[k - 1], c[k])

(* What the screen will show is App after the messages in the channel.     *)
LEMMA SeenShown == Seen = Shown(app, chan)
BY Zenon DEF Seen, Shown
(* The same of the next state.                                             *)
LEMMA SeenShownNext == Seen' = Shown(app', chan')
BY Zenon DEF Seen, Shown

(* One App and one sequence of messages have one trace.                    *)
LEMMA TraceUnique ==
  ASSUME NEW a, NEW c \in Seq(Message), NEW tr, Trace(tr, a, c), NEW tt, Trace(tt, a, c)
  PROVE  \A k \in 0 .. Len(c) : tr[k] = tt[k]
<1> DEFINE P == {k \in Nat : k <= Len(c) => tr[k] = tt[k]}
<1>1. Len(c) \in Nat
  OBVIOUS
<1>2. 0 \in P
  BY DEF Trace
<1>3. ASSUME NEW k \in P PROVE k + 1 \in P
  <2>1. CASE k + 1 <= Len(c)
    <3>1. k + 1 \in 1 .. Len(c) /\ (k + 1) - 1 = k /\ tr[k] = tt[k]
      BY <1>1, <2>1
    <3>2. tr[k + 1] = Apply(tr[(k + 1) - 1], c[k + 1]) /\ tt[k + 1] = Apply(tt[(k + 1) - 1], c[k + 1])
      BY <3>1 DEF Trace
    <3> QED BY <3>1, <3>2
  <2> QED BY <2>1
<1>4. P = Nat
  <2> HIDE DEF P
  <2>1. P \in SUBSET Nat
    BY DEF P
  <2> QED BY <1>2, <1>3, <2>1, SetInduction
<1> QED BY <1>1, <1>4

(* Applying a sequence of messages has a trace, and Shown is its end:      *)
(* FoldLeft takes the messages from the first to the last. V is any set of *)
(* Apps that every message stays in.                                       *)
LEMMA ShownTrace ==
  ASSUME NEW V, NEW a \in V, NEW c \in Seq(Message), \A x \in V : \A m \in Message : Apply(x, m) \in V
  PROVE  \E tr : /\ Trace(tr, a, c) /\ Shown(a, c) = tr[Len(c)]
                 /\ \A k \in 0 .. Len(c) : tr[k] \in V
<1> DEFINE n == Len(c)
           D == 1 .. n
           Rec(g) == g = [t \in SUBSET (DOMAIN c) |-> IF t = {} THEN a ELSE Apply(g[t \ {Max(t)}], c[Max(t)])]
           iter == CHOOSE g : Rec(g)
           G == [k \in D |-> [v \in V |-> Apply(v, c[k])]]
           C == [t \in (SUBSET D) \ {{}} |-> Max(t)]
<1>1. Shown(a, c) = iter[DOMAIN c]
  BY Zenon DEF Shown, FoldLeft, MapThenFoldSet
<1>2. n \in Nat /\ DOMAIN c = D /\ IsFiniteSet(D) /\ D \in SUBSET Int /\ \A k \in D : c[k] \in Message
  BY FS_Interval
<1>3. \A t \in (SUBSET D) \ {{}} : Max(t) \in t /\ \A x \in t : x <= Max(t)
  <2> SUFFICES ASSUME NEW t \in (SUBSET D) \ {{}}
               PROVE  Max(t) \in t /\ \A x \in t : x <= Max(t)
    OBVIOUS
  <2>1. t \in SUBSET Int /\ t # {}
    BY <1>2
  <2>2. IsFiniteSet(t)
    <3> HIDE DEF D
    <3> QED BY <1>2, FS_Subset
  <2> QED BY <2>1, <2>2, MaxIs
<1>4. Picks(C, D)
  BY <1>3 DEF Picks
<1>5. G \in [D -> [V -> V]]
  BY <1>2
<1>6. PICK it \in [SUBSET D -> V] : Folds(it, D, a, C, G)
  <2> HIDE DEF D, G, C
  <2> QED BY <1>2, <1>4, <1>5, FoldExists
<1>7. ASSUME NEW t \in (SUBSET D) \ {{}}
      PROVE  it[t] = Apply(it[t \ {Max(t)}], c[Max(t)])
  <2>1. it[t] = G[C[t]][it[t \ {C[t]}]] /\ C[t] = Max(t)
    BY <1>6 DEF Folds
  <2>2. Max(t) \in D /\ it[t \ {Max(t)}] \in V
    BY <1>3
  <2> QED BY <2>1, <2>2
<1>8. Rec(it)
  <2>1. it = [t \in SUBSET D |-> IF t = {} THEN a ELSE Apply(it[t \ {Max(t)}], c[Max(t)])]
    <3> SUFFICES ASSUME NEW t \in SUBSET D
                 PROVE  it[t] = IF t = {} THEN a ELSE Apply(it[t \ {Max(t)}], c[Max(t)])
      <4> HIDE DEF D
      <4> QED BY <1>6
    <3>1. CASE t = {}
      BY <1>6, <3>1 DEF Folds
    <3>2. CASE t # {}
      BY <1>7, <3>2
    <3> QED BY <3>1, <3>2
  <2> HIDE DEF D
  <2> QED BY <1>2, <2>1
<1>9. Rec(iter)
  <2> HIDE DEF Rec
  <2> QED BY <1>8, Zenon
<1>10. \A t \in SUBSET D : iter[t] = IF t = {} THEN a ELSE Apply(iter[t \ {Max(t)}], c[Max(t)])
  <2>1. iter = [t \in SUBSET (DOMAIN c) |-> IF t = {} THEN a ELSE Apply(iter[t \ {Max(t)}], c[Max(t)])]
    BY <1>9, Zenon
  <2> HIDE DEF iter, D
  <2>2. \A t \in SUBSET (DOMAIN c) : iter[t] = IF t = {} THEN a ELSE Apply(iter[t \ {Max(t)}], c[Max(t)])
    BY <2>1, Zenon
  <2> QED BY <1>2, <2>2
<1> DEFINE tr == [k \in 0 .. n |-> iter[1 .. k]]
<1> HIDE DEF iter
<1>11. tr[0] = a
  <2>1. 0 \in 0 .. n /\ 1 .. 0 = {}
    BY <1>2
  <2>2. iter[{}] = a
    BY <1>10
  <2> QED BY <2>1, <2>2
<1>12. ASSUME NEW k \in 1 .. n
       PROVE  tr[k] = Apply(tr[k - 1], c[k])
  <2>1. 1 .. k \in (SUBSET D) \ {{}} /\ k \in 1 .. k /\ k - 1 \in 0 .. n /\ k \in 0 .. n
    <3>1. k \in Nat /\ k >= 1 /\ k <= n
      BY <1>2
    <3>2. \A x \in 1 .. k : x \in D
      BY <1>2, <3>1
    <3>3. k \in 1 .. k
      BY <3>1
    <3>4. 1 .. k \in SUBSET D /\ 1 .. k # {}
      <4> HIDE DEF D
      <4> QED BY <3>2, <3>3
    <3>5. k - 1 \in 0 .. n /\ k \in 0 .. n
      BY <1>2, <3>1
    <3> HIDE DEF D
    <3> QED BY <3>3, <3>4, <3>5
  <2>2. Max(1 .. k) = k
    <3>1. Max(1 .. k) \in 1 .. k /\ k <= Max(1 .. k)
      BY <1>3, <2>1
    <3> QED BY <1>2, <3>1
  <2>3. (1 .. k) \ {k} = 1 .. (k - 1)
    BY <1>2
  <2>4. iter[1 .. k] = Apply(iter[1 .. (k - 1)], c[k])
    <3> DEFINE t == 1 .. k
    <3>1. iter[t] = IF t = {} THEN a ELSE Apply(iter[t \ {Max(t)}], c[Max(t)])
      BY <1>10, <2>1
    <3> HIDE DEF t
    <3>2. t # {} /\ Max(t) = k /\ t \ {k} = 1 .. (k - 1)
      BY <2>1, <2>2, <2>3 DEF t
    <3>3. iter[t] = Apply(iter[1 .. (k - 1)], c[k])
      BY <3>1, <3>2
    <3> QED BY <3>3 DEF t
  <2> QED BY <2>1, <2>4
<1>13. Trace(tr, a, c)
  <2> HIDE DEF tr
  <2> QED BY <1>11, <1>12 DEF Trace
<1>14. Shown(a, c) = tr[n]
  BY <1>1, <1>2
<1>15. \A k \in 0 .. n : tr[k] \in V
  <2> DEFINE P == {k \in Nat : k <= n => tr[k] \in V}
  <2> HIDE DEF tr
  <2>1. 0 \in P
    BY <1>11
  <2>2. ASSUME NEW k \in P PROVE k + 1 \in P
    <3>1. CASE k + 1 <= n
      <4>1. k + 1 \in 1 .. n /\ (k + 1) - 1 = k /\ tr[k] \in V
        BY <1>2, <3>1
      <4>2. tr[k + 1] = Apply(tr[(k + 1) - 1], c[k + 1])
        BY <1>12, <4>1
      <4> QED BY <1>2, <4>1, <4>2
    <3> QED BY <3>1
  <2>3. P = Nat
    <3> HIDE DEF P
    <3>1. P \in SUBSET Nat
      BY DEF P
    <3> QED BY <2>1, <2>2, <3>1, SetInduction
  <2> QED BY <1>2, <2>3
<1> HIDE DEF tr
<1> QED BY <1>13, <1>14, <1>15

(* What a message does to App: an event moves the row it is labelled with  *)
(* and no other, a finished benchmark is ticked off, the soak gauge        *)
(* counts, and the shape stays.                                            *)
LEMMA ApplyIs ==
  ASSUME NEW a \in AppSet, NEW m \in Message
  PROVE  /\ Apply(a, m) \in AppSet
         /\ m.t # "benchDone" => Apply(a, m).done = a.done
         /\ m.t = "benchDone" => Apply(a, m).done = a.done \cup ({m.bench} \cap Index)
         /\ m.t \notin {"soakStart", "soakSample"} => Apply(a, m).soak = a.soak
         /\ m.t = "soakStart" => Apply(a, m).soak = <<0>>
         /\ m.t = "soakSample" /\ a.soak # <<>> => Apply(a, m).soak = <<a.soak[1] + 1>>
         /\ m.t \notin {"subStart", "warmup", "run", "subDone"} => Apply(a, m).rows = a.rows
         /\ m.t \in {"subStart", "warmup", "run", "subDone"} =>
              \A i \in Index : \A j \in 1 .. Subtests[selected[i]] :
                 Apply(a, m).rows[i][j] = IF i = m.bench /\ j = m.sub THEN RowAfter(a.rows[i][j], m)
                                                                      ELSE a.rows[i][j]
<1> DEFINE x == Apply(a, m)
           App(rs, dn, sk, ph, rt) == [rows |-> rs, done |-> dn, soak |-> sk, phase |-> ph,
                                       result |-> rt, cancelling |-> a.cancelling]
<1>1. /\ DOMAIN a = {"rows", "done", "soak", "phase", "result", "cancelling"}
      /\ a.rows \in [Index -> Seq(Row)] /\ a.done \in SUBSET Index /\ a.soak \in Seq(Nat)
      /\ a.phase \in {"running", "done", "failed"} /\ a.result \in ResultType /\ a.cancelling \in BOOLEAN
      /\ \A i \in Index : DOMAIN a.rows[i] = 1 .. Subtests[selected[i]]
      /\ a = App(a.rows, a.done, a.soak, a.phase, a.result)
  BY DEF AppSet
<1>2. ASSUME NEW rs \in [Index -> Seq(Row)], NEW dn \in SUBSET Index, NEW sk \in Seq(Nat),
             NEW ph \in {"running", "done", "failed"}, NEW rt \in ResultType,
             \A i \in Index : DOMAIN rs[i] = 1 .. Subtests[selected[i]]
      PROVE  App(rs, dn, sk, ph, rt) \in AppSet
  BY <1>1, <1>2 DEF AppSet
<1>3. CASE m.t = "done"
  <2>1. x = [a EXCEPT !.phase = "done", !.result = m.result]
    BY <1>3 DEF Apply
  <2>2. m.result \in ResultType
    BY <1>3 DEF Message, EventType
  <2>3. x = App(a.rows, a.done, a.soak, "done", m.result)
    BY <1>1, <2>1
  <2>4. x \in AppSet
    <3> HIDE DEF x, App
    <3> QED BY <1>1, <1>2, <2>2, <2>3
  <2> HIDE DEF x
  <2>5. x.rows = a.rows /\ x.done = a.done /\ x.soak = a.soak
    BY <2>3
  <2> QED BY <1>3, <2>4, <2>5 DEF x
<1>4. CASE m.t = "failed"
  <2>1. x = [a EXCEPT !.phase = "failed"]
    BY <1>4 DEF Apply
  <2>3. x = App(a.rows, a.done, a.soak, "failed", a.result)
    BY <1>1, <2>1
  <2>4. x \in AppSet
    <3> HIDE DEF x, App
    <3> QED BY <1>1, <1>2, <2>3
  <2> HIDE DEF x
  <2>5. x.rows = a.rows /\ x.done = a.done /\ x.soak = a.soak
    BY <2>3
  <2> QED BY <1>4, <2>4, <2>5 DEF x
<1>5. CASE m.t = "benchStart"
  <2>1. x = a
    BY <1>5 DEF Apply
  <2> QED BY <1>5, <2>1
<1>6. CASE m.t = "benchDone"
  <2>1. x = [a EXCEPT !.done = @ \cup ({m.bench} \cap DOMAIN a.rows)]
    BY <1>6 DEF Apply
  <2>2. DOMAIN a.rows = Index
    BY <1>1
  <2>3. x = App(a.rows, a.done \cup ({m.bench} \cap Index), a.soak, a.phase, a.result)
    BY <1>1, <2>1, <2>2
  <2>4. x \in AppSet
    <3> HIDE DEF x, App
    <3> QED BY <1>1, <1>2, <2>3
  <2> HIDE DEF x
  <2>5. x.rows = a.rows /\ x.done = a.done \cup ({m.bench} \cap Index) /\ x.soak = a.soak
    BY <2>3
  <2> QED BY <1>6, <2>4, <2>5 DEF x
<1>7. CASE m.t = "soakStart"
  <2>1. x = [a EXCEPT !.soak = <<0>>]
    BY <1>7 DEF Apply
  <2>2. <<0>> \in Seq(Nat)
    OBVIOUS
  <2>3. x = App(a.rows, a.done, <<0>>, a.phase, a.result)
    BY <1>1, <2>1
  <2>4. x \in AppSet
    <3> HIDE DEF x, App
    <3> QED BY <1>1, <1>2, <2>2, <2>3
  <2> HIDE DEF x
  <2>5. x.rows = a.rows /\ x.done = a.done /\ x.soak = <<0>>
    BY <2>3
  <2> QED BY <1>7, <2>4, <2>5 DEF x
<1>8. CASE m.t = "soakSample"
  <2> DEFINE sk == IF a.soak = <<>> THEN a.soak ELSE <<a.soak[1] + 1>>
  <2>1. x = [a EXCEPT !.soak = sk]
    BY <1>8 DEF Apply
  <2>2. sk \in Seq(Nat)
    <3>1. CASE a.soak # <<>>
      <4>1. a.soak[1] \in Nat
        BY <1>1, <3>1
      <4>2. a.soak[1] + 1 \in Nat
        BY <4>1
      <4>3. <<a.soak[1] + 1>> \in Seq(Nat)
        BY <4>2
      <4> QED BY <3>1, <4>3
    <3> QED BY <1>1, <3>1
  <2> HIDE DEF sk
  <2>3. x = App(a.rows, a.done, sk, a.phase, a.result)
    BY <1>1, <2>1
  <2>4. x \in AppSet
    <3> HIDE DEF x, App
    <3> QED BY <1>1, <1>2, <2>2, <2>3
  <2> HIDE DEF x
  <2>5. x.rows = a.rows /\ x.done = a.done /\ x.soak = sk
    BY <2>3
  <2>6. a.soak # <<>> => x.soak = <<a.soak[1] + 1>>
    BY <2>5 DEF sk
  <2> QED BY <1>8, <2>4, <2>5, <2>6 DEF x
<1>9. CASE m.t \in {"subStart", "warmup", "run", "subDone"}
  <2>1. x = IF HasRow(a, m.bench, m.sub)
            THEN [a EXCEPT !.rows[m.bench][m.sub] = RowAfter(@, m)]
            ELSE a
    BY <1>9 DEF Apply
  <2>2. CASE HasRow(a, m.bench, m.sub)
    <3> DEFINE i0 == m.bench
               j0 == m.sub
               new == RowAfter(a.rows[i0][j0], m)
               rs == [a.rows EXCEPT ![i0] = [@ EXCEPT ![j0] = new]]
    <3>1. i0 \in Index /\ j0 \in 1 .. Subtests[selected[i0]] /\ a.rows[i0] \in Seq(Row)
      BY <1>1, <2>2 DEF HasRow
    <3>2. a.rows[i0][j0] \in Row
      <4>1. \A sq \in Seq(Row) : \A k \in DOMAIN sq : sq[k] \in Row
        OBVIOUS
      <4>2. j0 \in DOMAIN a.rows[i0]
        BY <1>1, <3>1
      <4> QED BY <3>1, <4>1, <4>2
    <3>3. m.run \in Nat
      BY <1>9 DEF Message, EventType
    <3>4. new \in Row
      <4> DEFINE old == a.rows[i0][j0]
      <4>1. old \in Row /\ Timed \in Nat
        BY <3>2, SessionAssumption
      <4> HIDE DEF old
      <4>2. RowAfter(old, m) \in Row
        BY <1>9, <3>3, <4>1 DEF RowAfter, Row
      <4> QED BY <4>2 DEF old
    <3>5. x = [a EXCEPT !.rows[i0][j0] = new]
      BY <2>1, <2>2
    <3>6. x.rows = rs /\ x.done = a.done /\ x.soak = a.soak
      <4> HIDE DEF new
      <4> QED BY <1>1, <3>5
    <3>7. x = App(rs, a.done, a.soak, a.phase, a.result)
      <4> HIDE DEF new
      <4> QED BY <1>1, <3>5
    <3> HIDE DEF new, x
    <3>8. [a.rows[i0] EXCEPT ![j0] = new] \in Seq(Row) /\ DOMAIN [a.rows[i0] EXCEPT ![j0] = new] = 1 .. Subtests[selected[i0]]
      <4>1. \A sq \in Seq(Row) : \A k \in DOMAIN sq : [sq EXCEPT ![k] = new] \in Seq(Row) /\ DOMAIN [sq EXCEPT ![k] = new] = DOMAIN sq
        BY <3>4
      <4>2. j0 \in DOMAIN a.rows[i0] /\ DOMAIN a.rows[i0] = 1 .. Subtests[selected[i0]]
        BY <1>1, <3>1
      <4> QED BY <3>1, <4>1, <4>2
    <3>9. rs \in [Index -> Seq(Row)] /\ \A i \in Index : DOMAIN rs[i] = 1 .. Subtests[selected[i]]
      BY <1>1, <3>1, <3>8
    <3>10. x \in AppSet
      <4> HIDE DEF rs, x, App
      <4> QED BY <1>1, <1>2, <3>7, <3>9
    <3>11. \A i \in Index : \A j \in 1 .. Subtests[selected[i]] :
             rs[i][j] = IF i = i0 /\ j = j0 THEN new ELSE a.rows[i][j]
      <4> SUFFICES ASSUME NEW i \in Index, NEW j \in 1 .. Subtests[selected[i]]
                   PROVE  rs[i][j] = IF i = i0 /\ j = j0 THEN new ELSE a.rows[i][j]
        OBVIOUS
      <4>1. rs[i] = IF i = i0 THEN [a.rows[i0] EXCEPT ![j0] = new] ELSE a.rows[i]
        BY <1>1
      <4>2. j \in DOMAIN a.rows[i]
        BY <1>1
      <4>3. CASE i = i0
        <5>1. j \in DOMAIN a.rows[i0]
          BY <4>2, <4>3
        <5>2. [a.rows[i0] EXCEPT ![j0] = new][j] = IF j = j0 THEN new ELSE a.rows[i0][j]
          BY <5>1
        <5> HIDE DEF rs
        <5> QED BY <4>1, <4>3, <5>2
      <4>4. CASE i # i0
        <5> HIDE DEF rs
        <5> QED BY <4>1, <4>4
      <4> QED BY <4>3, <4>4
    <3>12. \A i \in Index : \A j \in 1 .. Subtests[selected[i]] :
             x.rows[i][j] = IF i = i0 /\ j = j0 THEN RowAfter(a.rows[i][j], m) ELSE a.rows[i][j]
      <4> SUFFICES ASSUME NEW i \in Index, NEW j \in 1 .. Subtests[selected[i]]
                   PROVE  x.rows[i][j] = IF i = i0 /\ j = j0 THEN RowAfter(a.rows[i][j], m) ELSE a.rows[i][j]
        OBVIOUS
      <4> HIDE DEF rs
      <4>1. x.rows[i][j] = IF i = i0 /\ j = j0 THEN new ELSE a.rows[i][j]
        BY <3>6, <3>11
      <4>2. i = i0 /\ j = j0 => new = RowAfter(a.rows[i][j], m)
        BY DEF new
      <4> HIDE DEF i0, j0
      <4> QED BY <4>1, <4>2
    <3> HIDE DEF rs
    <3> QED BY <1>9, <3>6, <3>10, <3>12 DEF x
  <2>3. CASE ~HasRow(a, m.bench, m.sub)
    <3>1. x = a
      BY <2>1, <2>3
    <3>2. \A i \in Index : \A j \in 1 .. Subtests[selected[i]] : ~(i = m.bench /\ j = m.sub)
      <4> SUFFICES ASSUME NEW i \in Index, NEW j \in 1 .. Subtests[selected[i]], i = m.bench, j = m.sub
                   PROVE  FALSE
        OBVIOUS
      <4>1. DOMAIN a.rows = Index /\ DOMAIN a.rows[i] = 1 .. Subtests[selected[i]]
        BY <1>1
      <4>2. i \in DOMAIN a.rows /\ j \in DOMAIN a.rows[i]
        BY <4>1
      <4> QED BY <2>3, <4>2 DEF HasRow
    <3> QED BY <1>9, <3>1, <3>2
  <2> QED BY <2>2, <2>3
<1>10. m.t \in {"done", "failed", "benchStart", "benchDone", "soakStart", "soakSample",
                "subStart", "warmup", "run", "subDone"}
  BY DEF Message, EventType
<1> QED BY <1>3, <1>4, <1>5, <1>6, <1>7, <1>8, <1>9, <1>10

(* The screen shows the same benchmarks: only phase, result and cancelling *)
(* may differ.                                                             *)
Alike(a1, a2) == a1.rows = a2.rows /\ a1.done = a2.done /\ a1.soak = a2.soak

(* Shown of an App is the end of a trace of Apps.                          *)
LEMMA ShownIs ==
  ASSUME NEW a \in AppSet, NEW c \in Seq(Message)
  PROVE  \E tr : /\ Trace(tr, a, c) /\ Shown(a, c) = tr[Len(c)]
                 /\ \A k \in 0 .. Len(c) : tr[k] \in AppSet
<1>1. \A x \in AppSet : \A m \in Message : Apply(x, m) \in AppSet
  BY ApplyIs
<1> QED BY <1>1, ShownTrace

(* Every trace ends with what is shown.                                    *)
LEMMA ShownEnd ==
  ASSUME NEW a \in AppSet, NEW c \in Seq(Message), NEW tr, Trace(tr, a, c)
  PROVE  /\ Shown(a, c) = tr[Len(c)] /\ Shown(a, c) \in AppSet
         /\ \A k \in 0 .. Len(c) : tr[k] \in AppSet
<1>1. PICK tt : /\ Trace(tt, a, c) /\ Shown(a, c) = tt[Len(c)]
                /\ \A k \in 0 .. Len(c) : tt[k] \in AppSet
  BY ShownIs
<1>2. Len(c) \in 0 .. Len(c)
  OBVIOUS
<1>3. \A k \in 0 .. Len(c) : tr[k] = tt[k]
  BY <1>1, TraceUnique
<1> QED BY <1>1, <1>2, <1>3

(* What is shown is an App.                                                *)
LEMMA ShownType ==
  ASSUME NEW a \in AppSet, NEW c \in Seq(Message)
  PROVE  Shown(a, c) \in AppSet
BY ShownIs, ShownEnd

(* With no message in the channel the screen shows App itself.             *)
LEMMA ShownNone ==
  ASSUME NEW a \in AppSet
  PROVE  Shown(a, <<>>) = a
<1>1. <<>> \in Seq(Message) /\ Len(<<>>) = 0
  OBVIOUS
<1>2. PICK tr : Trace(tr, a, <<>>) /\ Shown(a, <<>>) = tr[Len(<<>>)]
  BY <1>1, ShownIs
<1> QED BY <1>1, <1>2 DEF Trace

(* A trace of a longer channel begins with the trace of the shorter one.   *)
LEMMA TraceAppend ==
  ASSUME NEW a, NEW c \in Seq(Message), NEW m \in Message, NEW tr, Trace(tr, a, Append(c, m))
  PROVE  Trace(tr, a, c) /\ tr[Len(c) + 1] = Apply(tr[Len(c)], m)
<1> DEFINE d == Append(c, m)
<1>1. /\ Len(c) \in Nat /\ Len(d) = Len(c) + 1 /\ d[Len(c) + 1] = m
      /\ \A k \in 1 .. Len(c) : d[k] = c[k] /\ k \in 1 .. Len(d)
      /\ Len(c) + 1 \in 1 .. Len(d) /\ (Len(c) + 1) - 1 = Len(c)
  OBVIOUS
<1> HIDE DEF d
<1>2. tr[0] = a /\ \A k \in 1 .. Len(d) : tr[k] = Apply(tr[k - 1], d[k])
  BY DEF Trace, d
<1>3. tr[Len(c) + 1] = Apply(tr[(Len(c) + 1) - 1], d[Len(c) + 1])
  BY <1>1, <1>2
<1>4. \A k \in 1 .. Len(c) : tr[k] = Apply(tr[k - 1], c[k])
  BY <1>1, <1>2
<1> QED BY <1>1, <1>2, <1>3, <1>4 DEF Trace

(* Sending a message applies it to what will be shown.                     *)
LEMMA ShownAppend ==
  ASSUME NEW a \in AppSet, NEW c \in Seq(Message), NEW m \in Message
  PROVE  Shown(a, Append(c, m)) = Apply(Shown(a, c), m)
<1>1. Append(c, m) \in Seq(Message) /\ Len(Append(c, m)) = Len(c) + 1
  OBVIOUS
<1>2. PICK tr : Trace(tr, a, Append(c, m)) /\ Shown(a, Append(c, m)) = tr[Len(Append(c, m))]
  BY <1>1, ShownIs
<1>3. Trace(tr, a, c) /\ tr[Len(c) + 1] = Apply(tr[Len(c)], m)
  BY <1>2, TraceAppend
<1>4. Shown(a, c) = tr[Len(c)]
  BY <1>3, ShownEnd
<1> QED BY <1>1, <1>2, <1>3, <1>4

(* A trace of the rest of the channel is one of the whole, begun earlier.  *)
LEMMA TraceTail ==
  ASSUME NEW a, NEW c \in Seq(Message), c # <<>>, NEW tr, Trace(tr, Apply(a, Head(c)), Tail(c))
  PROVE  Trace([k \in 0 .. Len(c) |-> IF k = 0 THEN a ELSE tr[k - 1]], a, c)
<1> DEFINE d == Tail(c)
           n == Len(c)
           tt == [k \in 0 .. n |-> IF k = 0 THEN a ELSE tr[k - 1]]
<1>1. /\ n \in Nat /\ n >= 1 /\ Len(d) = n - 1 /\ Head(c) = c[1]
      /\ \A k \in 1 .. (n - 1) : d[k] = c[k + 1]
  OBVIOUS
<1>2. tr[0] = Apply(a, c[1]) /\ \A k \in 1 .. (n - 1) : tr[k] = Apply(tr[k - 1], d[k])
  BY <1>1 DEF Trace
<1> HIDE DEF d, n
<1>3. tt[0] = a
  BY <1>1
<1>4. ASSUME NEW k \in 1 .. n PROVE tt[k] = Apply(tt[k - 1], c[k])
  <2>1. k \in 0 .. n /\ k - 1 \in 0 .. n /\ k # 0
    BY <1>1
  <2>2. tt[k] = tr[k - 1]
    BY <2>1
  <2>3. CASE k = 1
    <3>1. tt[k - 1] = a /\ tr[k - 1] = tr[0]
      BY <1>3, <2>3
    <3> HIDE DEF tt
    <3> QED BY <1>2, <2>2, <2>3, <3>1
  <2>4. CASE k # 1
    <3>1. k - 1 \in 1 .. (n - 1) /\ (k - 1) + 1 = k /\ k - 1 # 0
      BY <1>1, <2>4
    <3>2. tr[k - 1] = Apply(tr[(k - 1) - 1], c[k])
      BY <1>1, <1>2, <3>1
    <3>3. tt[k - 1] = tr[(k - 1) - 1]
      BY <2>1, <3>1
    <3> HIDE DEF tt
    <3> QED BY <2>2, <3>2, <3>3
  <2> QED BY <2>3, <2>4
<1> HIDE DEF tt
<1>5. Trace(tt, a, c)
  BY <1>3, <1>4 DEF Trace, n
<1> QED BY <1>5 DEF tt, n

(* Receiving a message leaves what will be shown alone.                    *)
LEMMA ShownTail ==
  ASSUME NEW a \in AppSet, NEW c \in Seq(Message), c # <<>>
  PROVE  Shown(a, c) = Shown(Apply(a, Head(c)), Tail(c))
<1>1. /\ Head(c) \in Message /\ Tail(c) \in Seq(Message) /\ Len(Tail(c)) = Len(c) - 1
      /\ Len(c) \in Nat /\ Len(c) >= 1
  OBVIOUS
<1>2. Apply(a, Head(c)) \in AppSet
  BY <1>1, ApplyIs
<1>3. PICK tr : Trace(tr, Apply(a, Head(c)), Tail(c)) /\ Shown(Apply(a, Head(c)), Tail(c)) = tr[Len(Tail(c))]
  BY <1>1, <1>2, ShownIs
<1> DEFINE tt == [k \in 0 .. Len(c) |-> IF k = 0 THEN a ELSE tr[k - 1]]
<1>4. Trace(tt, a, c)
  BY <1>3, TraceTail
<1>5. tt[Len(c)] = tr[Len(c) - 1]
  BY <1>1
<1> HIDE DEF tt
<1>6. Shown(a, c) = tt[Len(c)]
  BY <1>4, ShownEnd
<1> QED BY <1>1, <1>3, <1>5, <1>6

(* Messages do not tell apart two Apps that show the same benchmarks.      *)
LEMMA ApplyAlike ==
  ASSUME NEW a1 \in AppSet, NEW a2 \in AppSet, Alike(a1, a2), NEW m \in Message
  PROVE  Alike(Apply(a1, m), Apply(a2, m))
<1> DEFINE x == Apply(a1, m)
           y == Apply(a2, m)
<1>1. /\ DOMAIN a1 = {"rows", "done", "soak", "phase", "result", "cancelling"}
      /\ DOMAIN a2 = {"rows", "done", "soak", "phase", "result", "cancelling"}
      /\ a1.rows = a2.rows /\ a1.done = a2.done /\ a1.soak = a2.soak
  BY DEF AppSet, Alike
<1>2. CASE m.t \in {"done", "failed", "benchStart", "benchDone", "soakStart", "soakSample"}
  BY <1>1, <1>2 DEF Apply, Alike
<1>3. CASE m.t \in {"subStart", "warmup", "run", "subDone"}
  <2>1. /\ x = IF HasRow(a1, m.bench, m.sub)
               THEN [a1 EXCEPT !.rows[m.bench][m.sub] = RowAfter(@, m)] ELSE a1
        /\ y = IF HasRow(a2, m.bench, m.sub)
               THEN [a2 EXCEPT !.rows[m.bench][m.sub] = RowAfter(@, m)] ELSE a2
    BY <1>3 DEF Apply
  <2>2. HasRow(a1, m.bench, m.sub) <=> HasRow(a2, m.bench, m.sub)
    BY <1>1 DEF HasRow
  <2> DEFINE new == RowAfter(a1.rows[m.bench][m.sub], m)
  <2>3. RowAfter(a2.rows[m.bench][m.sub], m) = new
    BY <1>1
  <2>4. CASE HasRow(a1, m.bench, m.sub)
    <3>1. x = [a1 EXCEPT !.rows[m.bench][m.sub] = new]
      BY <2>1, <2>4
    <3>2. y = [a2 EXCEPT !.rows[m.bench][m.sub] = RowAfter(a2.rows[m.bench][m.sub], m)]
      BY <2>1, <2>2, <2>4
    <3> HIDE DEF new, x, y
    <3>3. y = [a2 EXCEPT !.rows[m.bench][m.sub] = new]
      BY <2>3, <3>2
    <3>4. x.rows = y.rows /\ x.done = y.done /\ x.soak = y.soak
      BY <1>1, <3>1, <3>3
    <3> QED BY <3>4 DEF Alike, x, y
  <2>5. CASE ~HasRow(a1, m.bench, m.sub)
    BY <2>1, <2>2, <2>5
  <2> QED BY <2>4, <2>5
<1>4. m.t \in {"done", "failed", "benchStart", "benchDone", "soakStart", "soakSample",
               "subStart", "warmup", "run", "subDone"}
  BY DEF Message, EventType
<1> QED BY <1>2, <1>3, <1>4

(* Nor does a sequence of messages, at any point of it.                    *)
LEMMA TraceAlike ==
  ASSUME NEW a1 \in AppSet, NEW a2 \in AppSet, Alike(a1, a2), NEW c \in Seq(Message),
         NEW tr, Trace(tr, a1, c), NEW tt, Trace(tt, a2, c)
  PROVE  \A k \in 0 .. Len(c) : Alike(tr[k], tt[k])
<1> DEFINE P == {k \in Nat : k <= Len(c) => Alike(tr[k], tt[k])}
<1>1. Len(c) \in Nat /\ \A k \in 1 .. Len(c) : c[k] \in Message
  OBVIOUS
<1>2. /\ \A k \in 0 .. Len(c) : tr[k] \in AppSet
      /\ \A k \in 0 .. Len(c) : tt[k] \in AppSet
  BY ShownEnd
<1>3. 0 \in P
  BY DEF Trace
<1>4. ASSUME NEW k \in P PROVE k + 1 \in P
  <2>1. CASE k + 1 <= Len(c)
    <3>1. k + 1 \in 1 .. Len(c) /\ (k + 1) - 1 = k /\ k \in 0 .. Len(c) /\ Alike(tr[k], tt[k])
      BY <1>1, <2>1
    <3>2. tr[k + 1] = Apply(tr[(k + 1) - 1], c[k + 1]) /\ tt[k + 1] = Apply(tt[(k + 1) - 1], c[k + 1])
      BY <3>1 DEF Trace
    <3>3. Alike(Apply(tr[k], c[k + 1]), Apply(tt[k], c[k + 1]))
      BY <1>1, <1>2, <3>1, ApplyAlike
    <3> QED BY <3>1, <3>2, <3>3
  <2> QED BY <2>1
<1>5. P = Nat
  <2> HIDE DEF P
  <2>1. P \in SUBSET Nat
    BY DEF P
  <2> QED BY <1>3, <1>4, <2>1, SetInduction
<1> QED BY <1>1, <1>5

(* Nor does what is shown in the end.                                      *)
LEMMA ShownAlike ==
  ASSUME NEW a1 \in AppSet, NEW a2 \in AppSet, Alike(a1, a2), NEW c \in Seq(Message)
  PROVE  Alike(Shown(a1, c), Shown(a2, c))
<1>1. PICK tr : Trace(tr, a1, c) /\ Shown(a1, c) = tr[Len(c)]
  BY ShownIs
<1>2. PICK tt : Trace(tt, a2, c) /\ Shown(a2, c) = tt[Len(c)]
  BY ShownIs
<1>3. Len(c) \in 0 .. Len(c)
  OBVIOUS
<1> QED BY <1>1, <1>2, <1>3, TraceAlike

(* Where the worker stands.  The row the engine's events are labelled with *)
(* is the subtest being run, its predecessors are measured and nothing     *)
(* after them; a benchmark is noted only once it is behind.                *)
Engine ==
  /\ pc \in {"subtest", "measure"} =>
       /\ cursor = [bench |-> b, sub |-> s]
       /\ s # 0 /\ measured[b] = s - 1
  /\ pc = "measure" => s <= Subtests[selected[b]] /\ (r > 0 => w = Warmups)
  /\ pc = "bench" => cursor.bench = b - 1
  /\ \A i \in Index : i > b \/ (i = b /\ pc = "bench") => measured[i] = 0
  /\ \A i \in Skipped : i < b
  /\ pc \notin {"soak", "send", "gone"} => samples = 0
  /\ err # "none" => pc = "gone"

(* A benchmark that errs is noted and passed over, or ends the worker.     *)
LEMMA ErrsNoted ==
  ASSUME TypeOK, NEW why, BenchErrs(why)
  PROVE  /\ UNCHANGED <<s, w, r, measured, kept, zero, samples, sampling, cursor, abort, late>>
         /\ \/ /\ selected[b] \in Ungraded
               /\ Skipped' = Skipped \cup {b} /\ b' = b + 1 /\ pc' = "bench"
               /\ UNCHANGED <<chan, err>>
            \/ /\ selected[b] \notin Ungraded
               /\ Skipped' = Skipped /\ b' = b /\ pc' = "gone"
               /\ chan' = Append(chan, Failed(why)) /\ err' = why
<1>1. UNCHANGED <<s, w, r, measured, kept, zero, samples, sampling, cursor, abort, late>>
  BY DEF BenchErrs, soakVars
<1>2. CASE selected[b] \in Ungraded
  <2>1. notes' = notes \cup {<<b, why>>} /\ b' = b + 1 /\ pc' = "bench" /\ UNCHANGED <<chan, err>>
    BY <1>2 DEF BenchErrs
  <2>2. Skipped' = Skipped \cup {b}
    <3>1. Skipped' = {n[1] : n \in notes \cup {<<b, why>>}}
      BY <2>1 DEF Skipped
    <3>2. <<b, why>>[1] = b
      OBVIOUS
    <3> DEFINE x == <<b, why>>
    <3> HIDE DEF x
    <3>3. {n[1] : n \in notes \cup {x}} = {n[1] : n \in notes} \cup {x[1]}
      OBVIOUS
    <3> QED BY <3>1, <3>2, <3>3 DEF x, Skipped
  <2> QED BY <1>1, <1>2, <2>1, <2>2
<1>3. CASE selected[b] \notin Ungraded
  <2>1. notes' = notes /\ b' = b /\ pc' = "gone" /\ chan' = Append(chan, Failed(why)) /\ err' = why
    BY <1>3 DEF BenchErrs
  <2> QED BY <1>1, <1>3, <2>1 DEF Skipped
<1> QED BY <1>2, <1>3

(* The worker's steps keep its bookkeeping.                                *)
LEMMA EngineWorker == TypeOK /\ Engine /\ Worker => Engine'
<1> SUFFICES ASSUME TypeOK, Engine, Worker PROVE Engine'
  OBVIOUS
<1>1. /\ selected \in Seq(Bench) /\ Index' = Index /\ Index \in SUBSET Nat /\ selected' = selected
      /\ b \in Nat /\ b # 0 /\ s \in Nat /\ w \in Nat /\ r \in Nat /\ samples \in Nat
      /\ measured \in [Index -> Nat] /\ cursor \in [bench : Nat, sub : Nat]
      /\ \A i \in Skipped : i \in Nat
      /\ pc \in {"subtest", "measure"} => b \in Index
  BY SessionAssumption DEF TypeOK, Index, Worker, fixed, Skipped, NoteType
<1>2. CASE AbortNoticed \/ MeasurementFails
  <2>1. PICK why \in {"aborted", "measurement"} : BenchErrs(why)
    BY <1>2 DEF AbortNoticed, MeasurementFails
  <2>2. pc \in {"subtest", "measure"} /\ cursor.bench = b
    BY <1>2 DEF AbortNoticed, MeasurementFails, Engine
  <2>3. CASE selected[b] \in Ungraded
    <3>1. /\ UNCHANGED <<s, w, r, measured, samples, cursor, err>>
          /\ Skipped' = Skipped \cup {b} /\ b' = b + 1 /\ pc' = "bench"
      BY <2>1, <2>3, ErrsNoted
    <3> QED BY <1>1, <2>2, <3>1 DEF Engine
  <2>4. CASE selected[b] \notin Ungraded
    <3>1. /\ UNCHANGED <<s, w, r, measured, samples, cursor, b>>
          /\ Skipped' = Skipped /\ pc' = "gone"
      BY <2>1, <2>4, ErrsNoted
    <3> QED BY <1>1, <2>2, <3>1 DEF Engine
  <2> QED BY <2>3, <2>4
<1> USE DEF position, outcomes, soakVars
<1>3. CASE BenchBegins
  <2>1. /\ pc = "bench" /\ pc' = "subtest" /\ s' = 1
        /\ cursor' = [bench |-> cursor.bench + 1, sub |-> 1] /\ b \in Index
        /\ UNCHANGED <<b, measured, samples, err>> /\ Skipped' = Skipped
    BY <1>1, <1>3 DEF BenchBegins, EmitBenchStart, NextBench, Skipped, Index
  <2> QED BY <1>1, <2>1 DEF Engine
<1>4. CASE SubtestBegins
  <2>1. /\ pc = "subtest" /\ pc' = "measure" /\ r' = 0 /\ s <= Subtests[selected[b]]
        /\ UNCHANGED <<b, s, measured, samples, err, cursor>> /\ Skipped' = Skipped
    BY <1>4 DEF SubtestBegins, EmitHere, Skipped
  <2> QED BY <1>1, <2>1 DEF Engine
<1>5. CASE WarmUp
  <2>1. /\ pc = "measure" /\ pc' = "measure" /\ w # Warmups
        /\ UNCHANGED <<b, s, r, measured, samples, err, cursor>> /\ Skipped' = Skipped
    BY <1>5, SessionAssumption DEF WarmUp, EmitHere, Skipped
  <2> QED BY <1>1, <2>1 DEF Engine
<1>6. CASE TimedRun
  <2>1. /\ pc = "measure" /\ pc' = "measure" /\ w = Warmups /\ w' = w
        /\ UNCHANGED <<b, s, measured, samples, err, cursor>> /\ Skipped' = Skipped
    BY <1>6 DEF TimedRun, EmitHere, Skipped
  <2> QED BY <1>1, <2>1 DEF Engine
<1>7. CASE SubtestEnds
  <2>1. /\ pc = "measure" /\ pc' = "subtest" /\ s' = s + 1
        /\ measured' = [measured EXCEPT ![b] = @ + 1]
        /\ cursor' = [cursor EXCEPT !.sub = @ + 1]
        /\ UNCHANGED <<b, samples, err>> /\ Skipped' = Skipped
    BY <1>7 DEF SubtestEnds, EmitHere, Skipped
  <2>2. cursor' = [bench |-> b, sub |-> s'] /\ measured'[b] = s
    BY <1>1, <2>1 DEF Engine
  <2>3. \A i \in Index : i > b => measured'[i] = measured[i]
    BY <1>1, <2>1
  <2> QED BY <1>1, <2>1, <2>2, <2>3 DEF Engine
<1>8. CASE BenchEnds
  <2>1. /\ pc = "subtest" /\ pc' = "bench" /\ b' = b + 1
        /\ UNCHANGED <<measured, samples, err, cursor>> /\ Skipped' = Skipped
    BY <1>8 DEF BenchEnds, EmitHere, Skipped
  <2> QED BY <1>1, <2>1 DEF Engine
<1>9. CASE NothingMeasured \/ ScoreRefuses
  <2>1. /\ pc' = "gone" /\ UNCHANGED <<b, s, measured, samples, cursor>> /\ Skipped' = Skipped
    BY <1>9 DEF NothingMeasured, ScoreRefuses, Skipped
  <2>2. pc \in {"bench", "score"}
    BY <1>9 DEF NothingMeasured, ScoreRefuses
  <2> QED BY <1>1, <2>1, <2>2 DEF Engine
<1>10. CASE BenchmarksDone \/ Score
  <2>1. /\ pc' \in {"score", "scored"} /\ UNCHANGED <<b, s, measured, samples, cursor, err>> /\ Skipped' = Skipped
        /\ pc \in {"bench", "score"}
    BY <1>10 DEF BenchmarksDone, Score, Skipped
  <2> QED BY <1>1, <2>1 DEF Engine
<1>11. CASE SoakBegins \/ NoSoak
  <2>1. /\ pc' \in {"soak", "send"} /\ UNCHANGED <<b, s, measured, samples, cursor, err>> /\ Skipped' = Skipped
        /\ pc = "scored"
    BY <1>11 DEF SoakBegins, NoSoak, Skipped
  <2> QED BY <1>1, <2>1 DEF Engine
<1>12. CASE SoakTurn \/ SendDone
  <2>1. /\ pc \in {"soak", "send"} /\ pc' \in {"soak", "send", "gone"}
        /\ UNCHANGED <<b, s, measured, cursor, err>> /\ Skipped' = Skipped
    BY <1>12 DEF SoakTurn, SendDone, Skipped
  <2> QED BY <1>1, <2>1 DEF Engine
<1> QED
  BY <1>2, <1>3, <1>4, <1>5, <1>6, <1>7, <1>8, <1>9, <1>10, <1>11, <1>12 DEF Worker

(* Every step keeps the worker's bookkeeping.                              *)
LEMMA EngineInductive == TypeOK /\ Engine /\ [Next]_vars => Engine'
<1> SUFFICES ASSUME TypeOK, Engine, [Next]_vars PROVE Engine'
  OBVIOUS
<1>1. CASE Screen \/ UNCHANGED vars
  <2>1. UNCHANGED <<selected, pc, b, s, w, r, measured, notes, err, samples, cursor>>
    BY <1>1 DEF Screen, vars, fixed, workVars, position, outcomes, soakVars
  <2> QED BY <2>1 DEF Engine, Index, Skipped
<1> QED BY <1>1, EngineWorker DEF Next

(* The worker starts before its first benchmark.                           *)
LEMMA EngineInit == Init => Engine
<1> SUFFICES ASSUME Init PROVE Engine
  OBVIOUS
<1>1. /\ pc = "bench" /\ b = 1 /\ measured = [i \in Index |-> 0] /\ cursor = [bench |-> 0, sub |-> 1]
      /\ notes = {} /\ err = "none" /\ samples = 0
  BY DEF Init
<1>2. Skipped = {}
  BY <1>1 DEF Skipped
<1> QED BY <1>1, <1>2 DEF Engine

(* App keeps its shape. *)
LEMMA AppKept == TypeOK /\ app \in AppSet /\ [Next]_vars => (app \in AppSet)'
<1> SUFFICES ASSUME TypeOK, app \in AppSet, [Next]_vars PROVE (app \in AppSet)'
  OBVIOUS
<1>1. selected' = selected
  BY DEF Next, vars, Worker, Screen, fixed
<1>2. AppSet' = AppSet
  BY <1>1 DEF AppSet, Index
<1>3. SUFFICES app' \in AppSet
  BY <1>2
<1>4. CASE Worker \/ UNCHANGED vars
  BY <1>4 DEF Worker, vars, uiVars
<1>5. CASE Screen
  <2>1. ASSUME Resolve \/ Cancel PROVE app' \in AppSet
    BY <2>1 DEF Resolve, Cancel, AppSet
  <2>2. CASE Receive
    <3>1. Head(chan) \in Message
      BY <2>2 DEF Receive, TypeOK
    <3> QED BY <2>2, <3>1, ApplyIs DEF Receive
  <2>3. CASE ~Receive
    <3>1. app' = app \/ Resolve \/ Cancel
      BY <1>5, <2>3 DEF Screen, Draw, Drained, NoKey, Quit, CtrlC, Enter, TerminalFails, Join
    <3> QED BY <2>1, <3>1
  <2> QED BY <2>2, <2>3
<1> QED BY <1>4, <1>5 DEF Next

(* App::new makes an App.                                                  *)
LEMMA AppStarts == Init => app \in AppSet
<1> SUFFICES ASSUME Init PROVE app \in AppSet
  OBVIOUS
<1>1. app = [rows       |-> [i \in Index |-> [j \in 1 .. Subtests[selected[i]] |-> PendingRow]],
            done       |-> {},
            soak       |-> <<>>,
            phase      |-> "running",
            result     |-> NoResult,
            cancelling |-> FALSE]
  BY DEF Init
<1>2. \A i \in Index : Subtests[selected[i]] \in Nat
  BY SessionAssumption DEF Init, Index
<1>3. PendingRow \in Row
  BY DEF PendingRow, Row
<1> HIDE DEF PendingRow
<1>4. \A n \in Nat : [j \in 1 .. n |-> PendingRow] \in Seq(Row) /\ DOMAIN [j \in 1 .. n |-> PendingRow] = 1 .. n
  BY <1>3
<1>5. NoResult \in ResultType
  BY DEF NoResult, ResultType, NoteType
<1> DEFINE rs == [i \in Index |-> [j \in 1 .. Subtests[selected[i]] |-> PendingRow]]
<1>6. rs \in [Index -> Seq(Row)] /\ \A i \in Index : DOMAIN rs[i] = 1 .. Subtests[selected[i]]
  BY <1>2, <1>4
<1> HIDE DEF rs
<1>7. app = [rows |-> rs, done |-> {}, soak |-> <<>>, phase |-> "running", result |-> NoResult, cancelling |-> FALSE]
  BY <1>1 DEF rs
<1>8. <<>> \in Seq(Nat)
  OBVIOUS
<1> QED BY <1>5, <1>6, <1>7, <1>8 DEF AppSet

(* What the engine knows of one row: completed, being run, given up half   *)
(* way, or not yet begun.                                                  *)
RowOk(row, i, j) ==
  /\ j <= measured[i] => row = DoneRow
  /\ j = measured[i] + 1 /\ pc = "measure" /\ i = b => row = CurrentRow
  /\ j = measured[i] + 1 /\ Stuck(i) => row.state # "done"
  /\ j > measured[i] /\ ~(j = measured[i] + 1 /\ (Stuck(i) \/ (pc = "measure" /\ i = b)))
       => row = PendingRow
(* Every row will show what the engine knows of it; marks and gauge too.   *)
RowsOk    == \A i \in Index : \A j \in 1 .. Subtests[selected[i]] : RowOk(Seen.rows[i][j], i, j)
TalliesOk == Seen.done = kept /\ (samples > 0 \/ pc = "soak" => Seen.soak = <<samples>>)
Mirrored  == RowsOk /\ TalliesOk

(* No row of the second App is behind the first's.                         *)
Forward(a1, a2) ==
  \A i \in Index : \A j \in 1 .. Subtests[selected[i]] : Rank(a2.rows[i][j]) >= Rank(a1.rows[i][j])

(* A row's rank is a natural number.                                       *)
LEMMA RankType ==
  ASSUME NEW row \in Row
  PROVE  Rank(row) \in Nat
<1>1. row.state \in {"pending", "warmup", "running", "done"} /\ row.runs \in Nat /\ Timed \in Nat
  BY SessionAssumption DEF Row
<1> QED BY <1>1 DEF Rank

(* The rows of an App are rows.                                            *)
LEMMA RowOf ==
  ASSUME TypeOK, NEW a \in AppSet, NEW i \in Index, NEW j \in 1 .. Subtests[selected[i]]
  PROVE  a.rows[i][j] \in Row /\ j \in Nat /\ j >= 1 /\ Subtests[selected[i]] \in Nat
<1>1. a.rows \in [Index -> Seq(Row)] /\ DOMAIN a.rows[i] = 1 .. Subtests[selected[i]]
  BY DEF AppSet
<1>2. \A sq \in Seq(Row) : \A k \in DOMAIN sq : sq[k] \in Row
  OBVIOUS
<1>3. a.rows[i] \in Seq(Row)
  BY <1>1
<1>4. selected \in Seq(Bench)
  BY SessionAssumption DEF TypeOK
<1>5. selected[i] \in Bench
  BY <1>4 DEF Index
<1>6. Subtests[selected[i]] \in Nat
  BY <1>5, SessionAssumption
<1> QED BY <1>1, <1>2, <1>3, <1>6

(* No message, no change.                                                  *)
LEMMA SeenQuiet ==
  ASSUME UNCHANGED <<app, chan>>
  PROVE  Seen' = Seen
BY SeenShown, SeenShownNext

(* A step that sends one message applies it to what will be shown.         *)
LEMMA SeenSends ==
  ASSUME TypeOK, app \in AppSet, app' = app, NEW m \in Message, chan' = Append(chan, m)
  PROVE  Seen \in AppSet /\ Seen' = Apply(Seen, m)
<1>1. chan \in Seq(Message)
  BY DEF TypeOK
<1>2. Seen = Shown(app, chan) /\ Seen' = Shown(app, Append(chan, m))
  BY SeenShown, SeenShownNext
<1> HIDE DEF Seen
<1> QED BY <1>1, <1>2, ShownAppend, ShownType

(* Rows that stay do not retreat.                                          *)
LEMMA ForwardSame ==
  ASSUME TypeOK, NEW a1 \in AppSet, NEW a2, a2.rows = a1.rows
  PROVE  Forward(a1, a2)
<1> SUFFICES ASSUME NEW i \in Index, NEW j \in 1 .. Subtests[selected[i]]
             PROVE  Rank(a2.rows[i][j]) >= Rank(a1.rows[i][j])
  BY DEF Forward
<1>1. a1.rows[i][j] \in Row
  BY RowOf
<1>2. Rank(a1.rows[i][j]) \in Nat
  BY <1>1, RankType
<1> QED BY <1>2

(* No row moves.                                                           *)
LEMMA RowsKept ==
  ASSUME TypeOK, RowsOk, Seen \in AppSet,
         UNCHANGED <<selected, measured>>, pc' # "measure", Seen'.rows = Seen.rows,
         \A i \in Index : Stuck(i) \/ (i = b /\ pc = "measure") => Stuck(i)'
  PROVE  RowsOk'
<1> SUFFICES ASSUME NEW i \in Index, NEW j \in 1 .. Subtests[selected[i]]
             PROVE  RowOk(Seen.rows[i][j], i, j)'
  <2>1. Index' = Index
    BY DEF Index
  <2> QED BY <2>1 DEF RowsOk
<1> DEFINE row == Seen.rows[i][j]
<1>1. RowOk(row, i, j) /\ Seen'.rows[i][j] = row
  BY DEF RowsOk
<1>2. j \in Nat /\ measured[i] \in Nat
  BY RowOf DEF TypeOK
<1>3. PendingRow.state # "done" /\ CurrentRow.state # "done"
  BY DEF PendingRow, CurrentRow
<1> HIDE DEF row
<1>4. DoneRow' = DoneRow /\ PendingRow' = PendingRow
  BY DEF DoneRow, PendingRow
<1>5. /\ j <= measured[i] => row = DoneRow
      /\ j = measured[i] + 1 /\ pc = "measure" /\ i = b => row = CurrentRow
      /\ j = measured[i] + 1 /\ Stuck(i) => row.state # "done"
      /\ j > measured[i] /\ ~(j = measured[i] + 1 /\ (Stuck(i) \/ (pc = "measure" /\ i = b)))
           => row = PendingRow
  BY <1>1 DEF RowOk
<1>6. j = measured[i] + 1 => row.state # "done"
  BY <1>2, <1>3, <1>5
<1>7. Stuck(i) \/ (i = b /\ pc = "measure") => Stuck(i)'
  OBVIOUS
<1>8. j > measured[i] /\ ~(j = measured[i] + 1 /\ Stuck(i)') => row = PendingRow
  BY <1>2, <1>5, <1>7
<1>9. (Seen.rows[i][j])' = row /\ measured'[i] = measured[i]
  BY <1>1
<1> HIDE DEF DoneRow, PendingRow, Stuck, CurrentRow
<1> QED BY <1>4, <1>5, <1>6, <1>8, <1>9 DEF RowOk

(* The event m moves one row, that of the subtest being run.               *)
LEMMA RowMoves ==
  ASSUME TypeOK, RowsOk, Seen \in AppSet, b \in Index, s \in 1 .. Subtests[selected[b]],
         UNCHANGED selected, NEW m \in Message, Seen' = Apply(Seen, m),
         m.t \in {"subStart", "warmup", "run", "subDone"}, m.bench = b, m.sub = s,
         NEW old,
         NEW new, RowAfter(old, m) = new, Rank(new) >= Rank(old),
         \A i \in Index : \A j \in 1 .. Subtests[selected[i]] : \A row \in Row :
            IF i = b /\ j = s THEN RowOk(new, i, j)'
                              ELSE RowOk(row, i, j) => RowOk(row, i, j)',
         Seen.rows[b][s] = old
  PROVE  RowsOk' /\ Forward(Seen, Seen')
<1>1. /\ Seen'.done = Seen.done /\ Seen'.soak = Seen.soak
      /\ \A i \in Index : \A j \in 1 .. Subtests[selected[i]] :
           Seen'.rows[i][j] = IF i = b /\ j = s THEN RowAfter(Seen.rows[i][j], m) ELSE Seen.rows[i][j]
  BY ApplyIs
<1>2. \A i \in Index : \A j \in 1 .. Subtests[selected[i]] :
        /\ (i = b /\ j = s) => Seen'.rows[i][j] = new /\ Seen.rows[i][j] = old
        /\ ~(i = b /\ j = s) => Seen'.rows[i][j] = Seen.rows[i][j]
        /\ Seen.rows[i][j] \in Row
  BY <1>1, RowOf
<1>3. RowsOk'
  <2> SUFFICES ASSUME NEW i \in Index, NEW j \in 1 .. Subtests[selected[i]]
               PROVE  RowOk(Seen.rows[i][j], i, j)'
    <3>1. Index' = Index
      BY DEF Index
    <3> QED BY <3>1 DEF RowsOk
  <2>1. CASE i = b /\ j = s
    <3>1. (Seen.rows[i][j])' = new /\ RowOk(new, i, j)'
      BY <1>2, <2>1
    <3> QED BY <3>1 DEF RowOk
  <2>2. CASE ~(i = b /\ j = s)
    <3>0. PICK row \in Row : row = Seen.rows[i][j]
      BY <1>2
    <3>1. (Seen.rows[i][j])' = row /\ RowOk(row, i, j)
      BY <1>2, <2>2, <3>0 DEF RowsOk
    <3>2. RowOk(row, i, j) => RowOk(row, i, j)'
      BY <2>2, <3>1
    <3> QED BY <3>1, <3>2 DEF RowOk
  <2> QED BY <2>1, <2>2
<1>4. Forward(Seen, Seen')
  <2> SUFFICES ASSUME NEW i \in Index, NEW j \in 1 .. Subtests[selected[i]]
               PROVE  Rank(Seen'.rows[i][j]) >= Rank(Seen.rows[i][j])
    BY DEF Forward
  <2>1. CASE i = b /\ j = s
    BY <1>2, <2>1
  <2>2. CASE ~(i = b /\ j = s)
    <3>1. Rank(Seen.rows[i][j]) \in Nat /\ Seen'.rows[i][j] = Seen.rows[i][j]
      BY <1>2, <2>2, RankType
    <3> QED BY <3>1
  <2> QED BY <2>1, <2>2
<1> QED BY <1>3, <1>4

(* The four steps inside a subtest: the message sent moves the row of the  *)
(* subtest being run, forward, to what the engine knows of it.             *)
LEMMA MeasuringMoves ==
  ASSUME TypeOK, Engine, app \in AppSet, Mirrored, Worker,
         SubtestBegins \/ WarmUp \/ TimedRun \/ SubtestEnds
  PROVE  Mirrored' /\ Seen \in AppSet /\ Forward(Seen, Seen')
         /\ \E m \in Message : chan' = Append(chan, m) /\ app' = app
<1>0. \A i \in Index : \A j \in 1 .. Subtests[selected[i]] : j \in Nat
  OBVIOUS
<1>1. /\ pc \in {"subtest", "measure"} /\ b \in Index /\ s \in Nat /\ s # 0 /\ r \in Nat /\ w \in Nat
      /\ measured \in [Index -> Nat] /\ measured[b] = s - 1 /\ cursor = [bench |-> b, sub |-> s]
      /\ pc = "measure" => s <= Subtests[selected[b]] /\ (r > 0 => w = Warmups)
      /\ Timed \in Nat /\ Timed # 0 /\ Warmups \in Nat
      /\ err = "none" /\ b \notin Skipped
      /\ Index \in SUBSET Nat /\ selected' = selected
      /\ UNCHANGED <<selected, app, ui, answer>>
  BY SessionAssumption
     DEF TypeOK, Engine, Index, Worker, fixed, uiVars, SubtestBegins, WarmUp, TimedRun, SubtestEnds
<1>2. Subtests[selected[b]] \in Nat
  <2>1. selected \in Seq(Bench)
    BY SessionAssumption DEF TypeOK
  <2>2. selected[b] \in Bench
    BY <1>1, <2>1 DEF Index
  <2> QED BY <2>2, SessionAssumption
<1>3. s \in 1 .. Subtests[selected[b]]
  BY <1>1, <1>2 DEF SubtestBegins, WarmUp, TimedRun, SubtestEnds
<1>4. ASSUME NEW t \in {"subStart", "warmup", "run", "subDone"}, NEW k \in Nat, EmitHere(t, k)
      PROVE  \E m \in Message : /\ chan' = Append(chan, m) /\ m.t = t /\ m.bench = b /\ m.sub = s /\ m.run = k
                                /\ Seen \in AppSet /\ Seen' = Apply(Seen, m)
  <2> DEFINE m == Ev(t, b, s, k)
  <2>1. m \in Message /\ m.t = t /\ m.bench = b /\ m.sub = s /\ m.run = k
    <3>1. b \in Nat /\ s \in Nat
      BY <1>1
    <3> QED BY <3>1 DEF Ev, Message, EventType
  <2>2. chan' = Append(chan, m)
    BY <1>1, <1>4 DEF EmitHere
  <2> HIDE DEF m
  <2>3. Seen \in AppSet /\ Seen' = Apply(Seen, m)
    BY <1>1, <2>1, <2>2, SeenSends
  <2> QED BY <2>1, <2>2, <2>3
<1> DEFINE row0 == Seen.rows[b][s]
<1>5. RowOk(row0, b, s) /\ Mirrored
  BY <1>1, <1>3 DEF Mirrored, RowsOk
<1>6. /\ pc = "measure" => row0 = CurrentRow
      /\ pc = "subtest" => row0 = PendingRow
  <2> HIDE DEF row0
  <2>1. s = measured[b] + 1 /\ s > measured[b] /\ ~Stuck(b)
    BY <1>1 DEF Stuck
  <2> QED BY <1>5, <2>1 DEF RowOk
<1>7. DoneRow' = DoneRow /\ PendingRow' = PendingRow
  BY DEF DoneRow, PendingRow
<1>8. ASSUME NEW m \in Message, NEW old, NEW new,
             Seen \in AppSet, Seen' = Apply(Seen, m),
             m.t \in {"subStart", "warmup", "run", "subDone"}, m.bench = b, m.sub = s,
             row0 = old, RowAfter(old, m) = new, Rank(new) >= Rank(old),
             \A i \in Index : \A j \in 1 .. Subtests[selected[i]] : \A row \in Row :
                IF i = b /\ j = s THEN RowOk(new, i, j)'
                                  ELSE RowOk(row, i, j) => RowOk(row, i, j)',
             UNCHANGED <<kept, samples>>, pc' # "soak"
      PROVE  Mirrored' /\ Forward(Seen, Seen')
  <2>1. RowsOk
    BY <1>5 DEF Mirrored
  <2>2. RowsOk' /\ Forward(Seen, Seen')
    BY <1>1, <1>3, <1>8, <2>1, RowMoves
  <2>3. Seen'.done = Seen.done /\ Seen'.soak = Seen.soak
    BY <1>8, ApplyIs
  <2>4. TalliesOk'
    BY <1>5, <1>8, <2>3 DEF Mirrored, TalliesOk
  <2> QED BY <2>2, <2>4 DEF Mirrored
<1>9. CASE SubtestBegins
  <2>1. /\ pc = "subtest" /\ pc' = "measure" /\ r' = 0 /\ EmitHere("subStart", 0)
        /\ UNCHANGED <<b, s, measured, kept, notes, err, samples>>
    BY <1>9 DEF SubtestBegins, outcomes, soakVars
  <2>2. PICK m \in Message : /\ chan' = Append(chan, m) /\ m.t = "subStart" /\ m.bench = b /\ m.sub = s /\ m.run = 0
                             /\ Seen \in AppSet /\ Seen' = Apply(Seen, m)
    BY <1>1, <1>4, <2>1
  <2>3. PICK new : new = [state |-> "warmup", runs |-> 0, timed |-> Timed]
    OBVIOUS
  <2>4. PICK old : old = PendingRow
    OBVIOUS
  <2>5. row0 = old
    BY <1>1, <1>6, <2>1, <2>4 DEF PendingRow
  <2>6. RowAfter(old, m) = new
    BY <1>1, <2>1, <2>2, <2>3, <2>4 DEF RowAfter, PendingRow
  <2>7. Rank(new) >= Rank(old)
    BY <1>1, <2>1, <2>3, <2>4 DEF Rank, PendingRow
  <2>8. CurrentRow' = new
    BY <1>1, <2>1, <2>3 DEF CurrentRow
  <2>9. \A i : Stuck(i)' <=> Stuck(i)
    BY <2>1 DEF Stuck, Skipped
  <2>10. \A i \in Index : \A j \in 1 .. Subtests[selected[i]] : \A row \in Row :
                IF i = b /\ j = s THEN RowOk(new, i, j)'
                                  ELSE RowOk(row, i, j) => RowOk(row, i, j)'
    <3> SUFFICES ASSUME NEW i \in Index, NEW j \in 1 .. Subtests[selected[i]], NEW row \in Row
                 PROVE  IF i = b /\ j = s THEN RowOk(new, i, j)'
                                          ELSE RowOk(row, i, j) => RowOk(row, i, j)'
      OBVIOUS
    <3> j \in Nat /\ i \in Nat
      BY <1>1, <1>0
    <3>1. CASE i = b /\ j = s
      <4>1. ~Stuck(i)
        BY <1>1, <3>1 DEF Stuck
      <4> QED BY <1>1, <2>1, <2>8, <2>9, <3>1, <4>1 DEF RowOk
    <3>2. CASE ~(i = b /\ j = s)
      <4>1. ~(j = measured[i] + 1 /\ i = b)
        BY <1>1, <3>2
      <4> QED BY <1>1, <1>7, <2>1, <2>9, <3>2, <4>1 DEF RowOk
    <3> QED BY <3>1, <3>2
  <2> QED BY <1>1, <1>6, <1>8, <2>1, <2>2, <2>5, <2>6, <2>7, <2>10
<1>10. CASE WarmUp
  <2>1. /\ pc = "measure" /\ pc' = "measure" /\ r' = r /\ r = 0 /\ EmitHere("warmup", 0)
        /\ UNCHANGED <<b, s, measured, kept, notes, err, samples>>
    BY <1>1, <1>10 DEF WarmUp, outcomes, soakVars
  <2>2. PICK m \in Message : /\ chan' = Append(chan, m) /\ m.t = "warmup" /\ m.bench = b /\ m.sub = s /\ m.run = 0
                             /\ Seen \in AppSet /\ Seen' = Apply(Seen, m)
    BY <1>1, <1>4, <2>1
  <2>3. PICK new : new = [state |-> "warmup", runs |-> 0, timed |-> Timed]
    OBVIOUS
  <2>4. PICK old : old = [state |-> "warmup", runs |-> 0, timed |-> Timed]
    OBVIOUS
  <2>5. row0 = old
    BY <1>1, <1>6, <2>1, <2>4 DEF CurrentRow
  <2>6. RowAfter(old, m) = new
    BY <1>1, <2>1, <2>2, <2>3, <2>4 DEF RowAfter, PendingRow
  <2>7. Rank(new) >= Rank(old)
    BY <1>1, <2>1, <2>3, <2>4 DEF Rank, PendingRow
  <2>8. CurrentRow' = new
    BY <1>1, <2>1, <2>3 DEF CurrentRow
  <2>9. \A i : Stuck(i)' <=> Stuck(i)
    BY <2>1 DEF Stuck, Skipped
  <2>10. \A i \in Index : \A j \in 1 .. Subtests[selected[i]] : \A row \in Row :
                IF i = b /\ j = s THEN RowOk(new, i, j)'
                                  ELSE RowOk(row, i, j) => RowOk(row, i, j)'
    <3> SUFFICES ASSUME NEW i \in Index, NEW j \in 1 .. Subtests[selected[i]], NEW row \in Row
                 PROVE  IF i = b /\ j = s THEN RowOk(new, i, j)'
                                          ELSE RowOk(row, i, j) => RowOk(row, i, j)'
      OBVIOUS
    <3> j \in Nat /\ i \in Nat
      BY <1>1, <1>0
    <3>1. CASE i = b /\ j = s
      <4>1. ~Stuck(i)
        BY <1>1, <3>1 DEF Stuck
      <4> QED BY <1>1, <2>1, <2>8, <2>9, <3>1, <4>1 DEF RowOk
    <3>2. CASE ~(i = b /\ j = s)
      <4>1. ~(j = measured[i] + 1 /\ i = b)
        BY <1>1, <3>2
      <4> QED BY <1>1, <1>7, <2>1, <2>9, <3>2, <4>1 DEF RowOk
    <3> QED BY <3>1, <3>2
  <2> QED BY <1>1, <1>6, <1>8, <2>1, <2>2, <2>5, <2>6, <2>7, <2>10
<1>11. CASE TimedRun
  <2>1. /\ pc = "measure" /\ pc' = "measure" /\ r' = r + 1 /\ r < Timed /\ EmitHere("run", r + 1)
        /\ UNCHANGED <<b, s, measured, kept, notes, err, samples>>
    BY <1>11 DEF TimedRun, outcomes, soakVars
  <2>2. PICK m \in Message : /\ chan' = Append(chan, m) /\ m.t = "run" /\ m.bench = b /\ m.sub = s /\ m.run = r + 1
                             /\ Seen \in AppSet /\ Seen' = Apply(Seen, m)
    BY <1>1, <1>4, <2>1
  <2>3. PICK new : new = [state |-> "running", runs |-> r + 1, timed |-> Timed]
    OBVIOUS
  <2>4. PICK old : old = [state |-> IF r > 0 THEN "running" ELSE "warmup", runs |-> r, timed |-> Timed]
    OBVIOUS
  <2>5. row0 = old
    BY <1>1, <1>6, <2>1, <2>4 DEF CurrentRow
  <2>6. RowAfter(old, m) = new
    BY <1>1, <2>1, <2>2, <2>3, <2>4 DEF RowAfter, PendingRow
  <2>7. Rank(new) >= Rank(old)
    BY <1>1, <2>1, <2>3, <2>4 DEF Rank, PendingRow
  <2>8. CurrentRow' = new
    BY <1>1, <2>1, <2>3 DEF CurrentRow
  <2>9. \A i : Stuck(i)' <=> Stuck(i)
    BY <2>1 DEF Stuck, Skipped
  <2>10. \A i \in Index : \A j \in 1 .. Subtests[selected[i]] : \A row \in Row :
                IF i = b /\ j = s THEN RowOk(new, i, j)'
                                  ELSE RowOk(row, i, j) => RowOk(row, i, j)'
    <3> SUFFICES ASSUME NEW i \in Index, NEW j \in 1 .. Subtests[selected[i]], NEW row \in Row
                 PROVE  IF i = b /\ j = s THEN RowOk(new, i, j)'
                                          ELSE RowOk(row, i, j) => RowOk(row, i, j)'
      OBVIOUS
    <3> j \in Nat /\ i \in Nat
      BY <1>1, <1>0
    <3>1. CASE i = b /\ j = s
      <4>1. ~Stuck(i)
        BY <1>1, <3>1 DEF Stuck
      <4> QED BY <1>1, <2>1, <2>8, <2>9, <3>1, <4>1 DEF RowOk
    <3>2. CASE ~(i = b /\ j = s)
      <4>1. ~(j = measured[i] + 1 /\ i = b)
        BY <1>1, <3>2
      <4> QED BY <1>1, <1>7, <2>1, <2>9, <3>2, <4>1 DEF RowOk
    <3> QED BY <3>1, <3>2
  <2> QED BY <1>1, <1>6, <1>8, <2>1, <2>2, <2>5, <2>6, <2>7, <2>10
<1>12. CASE SubtestEnds
  <2>1. /\ pc = "measure" /\ pc' = "subtest" /\ r = Timed /\ EmitHere("subDone", 0)
        /\ measured' = [measured EXCEPT ![b] = @ + 1]
        /\ UNCHANGED <<b, kept, notes, err, samples>>
    BY <1>12 DEF SubtestEnds, outcomes, soakVars
  <2>2. PICK m \in Message : /\ chan' = Append(chan, m) /\ m.t = "subDone" /\ m.bench = b /\ m.sub = s /\ m.run = 0
                             /\ Seen \in AppSet /\ Seen' = Apply(Seen, m)
    BY <1>1, <1>4, <2>1
  <2>3. PICK new : new = [state |-> "done", runs |-> Timed, timed |-> Timed]
    OBVIOUS
  <2>4. PICK old : old = [state |-> "running", runs |-> Timed, timed |-> Timed]
    OBVIOUS
  <2>5. row0 = old
    BY <1>1, <1>6, <2>1, <2>4 DEF CurrentRow
  <2>6. RowAfter(old, m) = new
    BY <1>1, <2>1, <2>2, <2>3, <2>4 DEF RowAfter, PendingRow
  <2>7. Rank(new) >= Rank(old)
    BY <1>1, <2>1, <2>3, <2>4 DEF Rank, PendingRow
  <2>8. DoneRow' = new
    BY <1>1, <2>1, <2>3 DEF DoneRow
  <2>9. \A i : Stuck(i)' <=> Stuck(i)
    BY <2>1 DEF Stuck, Skipped
  <2>10. \A i \in Index : \A j \in 1 .. Subtests[selected[i]] : \A row \in Row :
                IF i = b /\ j = s THEN RowOk(new, i, j)'
                                  ELSE RowOk(row, i, j) => RowOk(row, i, j)'
    <3> SUFFICES ASSUME NEW i \in Index, NEW j \in 1 .. Subtests[selected[i]], NEW row \in Row
                 PROVE  IF i = b /\ j = s THEN RowOk(new, i, j)'
                                          ELSE RowOk(row, i, j) => RowOk(row, i, j)'
      OBVIOUS
    <3> j \in Nat /\ i \in Nat
      BY <1>1, <1>0
    <3>1. CASE i = b /\ j = s
      <4>1. ~Stuck(i)
        BY <1>1, <3>1 DEF Stuck
      <4> QED BY <1>1, <2>1, <2>8, <2>9, <3>1, <4>1 DEF RowOk
    <3>2. CASE ~(i = b /\ j = s)
      <4>1. /\ j <= measured'[i] <=> j <= measured[i]
            /\ j = measured[i] + 1 => i # b
            /\ i # b => measured'[i] = measured[i]
        BY <1>1, <2>1, <3>2
      <4>2. i = b => ~Stuck(i) /\ j # measured[i] + 1
        BY <1>1, <4>1 DEF Stuck
      <4>3. PendingRow.state # "done"
        BY DEF PendingRow
      <4>4. measured'[i] \in Nat /\ measured[i] \in Nat
        BY <1>1, <2>1
      <4> HIDE DEF Stuck, PendingRow
      <4> QED BY <1>1, <1>7, <2>1, <2>9, <3>2, <4>1, <4>2, <4>3, <4>4 DEF RowOk
    <3> QED BY <3>1, <3>2
  <2> QED BY <1>1, <1>6, <1>8, <2>1, <2>2, <2>5, <2>6, <2>7, <2>10
<1>13. \E m \in Message : chan' = Append(chan, m) /\ Seen \in AppSet
  BY <1>1, <1>4 DEF SubtestBegins, WarmUp, TimedRun, SubtestEnds
<1> QED BY <1>1, <1>9, <1>10, <1>11, <1>12, <1>13

(* The worker's other steps move no row; a benchmark that fails half way   *)
(* leaves its row where it stopped.                                        *)
LEMMA OtherStepsMirror ==
  ASSUME TypeOK, Engine, app \in AppSet, Mirrored, Worker,
         \/ BenchBegins \/ AbortNoticed \/ MeasurementFails \/ BenchEnds
         \/ NothingMeasured \/ BenchmarksDone \/ ScoreRefuses \/ Score
         \/ SoakBegins \/ NoSoak \/ SoakTurn \/ SendDone
  PROVE  Mirrored' /\ Seen \in AppSet /\ Forward(Seen, Seen')
         /\ (chan' = chan \/ \E m \in Message : chan' = Append(chan, m)) /\ app' = app
<1>1. /\ UNCHANGED <<selected, app>> /\ b \in Nat /\ cursor.bench \in Nat /\ cursor.sub \in Nat
      /\ pc # "gone" /\ err = "none" /\ samples \in Nat /\ chan \in Seq(Message)
  BY DEF TypeOK, Engine, Worker, fixed, uiVars, BenchBegins, AbortNoticed, MeasurementFails, BenchEnds,
         NothingMeasured, BenchmarksDone, ScoreRefuses, Score, SoakBegins, NoSoak, SoakTurn, SendDone
<1>2. Seen \in AppSet
  BY <1>1, SeenShown, ShownType
<1>3. RowsOk /\ TalliesOk
  BY DEF Mirrored
<1>4. ASSUME UNCHANGED measured, Seen'.rows = Seen.rows, pc' # "measure", TalliesOk',
             \A i \in Index : Stuck(i) \/ (i = b /\ pc = "measure") => Stuck(i)'
      PROVE  Mirrored' /\ Forward(Seen, Seen')
  <2>1. RowsOk'
    BY <1>1, <1>2, <1>3, <1>4, RowsKept
  <2>2. Forward(Seen, Seen')
    BY <1>2, <1>4, ForwardSame
  <2> QED BY <1>4, <2>1, <2>2 DEF Mirrored
<1>5. ASSUME UNCHANGED notes PROVE \A i \in Index : Stuck(i) => Stuck(i)'
  <2>1. Skipped' = Skipped
    BY <1>5 DEF Skipped
  <2> QED BY <1>1, <2>1 DEF Stuck
<1>6. ASSUME NEW t \in {"benchStart", "benchDone", "soakStart", "soakSample"}, NEW i \in Nat, NEW j \in Nat,
             chan' = Append(chan, Ev(t, i, j, 0))
      PROVE  \E m \in Message : /\ chan' = Append(chan, m) /\ m.t = t /\ m.bench = i
                                /\ Seen' = Apply(Seen, m)
  <2>1. PICK m \in Message : m = Ev(t, i, j, 0)
    BY DEF Ev, Message, EventType
  <2>2. m.t = t /\ m.bench = i
    BY <2>1 DEF Ev
  <2> QED BY <1>1, <1>6, <2>1, <2>2, SeenSends
<1>7. ASSUME NEW m \in Message, m.t \in {"done", "failed", "benchStart"}, chan' = Append(chan, m)
      PROVE  Seen'.rows = Seen.rows /\ Seen'.done = Seen.done /\ Seen'.soak = Seen.soak
  <2>1. Seen' = Apply(Seen, m)
    BY <1>1, <1>7, SeenSends
  <2> QED BY <1>2, <1>7, <2>1, ApplyIs
<1>8. ASSUME chan' = chan PROVE Seen' = Seen
  BY <1>1, <1>8, SeenQuiet
<1> USE DEF position, outcomes, soakVars
<1>9. CASE AbortNoticed \/ MeasurementFails
  <2>1. PICK why \in {"aborted", "measurement"} : BenchErrs(why) /\ (pc = "measure" => why = "measurement")
    BY <1>9 DEF AbortNoticed, MeasurementFails
  <2>2. /\ UNCHANGED <<measured, kept, samples>> /\ pc # "soak"
    BY <1>9, <2>1, ErrsNoted DEF AbortNoticed, MeasurementFails
  <2>3. CASE selected[b] \in Ungraded
    <3>1. Skipped' = Skipped \cup {b} /\ pc' = "bench" /\ UNCHANGED <<chan, err>>
      BY <2>1, <2>3, ErrsNoted
    <3>2. \A i \in Index : Stuck(i) \/ (i = b /\ pc = "measure") => Stuck(i)'
      BY <1>1, <3>1 DEF Stuck
    <3>3. TalliesOk'
      BY <1>3, <1>8, <2>2, <3>1 DEF TalliesOk
    <3> QED BY <1>1, <1>2, <1>4, <1>8, <2>2, <3>1, <3>2, <3>3
  <2>4. CASE selected[b] \notin Ungraded
    <3>1. Skipped' = Skipped /\ b' = b /\ pc' = "gone" /\ chan' = Append(chan, Failed(why)) /\ err' = why
      BY <2>1, <2>4, ErrsNoted
    <3>2. \A i \in Index : Stuck(i) \/ (i = b /\ pc = "measure") => Stuck(i)'
      BY <1>1, <2>1, <3>1 DEF Stuck
    <3>3. PICK m \in Message : m = Failed(why) /\ m.t = "failed"
      <4>1. Failed(why) \in Message /\ Failed(why).t = "failed"
        BY DEF Failed, Message
      <4> QED BY <4>1
    <3>4. Seen'.rows = Seen.rows /\ Seen'.done = Seen.done /\ Seen'.soak = Seen.soak
      BY <1>7, <3>1, <3>3
    <3>5. TalliesOk'
      BY <1>3, <2>2, <3>1, <3>4 DEF TalliesOk
    <3> QED BY <1>1, <1>2, <1>4, <2>2, <3>1, <3>2, <3>3, <3>4, <3>5
  <2> QED BY <2>3, <2>4
<1>10. CASE BenchBegins
  <2>1. /\ pc = "bench" /\ pc' = "subtest" /\ chan' = Append(chan, Ev("benchStart", 0, 0, 0))
        /\ UNCHANGED <<measured, kept, notes, samples>>
    BY <1>10 DEF BenchBegins, EmitBenchStart
  <2>2. PICK m \in Message : chan' = Append(chan, m) /\ m.t = "benchStart"
    BY <1>6, <2>1
  <2>3. Seen'.rows = Seen.rows /\ Seen'.done = Seen.done /\ Seen'.soak = Seen.soak
    BY <1>7, <2>2
  <2>4. TalliesOk'
    BY <1>3, <2>1, <2>3 DEF TalliesOk
  <2> QED BY <1>1, <1>2, <1>4, <1>5, <2>1, <2>2, <2>3, <2>4
<1>11. CASE BenchEnds
  <2>1. /\ pc = "subtest" /\ pc' = "bench" /\ chan' = Append(chan, Ev("benchDone", cursor.bench, cursor.sub, 0))
        /\ UNCHANGED <<measured, notes, samples>> /\ kept' = kept \cup {b} /\ cursor.bench = b /\ b \in Index
    BY <1>11 DEF BenchEnds, EmitHere, Engine, TypeOK
  <2>2. PICK m \in Message : chan' = Append(chan, m) /\ m.t = "benchDone" /\ m.bench = b /\ Seen' = Apply(Seen, m)
    BY <1>1, <1>6, <2>1
  <2>3. Seen'.rows = Seen.rows /\ Seen'.done = Seen.done \cup {b} /\ Seen'.soak = Seen.soak
    <3>1. {m.bench} \cap Index = {b}
      BY <2>1, <2>2
    <3> QED BY <1>2, <2>2, <3>1, ApplyIs
  <2>4. TalliesOk'
    BY <1>3, <2>1, <2>3 DEF TalliesOk
  <2> QED BY <1>1, <1>2, <1>4, <1>5, <2>1, <2>2, <2>3, <2>4
<1>12. CASE NothingMeasured \/ ScoreRefuses
  <2>1. /\ pc \in {"bench", "score"} /\ pc' = "gone"
        /\ UNCHANGED <<measured, kept, notes, samples>>
    BY <1>12 DEF NothingMeasured, ScoreRefuses
  <2>2. PICK m \in Message : chan' = Append(chan, m) /\ m.t = "failed"
    BY <1>12 DEF NothingMeasured, ScoreRefuses, Failed, Message
  <2>3. Seen'.rows = Seen.rows /\ Seen'.done = Seen.done /\ Seen'.soak = Seen.soak
    BY <1>7, <2>2
  <2>4. TalliesOk'
    BY <1>3, <2>1, <2>3 DEF TalliesOk
  <2> QED BY <1>1, <1>2, <1>4, <1>5, <2>1, <2>2, <2>3, <2>4
<1>13. CASE BenchmarksDone \/ Score \/ NoSoak
  <2>1. /\ pc \in {"bench", "score", "scored"} /\ pc' \in {"score", "scored", "send"} /\ chan' = chan
        /\ UNCHANGED <<measured, kept, notes, samples>>
    BY <1>13 DEF BenchmarksDone, Score, NoSoak
  <2>2. TalliesOk'
    BY <1>3, <1>8, <2>1 DEF TalliesOk
  <2> QED BY <1>1, <1>2, <1>4, <1>5, <1>8, <2>1, <2>2
<1>14. CASE SoakBegins
  <2>1. /\ pc = "scored" /\ pc' = "soak" /\ chan' = Append(chan, Ev("soakStart", 0, 0, 0))
        /\ UNCHANGED <<measured, kept, notes, samples>> /\ samples = 0
    BY <1>14 DEF SoakBegins, Engine
  <2>2. PICK m \in Message : chan' = Append(chan, m) /\ m.t = "soakStart" /\ Seen' = Apply(Seen, m)
    BY <1>6, <2>1
  <2>3. Seen'.rows = Seen.rows /\ Seen'.done = Seen.done /\ Seen'.soak = <<0>>
    BY <1>2, <2>2, ApplyIs
  <2>4. TalliesOk'
    BY <1>3, <2>1, <2>3 DEF TalliesOk
  <2> QED BY <1>1, <1>2, <1>4, <1>5, <2>1, <2>2, <2>3, <2>4
<1>15. CASE SoakTurn
  <2>1. /\ pc = "soak" /\ pc' \in {"soak", "send"}
        /\ UNCHANGED <<measured, kept, notes>>
        /\ \/ samples' = samples /\ chan' = chan
           \/ samples' = samples + 1 /\ chan' = Append(chan, Ev("soakSample", 0, 0, 0))
    BY <1>15 DEF SoakTurn
  <2>2. Seen.soak = <<samples>>
    BY <1>3, <2>1 DEF TalliesOk
  <2>3. CASE samples' = samples /\ chan' = chan
    <3>1. TalliesOk'
      BY <1>3, <1>8, <2>1, <2>2, <2>3 DEF TalliesOk
    <3> QED BY <1>1, <1>2, <1>4, <1>5, <1>8, <2>1, <2>3, <3>1
  <2>4. CASE samples' = samples + 1 /\ chan' = Append(chan, Ev("soakSample", 0, 0, 0))
    <3>1. PICK m \in Message : chan' = Append(chan, m) /\ m.t = "soakSample" /\ Seen' = Apply(Seen, m)
      BY <1>6, <2>4
    <3>2. Seen.soak # <<>> /\ Seen.soak[1] = samples
      BY <2>2
    <3>3. Seen'.rows = Seen.rows /\ Seen'.done = Seen.done /\ Seen'.soak = <<samples + 1>>
      BY <1>2, <3>1, <3>2, ApplyIs
    <3>4. TalliesOk'
      BY <1>3, <2>1, <2>4, <3>3 DEF TalliesOk
    <3> QED BY <1>1, <1>2, <1>4, <1>5, <2>1, <3>1, <3>3, <3>4
  <2> QED BY <2>1, <2>3, <2>4
<1>16. CASE SendDone
  <2>1. /\ pc = "send" /\ pc' = "gone" /\ chan' = Append(chan, Done(Result(samples >= 3)))
        /\ UNCHANGED <<measured, kept, notes, samples>>
    BY <1>16 DEF SendDone
  <2>2. PICK m \in Message : chan' = Append(chan, m) /\ m.t = "done"
    <3>1. kept \subseteq Nat
      BY SessionAssumption DEF TypeOK, Index
    <3>2. Result(samples >= 3) \in ResultType
      BY <3>1 DEF Result, ResultType, TypeOK
    <3> QED BY <2>1, <3>2 DEF Done, Message
  <2>3. Seen'.rows = Seen.rows /\ Seen'.done = Seen.done /\ Seen'.soak = Seen.soak
    BY <1>7, <2>2
  <2>4. TalliesOk'
    BY <1>3, <2>1, <2>3 DEF TalliesOk
  <2> QED BY <1>1, <1>2, <1>4, <1>5, <2>1, <2>2, <2>3, <2>4
<1> QED BY <1>9, <1>10, <1>11, <1>12, <1>13, <1>14, <1>15, <1>16

(* Every message still in the channel moves the rows forward.              *)
Steadily ==
  \A tr : Trace(tr, app, chan) => \A k \in 1 .. Len(chan) : Forward(tr[k - 1], tr[k])

MirrorInv == Engine /\ Mirrored /\ Steadily /\ app \in AppSet

(* Every step of the worker keeps the mirror.                              *)
LEMMA WorkerMirrors ==
  ASSUME TypeOK, MirrorInv, Worker
  PROVE  Mirrored' /\ Steadily'
<1>1. /\ Mirrored' /\ Seen \in AppSet /\ Forward(Seen, Seen')
      /\ (chan' = chan \/ \E m \in Message : chan' = Append(chan, m)) /\ app' = app
  <2>1. CASE SubtestBegins \/ WarmUp \/ TimedRun \/ SubtestEnds
    BY <2>1, MeasuringMoves DEF MirrorInv
  <2>2. CASE ~(SubtestBegins \/ WarmUp \/ TimedRun \/ SubtestEnds)
    BY <2>2, OtherStepsMirror DEF MirrorInv, Worker
  <2> QED BY <2>1, <2>2
<1>2. selected' = selected /\ chan \in Seq(Message)
  BY DEF Worker, fixed, TypeOK
<1>3. \A a1, a2 : Forward(a1, a2)' <=> Forward(a1, a2)
  BY <1>2 DEF Forward, Index
<1>4. Steadily'
  <2> SUFFICES ASSUME NEW tr, Trace(tr, app', chan'), NEW k \in 1 .. Len(chan')
               PROVE  Forward(tr[k - 1], tr[k])
    BY <1>3 DEF Steadily
  <2>1. CASE chan' = chan
    BY <1>1, <2>1 DEF MirrorInv, Steadily
  <2>2. CASE chan' # chan
    <3>1. PICK m \in Message : chan' = Append(chan, m)
      BY <1>1, <2>2
    <3>2. Trace(tr, app, chan) /\ tr[Len(chan) + 1] = Apply(tr[Len(chan)], m)
      BY <1>1, <1>2, <3>1, TraceAppend
    <3>3. Seen' = Apply(Seen, m) /\ app \in AppSet
      BY <1>1, <3>1, SeenSends DEF MirrorInv
    <3>4. tr[Len(chan)] = Seen
      <4>1. Shown(app, chan) = tr[Len(chan)]
        BY <1>2, <3>2, <3>3, ShownEnd
      <4> QED BY <4>1, SeenShown
    <3>5. Forward(tr[Len(chan)], tr[Len(chan) + 1])
      BY <1>1, <3>2, <3>3, <3>4
    <3>6. k \in 1 .. Len(chan) \/ k = Len(chan) + 1
      BY <1>2, <3>1
    <3>7. CASE k \in 1 .. Len(chan)
      BY <3>2, <3>7 DEF MirrorInv, Steadily
    <3>8. CASE k = Len(chan) + 1
      <4>1. k - 1 = Len(chan)
        BY <1>2, <3>8
      <4> QED BY <3>5, <3>8, <4>1
    <3> QED BY <3>6, <3>7, <3>8
  <2> QED BY <2>1, <2>2
<1> QED BY <1>1, <1>4

(* A step of the screen receives the oldest message or leaves rows, marks  *)
(* and soak gauge alone.                                                   *)
LEMMA ScreenShows ==
  ASSUME app \in AppSet, Screen
  PROVE  \/ chan # <<>> /\ app' = Apply(app, Head(chan)) /\ chan' = Tail(chan)
         \/ Alike(app, app') /\ chan' = chan
<1>1. ASSUME Resolve \/ Cancel PROVE Alike(app, app')
  BY <1>1 DEF Resolve, Cancel, AppSet, Alike
<1>2. CASE Receive
  BY <1>2 DEF Receive
<1>3. CASE ~Receive
  <2>1. (app' = app \/ Resolve \/ Cancel) /\ chan' = chan
    BY <1>3 DEF Screen, Draw, Drained, NoKey, Quit, CtrlC, Enter, TerminalFails, Join
  <2> QED BY <1>1, <2>1 DEF Alike
<1> QED BY <1>2, <1>3

(* Going forward is a matter of the rows alone.                            *)
LEMMA ForwardAlike ==
  ASSUME NEW a1, NEW a2, NEW c1, NEW c2, Alike(a1, c1), Alike(a2, c2), Forward(a1, a2)
  PROVE  Forward(c1, c2)
BY DEF Alike, Forward

(* Every step of the screen keeps the mirror, and no row on the screen     *)
(* goes back.                                                              *)
LEMMA ScreenMirrors ==
  ASSUME TypeOK, MirrorInv, Screen
  PROVE  Mirrored' /\ Steadily' /\ Forward(app, app')
<1>1. /\ UNCHANGED <<selected, pc, b, s, w, r, measured, kept, notes, err, samples>>
      /\ chan \in Seq(Message) /\ app \in AppSet
  BY DEF Screen, fixed, workVars, position, outcomes, soakVars, TypeOK, MirrorInv
<1>2. app' \in AppSet
  <2>1. (app \in AppSet)'
    BY AppKept DEF MirrorInv, Next
  <2>2. AppSet' = AppSet
    BY <1>1 DEF AppSet, Index
  <2> QED BY <2>1, <2>2
<1>3. \A a1, a2 : Forward(a1, a2)' <=> Forward(a1, a2)
  BY <1>1 DEF Forward, Index
<1>4. ASSUME Alike(Seen, Seen')
      PROVE  Mirrored'
  <2>1. /\ Index' = Index /\ (\A i : Stuck(i)' <=> Stuck(i))
        /\ DoneRow' = DoneRow /\ PendingRow' = PendingRow /\ CurrentRow' = CurrentRow
    BY <1>1 DEF Index, Stuck, Skipped, DoneRow, PendingRow, CurrentRow
  <2>2. \A row, i, j : RowOk(row, i, j) => RowOk(row, i, j)'
    BY <1>1, <2>1 DEF RowOk
  <2>3. RowsOk'
    <3> SUFFICES ASSUME NEW i \in Index, NEW j \in 1 .. Subtests[selected[i]]
                 PROVE  RowOk(Seen.rows[i][j], i, j)'
      BY <1>1, <2>1 DEF RowsOk
    <3>1. PICK row : row = Seen.rows[i][j]
      OBVIOUS
    <3>2. RowOk(row, i, j) /\ (Seen.rows[i][j])' = row
      BY <1>4, <3>1 DEF MirrorInv, Mirrored, RowsOk, Alike
    <3>3. RowOk(row, i, j)'
      BY <2>2, <3>2
    <3> QED BY <3>2, <3>3 DEF RowOk
  <2>4. TalliesOk'
    BY <1>1, <1>4 DEF MirrorInv, Mirrored, TalliesOk, Alike
  <2> QED BY <2>3, <2>4 DEF Mirrored
<1>5. CASE chan # <<>> /\ app' = Apply(app, Head(chan)) /\ chan' = Tail(chan)
  <2>1. Seen' = Seen
    BY <1>1, <1>5, ShownTail, SeenShown, SeenShownNext
  <2>2. Mirrored'
    BY <1>4, <2>1 DEF Alike
  <2>3. ASSUME NEW tr, Trace(tr, app', chan')
        PROVE  (\A k \in 1 .. Len(chan') : Forward(tr[k - 1], tr[k])) /\ Forward(app, app')
    <3> DEFINE tt == [k \in 0 .. Len(chan) |-> IF k = 0 THEN app ELSE tr[k - 1]]
    <3>1. Trace(tt, app, chan)
      BY <1>1, <1>5, <2>3, TraceTail
    <3>2. Len(chan') = Len(chan) - 1 /\ Len(chan) \in Nat /\ Len(chan) >= 1
      BY <1>1, <1>5
    <3>3. tt[0] = app /\ \A k \in 0 .. Len(chan') : tt[k + 1] = tr[k]
      <4>1. \A k \in 0 .. Len(chan') : k + 1 \in 0 .. Len(chan) /\ k + 1 # 0 /\ (k + 1) - 1 = k
        BY <3>2
      <4> QED BY <3>2, <4>1
    <3> HIDE DEF tt
    <3>4. \A k \in 1 .. Len(chan) : Forward(tt[k - 1], tt[k])
      BY <3>1 DEF MirrorInv, Steadily
    <3>5. ASSUME NEW k \in 1 .. Len(chan') PROVE Forward(tr[k - 1], tr[k])
      <4>1. k + 1 \in 1 .. Len(chan) /\ (k + 1) - 1 = (k - 1) + 1 /\ k - 1 \in 0 .. Len(chan') /\ k \in 0 .. Len(chan')
        BY <3>2
      <4>2. Forward(tt[(k + 1) - 1], tt[k + 1])
        BY <3>4, <4>1
      <4> QED BY <3>3, <4>1, <4>2
    <3>6. Forward(app, app')
      <4>1. tr[0] = app'
        BY <2>3 DEF Trace
      <4>2. 1 \in 1 .. Len(chan) /\ 1 - 1 = 0 /\ 0 \in 0 .. Len(chan') /\ 0 + 1 = 1
        BY <3>2
      <4>3. Forward(tt[1 - 1], tt[1])
        BY <3>4, <4>2
      <4> QED BY <3>3, <4>1, <4>2, <4>3
    <3> QED BY <3>5, <3>6
  <2>4. Steadily'
    BY <1>3, <2>3 DEF Steadily
  <2>5. Forward(app, app')
    <3>1. chan' \in Seq(Message)
      BY <1>1, <1>5
    <3>2. \E tr : Trace(tr, app', chan')
      BY <1>2, <3>1, ShownIs
    <3> QED BY <2>3, <3>2
  <2> QED BY <2>2, <2>4, <2>5
<1>6. CASE Alike(app, app') /\ chan' = chan
  <2>1. Alike(Shown(app, chan), Shown(app', chan))
    BY <1>1, <1>2, <1>6, ShownAlike
  <2>2. Mirrored'
    BY <1>4, <1>6, <2>1, SeenShown, SeenShownNext
  <2>3. Steadily'
    <3> SUFFICES ASSUME NEW tr, Trace(tr, app', chan'), NEW k \in 1 .. Len(chan')
                 PROVE  Forward(tr[k - 1], tr[k])
      BY <1>3 DEF Steadily
    <3>1. PICK tt : Trace(tt, app, chan)
      BY <1>1, ShownIs
    <3>2. Forward(tt[k - 1], tt[k])
      BY <1>6, <3>1 DEF MirrorInv, Steadily
    <3>3. Alike(tt[k - 1], tr[k - 1]) /\ Alike(tt[k], tr[k])
      <4>1. k - 1 \in 0 .. Len(chan) /\ k \in 0 .. Len(chan)
        BY <1>1, <1>6
      <4>2. \A j \in 0 .. Len(chan) : Alike(tt[j], tr[j])
        BY <1>1, <1>2, <1>6, <3>1, TraceAlike
      <4> QED BY <4>1, <4>2
    <3> QED BY <3>2, <3>3, ForwardAlike
  <2>4. Forward(app, app')
    BY <1>1, <1>6, ForwardSame DEF Alike
  <2> QED BY <2>2, <2>3, <2>4
<1> QED BY <1>1, <1>5, <1>6, ScreenShows

(* The mirror is kept by every step, and no row on the screen goes back.   *)
LEMMA MirrorInductive ==
  TypeOK /\ MirrorInv /\ [Next]_vars => MirrorInv' /\ (\A i \in Index : \A j \in DOMAIN app.rows[i] :
       Rank(app'.rows[i][j]) >= Rank(app.rows[i][j]))
<1> SUFFICES ASSUME TypeOK, MirrorInv, [Next]_vars
             PROVE  MirrorInv' /\ (\A i \in Index : \A j \in DOMAIN app.rows[i] :
       Rank(app'.rows[i][j]) >= Rank(app.rows[i][j]))
  OBVIOUS
<1>1. Engine' /\ (app \in AppSet)'
  BY EngineInductive, AppKept DEF MirrorInv
<1>2. \A i \in Index : DOMAIN app.rows[i] = 1 .. Subtests[selected[i]]
  BY DEF MirrorInv, AppSet
<1>3. Mirrored' /\ Steadily' /\ Forward(app, app')
  <2>1. CASE Screen
    BY <2>1, ScreenMirrors
  <2>2. CASE Worker
    <3>1. app' = app
      BY <2>2 DEF Worker, uiVars
    <3>2. Forward(app, app')
      BY <3>1, ForwardSame DEF MirrorInv
    <3> QED BY <2>2, <3>2, WorkerMirrors
  <2>3. CASE UNCHANGED vars
    <3>1. UNCHANGED <<selected, pc, b, s, w, r, measured, kept, notes, err, samples, app, chan>>
      BY <2>3 DEF vars, fixed, workVars, position, outcomes, soakVars, uiVars
    <3>2. Mirrored'
      <4>1. Seen' = Seen
        BY <3>1, SeenQuiet
      <4> HIDE DEF Seen
      <4> QED BY <3>1, <4>1 DEF MirrorInv, Mirrored, RowsOk, TalliesOk, RowOk, Index, Stuck, Skipped,
                            DoneRow, PendingRow, CurrentRow
    <3>3. Steadily'
      BY <3>1 DEF MirrorInv, Steadily, Forward, Index
    <3>4. Forward(app, app')
      BY <3>1, ForwardSame DEF MirrorInv
    <3> QED BY <3>2, <3>3, <3>4
  <2> QED BY <2>1, <2>2, <2>3 DEF Next
<1>4. MirrorInv'
  BY <1>1, <1>3 DEF MirrorInv
<1> QED BY <1>2, <1>3, <1>4 DEF Forward

(* The mirror holds to begin with: every row is pending.                   *)
LEMMA MirrorStarts == Init => MirrorInv
<1> SUFFICES ASSUME Init PROVE MirrorInv
  OBVIOUS
<1>1. Engine /\ app \in AppSet
  BY EngineInit, AppStarts
<1>2. /\ chan = <<>> /\ kept = {} /\ samples = 0 /\ pc = "bench" /\ notes = {} /\ err = "none"
      /\ measured = [i \in Index |-> 0] /\ app.done = {}
      /\ app.rows = [i \in Index |-> [j \in 1 .. Subtests[selected[i]] |-> PendingRow]]
  BY DEF Init
<1>3. Seen = app
  BY <1>1, <1>2, SeenShown, ShownNone
<1>4. RowsOk
  <2> SUFFICES ASSUME NEW i \in Index, NEW j \in 1 .. Subtests[selected[i]]
               PROVE  RowOk(app.rows[i][j], i, j)
    BY <1>3 DEF RowsOk
  <2>1. app.rows[i][j] = PendingRow
    BY <1>2
  <2>2. PendingRow.state # "done"
    BY DEF PendingRow
  <2>3. measured[i] = 0 /\ ~(j <= 0)
    BY <1>2
  <2> HIDE DEF PendingRow
  <2> QED BY <1>2, <2>1, <2>2, <2>3 DEF RowOk
<1>5. TalliesOk
  BY <1>2, <1>3 DEF TalliesOk
<1>6. Steadily
  <2>1. \A k \in 1 .. Len(chan) : FALSE
    BY <1>2
  <2> QED BY <2>1 DEF Steadily
<1> QED BY <1>1, <1>4, <1>5, <1>6 DEF MirrorInv, Mirrored

(* The mirror holds in every reachable state.                              *)
LEMMA MirrorInvariant == Spec => []MirrorInv
<1>1. TypeOK /\ MirrorInv /\ [Next]_vars => MirrorInv'
  BY MirrorInductive
<1> QED BY <1>1, MirrorStarts, SessionTypeOK, PTL DEF Spec

(* Once the messages in the channel are applied the screen shows what the  *)
(* engine did, for any selection of benchmarks and any interleaving of the *)
(* two threads (ChannelProgress::on_event, App::apply_ev).                 *)
THEOREM SessionMirrorConverges == Spec => []MirrorConverges
<1>1. TypeOK /\ MirrorInv => MirrorConverges
  <2> SUFFICES ASSUME TypeOK, MirrorInv PROVE MirrorConverges
    OBVIOUS
  <2>1. Seen.done = kept /\ (samples > 0 => Seen.soak = <<samples>>)
    BY DEF MirrorInv, Mirrored, TalliesOk
  <2>2. ASSUME NEW i \in Index, NEW j \in 1 .. Subtests[selected[i]], NEW row, row = Seen.rows[i][j]
        PROVE  CASE j <= measured[i] -> row = DoneRow
             [] j = measured[i] + 1 /\ pc = "measure" /\ i = b -> row = CurrentRow
             [] j = measured[i] + 1 /\ Stuck(i) -> row.state # "done"
             [] OTHER -> row = PendingRow
    <3>1. RowOk(row, i, j)
      BY <2>2 DEF MirrorInv, Mirrored, RowsOk
    <3>2. measured[i] \in Nat /\ j \in Nat
      BY DEF TypeOK
    <3>3. pc = "measure" /\ i = b => ~Stuck(i)
      BY DEF MirrorInv, Engine, Stuck, TypeOK
    <3>4. CASE j <= measured[i]
      <4>1. row = DoneRow /\ j # measured[i] + 1
        BY <3>1, <3>2, <3>4 DEF RowOk
      <4> QED BY <3>4, <4>1
    <3>5. CASE j = measured[i] + 1 /\ pc = "measure" /\ i = b
      <4>1. row = CurrentRow /\ ~(j <= measured[i]) /\ ~Stuck(i)
        BY <3>1, <3>2, <3>3, <3>5 DEF RowOk
      <4> QED BY <3>5, <4>1
    <3>6. CASE j = measured[i] + 1 /\ Stuck(i)
      <4>1. row.state # "done" /\ ~(j <= measured[i]) /\ ~(pc = "measure" /\ i = b)
        BY <3>1, <3>2, <3>3, <3>6 DEF RowOk
      <4> QED BY <3>6, <4>1
    <3>7. CASE /\ ~(j <= measured[i]) /\ ~(j = measured[i] + 1 /\ pc = "measure" /\ i = b)
               /\ ~(j = measured[i] + 1 /\ Stuck(i))
      <4>1. row = PendingRow
        BY <3>1, <3>2, <3>7 DEF RowOk
      <4> QED BY <3>7, <4>1
    <3> QED BY <3>4, <3>5, <3>6, <3>7
  <2> QED BY <2>1, <2>2 DEF MirrorConverges
<1> QED BY <1>1, SessionTypeOK, MirrorInvariant, PTL

(* No row of the screen ever goes back, whatever is still in the channel   *)
(* (App::apply_ev, the progress bar of the view).                          *)
THEOREM SessionProgressNeverRetreats == Spec => ProgressNeverRetreats
<1>1. TypeOK /\ MirrorInv /\ [Next]_vars =>
        [\A i \in Index : \A j \in DOMAIN app.rows[i] :
           Rank(app'.rows[i][j]) >= Rank(app.rows[i][j])]_vars
  BY MirrorInductive
<1> QED BY <1>1, SessionTypeOK, MirrorInvariant, PTL DEF Spec, ProgressNeverRetreats

=============================================================================
