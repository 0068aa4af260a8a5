--------------------------- MODULE ScratchProofs ---------------------------
(***************************************************************************)
(* Scratch's properties for any number of processes that share a directory.*)
(***************************************************************************)
EXTENDS Scratch, TLAPS

LEMMA ScratchTypeStep == TypeOK /\ [Next]_vars => TypeOK'
<1> SUFFICES ASSUME TypeOK, [Next]_vars PROVE TypeOK'
  OBVIOUS
<1> USE ScratchAssumption DEF TypeOK
<1>1. CASE UNCHANGED vars
  BY <1>1 DEF vars
<1>2. CASE Tick
  BY <1>2 DEF Tick, sweepVars
<1>3. ASSUME NEW p \in Pid, Run(p) PROVE TypeOK'
  <2>1. CASE Begin(p)
    BY <2>1 DEF Begin, Goto, sweepVars
  <2>2. CASE Sweep(p)
    <3>1. CASE ListDirectory(p)
      BY <3>1 DEF ListDirectory, Goto
    <3>2. CASE ListFails(p)
      BY <3>2 DEF ListFails, Goto
    <3>3. ASSUME NEW q \in Pid, LookAt(p, q) PROVE TypeOK'
      BY <3>3 DEF LookAt
    <3>4. ASSUME NEW q \in Pid, LookFails(p, q) PROVE TypeOK'
      BY <3>4 DEF LookFails
    <3>5. CASE Remove(p)
      <4>1. Absent \in [body : {"absent", "part", "full"}, mtime : 0 .. Horizon]
        BY DEF Absent
      <4>2. QED
        BY <3>5, <4>1 DEF Remove
    <3>6. CASE RemoveFails(p)
      <4>1. target[p] \in Pid
        BY <3>6 DEF RemoveFails
      <4>2. QED
        BY <3>6, <4>1 DEF RemoveFails
    <3>7. QED
      BY <2>2, <3>1, <3>2, <3>3, <3>4, <3>5, <3>6 DEF Sweep
  <2>3. ASSUME NEW body \in {"part", "full"}, Touch(p, body)
        PROVE  file' \in [Pid -> [body : {"absent", "part", "full"}, mtime : 0 .. Horizon]]
    BY <2>3 DEF Touch
  <2>4. ASSUME NEW body \in {"part", "full"}, Write(p, body)
        PROVE  file' \in [Pid -> [body : {"absent", "part", "full"}, mtime : 0 .. Horizon]]
    BY <2>3, <2>4 DEF Write
  <2>5. ASSUME Swept(p)
        PROVE  /\ UNCHANGED <<todo, target>>
               /\ since' \in [Pid -> 0 .. Horizon]
               /\ refused' \in [Pid -> SUBSET Pid]
    BY <2>5 DEF Swept, Forget
  <2>6. CASE CreateFile(p)
    BY <2>3, <2>5, <2>6 DEF CreateFile, Goto
  <2>7. CASE CreateFails(p)
    BY <2>5, <2>7 DEF CreateFails, End
  <2>8. CASE Filled(p) \/ FillFails(p) \/ WriteAndClose(p)
    <3>1. file' \in [Pid -> [body : {"absent", "part", "full"}, mtime : 0 .. Horizon]]
      BY <2>4, <2>8 DEF Filled, FillFails, WriteAndClose
    <3>2. /\ pc' \in [Pid -> {"none", "first", "sweep", "fill", "have", "read", "write", "done"}]
          /\ ended' \in [Pid -> {"never", "unfilled", "dropped", "undeleted", "killed"}]
          /\ UNCHANGED <<clock, todo, target, since, refused, heir>>
      BY <2>8 DEF Filled, FillFails, WriteAndClose, Goto, End, sweepVars
    <3>3. QED
      BY <3>1, <3>2
  <2>9. CASE OpenForRead(p) \/ OpenForWrite(p) \/ CloseRead(p) \/ DiskDone(p)
    BY <2>9 DEF OpenForRead, OpenForWrite, CloseRead, DiskDone, Goto, sweepVars
  <2>10. CASE DropFails(p)
    BY <2>10 DEF DropFails, End, sweepVars
  <2>11. CASE Drop(p)
    <3>1. Absent \in [body : {"absent", "part", "full"}, mtime : 0 .. Horizon]
      BY DEF Absent
    <3>2. QED
      BY <2>11, <3>1 DEF Drop, End, sweepVars
  <2>12. CASE Killed(p)
    BY <2>12 DEF Killed, End, Forget
  <2>13. QED
    BY <1>3, <2>1, <2>2, <2>6, <2>7, <2>8, <2>9, <2>10, <2>11, <2>12 DEF Run
<1>4. QED
  BY <1>1, <1>2, <1>3 DEF Next

(* The variables keep their shapes: times within the horizon, one state    *)
(* per pid.                                                                *)
THEOREM ScratchTypeOK == Spec => []TypeOK
<1>1. Init => TypeOK
  BY ScratchAssumption DEF Init, TypeOK, Absent
<1>2. QED
  BY <1>1, ScratchTypeStep, PTL DEF Spec

-----------------------------------------------------------------------------

(* A run that has filled its file keeps it whole, or finds it gone.        *)
Whole ==
  \A p \in Pid : pc[p] \in {"have", "read", "write", "done"} /\ There(p) => file[p].body = "full"

LEMMA LeftoversStep ==
  TypeOK /\ LeftoversExplained /\ Whole /\ [Next]_vars => LeftoversExplained' /\ Whole'
<1> DEFINE Explained(q) ==
             There(q) /\ pc[q] = "none" =>
               /\ ended[q] \in {"killed", "unfilled", "undeleted"}
               /\ file[q].body = "part" => ended[q] # "undeleted"
           WholeOf(q) ==
             pc[q] \in {"have", "read", "write", "done"} /\ There(q) => file[q].body = "full"
           Goal(q) == Explained(q)' /\ WholeOf(q)'
<1> SUFFICES ASSUME TypeOK, LeftoversExplained, Whole, [Next]_vars, NEW q \in Pid PROVE Goal(q)
  <2>1. (\A q \in Pid : Explained(q)') => LeftoversExplained'
    BY DEF LeftoversExplained
  <2>2. (\A q \in Pid : WholeOf(q)') => Whole'
    BY DEF Whole
  <2>3. QED
    BY <2>1, <2>2
<1> USE DEF TypeOK, LeftoversExplained, Whole, There
<1>1. CASE UNCHANGED vars
  BY <1>1 DEF vars
<1>2. CASE Tick
  BY <1>2 DEF Tick
<1>3. ASSUME NEW p \in Pid, Run(p) PROVE Goal(q)
  <2>1. CASE Begin(p) \/ OpenForRead(p) \/ OpenForWrite(p) \/ CloseRead(p) \/ DiskDone(p)
    <3>1. UNCHANGED <<file, ended>> /\ pc' = [pc EXCEPT ![p] = pc'[p]]
      BY <2>1 DEF Begin, OpenForRead, OpenForWrite, CloseRead, DiskDone, Goto
    <3>2. pc'[p] # "none" /\ (pc[p] = "none" => pc'[p] = "first")
      BY <2>1 DEF Begin, OpenForRead, OpenForWrite, CloseRead, DiskDone, Goto
    <3>3. pc[p] \in {"none", "have", "read"}
      BY <2>1 DEF Begin, OpenForRead, OpenForWrite, CloseRead, DiskDone
    <3>4. QED
      BY <3>1, <3>2, <3>3
  <2>2. CASE Sweep(p)
    <3>1. /\ UNCHANGED ended /\ (There(q)' => There(q) /\ file'[q] = file[q])
          /\ pc' = pc \/ pc' = [pc EXCEPT ![p] = "sweep"]
      BY <2>2 DEF Sweep, ListDirectory, ListFails, Remove, RemoveFails, LookAt, LookFails,
                  Goto, Absent
    <3>2. QED
      BY <3>1
  <2>3. CASE CreateFile(p)
    BY <2>3 DEF CreateFile, Goto, Touch
  <2>4. CASE CreateFails(p)
    BY <2>4 DEF CreateFails, End
  <2>5. CASE Filled(p) \/ WriteAndClose(p)
    BY <2>5 DEF Filled, WriteAndClose, Goto, Write, Touch
  <2>6. CASE FillFails(p)
    BY <2>6 DEF FillFails, End, Write, Touch
  <2>7. CASE Drop(p)
    BY <2>7 DEF Drop, End, Absent
  <2>8. CASE DropFails(p)
    BY <2>8 DEF DropFails, Ends, End
  <2>9. CASE Killed(p)
    BY <2>9 DEF Killed, End
  <2>10. QED
    BY <1>3, <2>1, <2>2, <2>3, <2>4, <2>5, <2>6, <2>7, <2>8, <2>9 DEF Run
<1>4. QED
  BY <1>1, <1>2, <1>3 DEF Next

(* A scratch file outlives its run only if the run was killed, could not   *)
(* fill it or was not allowed to remove it; a half-written one, only if it *)
(* was killed or could not fill it.                                        *)
THEOREM ScratchLeftoversExplained == Spec => []LeftoversExplained
<1>1. Init => LeftoversExplained /\ Whole
  BY ScratchAssumption DEF Init, LeftoversExplained, Whole, There, Absent
<1>2. QED
  BY <1>1, LeftoversStep, ScratchTypeOK, PTL DEF Spec

-----------------------------------------------------------------------------
(* A live benchmark's file.  No sweep has its eye on a process that did    *)
(* not inherit a file: before the process creates its own there is nothing *)
(* to see, and afterwards the file is too young.                           *)

Unwatched(p) == \A q \in Pid : target[q] # p
Young(p) ==
  /\ pc[p] \in {"first", "sweep"} => ~There(p) /\ Unwatched(p)
  /\ Busy(p) => /\ There(p) /\ Unwatched(p)
                /\ pc[p] # "fill" => file[p].body = "full"
                /\ clock - file[p].mtime <= Silence
AllYoung == \A p \in Pid : ~heir[p] => Young(p)

LEMMA YoungStep ==
  Silence < StaleAfter /\ TypeOK /\ AllYoung /\ [Next]_vars => AllYoung'
<1> SUFFICES ASSUME Silence < StaleAfter, TypeOK, AllYoung, [Next]_vars,
                    NEW q \in Pid, ~heir'[q]
             PROVE  Young(q)'
  BY DEF AllYoung
<1> USE ScratchAssumption DEF TypeOK, There, Busy
<1>1. CASE UNCHANGED vars
  BY <1>1 DEF vars, AllYoung, Young, Unwatched
<1>2. CASE Tick
  BY <1>2 DEF Tick, sweepVars, AllYoung, Young, Unwatched
<1>3. ASSUME NEW p \in Pid, Run(p) PROVE Young(q)'
  <2>1. CASE Begin(p)
    <3>1. /\ pc[p] = "none" /\ pc' = [pc EXCEPT ![p] = "first"]
          /\ heir' = [heir EXCEPT ![p] = There(p) \/ \E q1 \in Pid : target[q1] = p]
          /\ UNCHANGED <<clock, file, target>>
      BY <2>1 DEF Begin, Goto, sweepVars
    <3>2. CASE q = p
      BY <3>1, <3>2 DEF Young, Unwatched
    <3>3. CASE q # p
      BY <3>1, <3>3 DEF AllYoung, Young, Unwatched
    <3>4. QED
      BY <3>2, <3>3
  <2>2. CASE ListDirectory(p) \/ ListFails(p)
    <3>1. /\ pc[p] = "first" /\ pc' = [pc EXCEPT ![p] = "sweep"]
          /\ UNCHANGED <<clock, file, target, heir>>
      BY <2>2 DEF ListDirectory, ListFails, Goto
    <3>2. Young(q)
      BY <3>1 DEF AllYoung
    <3>3. QED
      BY <3>1, <3>2 DEF Young, Unwatched
  <2>3. ASSUME NEW q1 \in Pid, LookAt(p, q1) PROVE Young(q)'
    <3>1. ~heir[q] /\ Young(q)
      BY <2>3 DEF LookAt, AllYoung
    <3>2. q1 = q /\ pc[q] \in {"first", "sweep", "fill", "have", "read", "write"} => ~Stale(q1)
      BY <3>1 DEF Young, Stale
    <3>3. QED
      BY <2>3, <3>1, <3>2 DEF LookAt, Young, Unwatched
  <2>4. CASE Remove(p) \/ RemoveFails(p) \/ \E q1 \in Pid : LookFails(p, q1)
    <3>1. Nobody # q
      BY ScratchAssumption
    <3>2. UNCHANGED <<clock, pc, heir>>
      BY <2>4 DEF Remove, RemoveFails, LookFails
    <3>3. ~heir[q] /\ Young(q)
      BY <3>2 DEF AllYoung
    <3>4. target' = target \/ target' = [target EXCEPT ![p] = Nobody]
      BY <2>4 DEF Remove, RemoveFails, LookFails
    <3>5. file' = file \/ (target[p] # Nobody /\ file' = [file EXCEPT ![target[p]] = Absent])
      BY <2>4 DEF Remove, RemoveFails, LookFails
    <3>6. Unwatched(q) => Unwatched(q)' /\ file'[q] = file[q]
      BY <3>1, <3>4, <3>5 DEF Unwatched
    <3>7. QED
      BY <3>2, <3>3, <3>6 DEF Young
  <2>5. CASE CreateFile(p)
    BY <2>5 DEF CreateFile, Swept, Goto, Touch, AllYoung, Young, Unwatched
  <2>6. CASE Filled(p)
    BY <2>6 DEF Filled, Goto, Write, Touch, sweepVars, AllYoung, Young, Unwatched
  <2>7. CASE FillFails(p)
    BY <2>7 DEF FillFails, End, Write, Touch, sweepVars, AllYoung, Young, Unwatched
  <2>8. CASE OpenForRead(p) \/ OpenForWrite(p) \/ CloseRead(p) \/ DiskDone(p)
    BY <2>8 DEF OpenForRead, OpenForWrite, CloseRead, DiskDone, Goto, sweepVars, AllYoung,
                Young, Unwatched
  <2>9. CASE WriteAndClose(p)
    BY <2>9 DEF WriteAndClose, Goto, Write, Touch, sweepVars, AllYoung, Young, Unwatched
  <2>10. CASE Drop(p)
    BY <2>10 DEF Drop, End, sweepVars, AllYoung, Young, Unwatched, Absent
  <2>11. CASE Killed(p)
    <3>1. Nobody # q
      BY ScratchAssumption
    <3>2. QED
      BY <2>11, <3>1 DEF Killed, End, AllYoung, Young, Unwatched
  <2>12. CASE CreateFails(p) \/ DropFails(p)
    BY <2>12 DEF CreateFails, DropFails, Swept, End, sweepVars, AllYoung, Young, Unwatched
  <2>13. QED
    BY <1>3, <2>1, <2>2, <2>3, <2>4, <2>5, <2>6, <2>7, <2>8, <2>9, <2>10, <2>11, <2>12 DEF Run, Sweep
<1>4. QED
  BY <1>1, <1>2, <1>3 DEF Next

(* However many runs sweep the directory, one that writes often enough     *)
(* keeps its file.                                                         *)
THEOREM ScratchKept == Spec => []ScratchIsThere
<1>1. CASE Silence < StaleAfter
  <2>1. Init => AllYoung
    BY DEF Init, AllYoung, Young, Busy, There
  <2>2. AllYoung => ScratchIsThere
    BY DEF AllYoung, Young, ScratchIsThere
  <2>3. TypeOK /\ AllYoung /\ [Next]_vars => AllYoung'
    BY <1>1, YoungStep
  <2>4. QED
    BY <2>1, <2>2, <2>3, ScratchTypeOK, PTL DEF Spec
<1>2. CASE ~(Silence < StaleAfter)
  <2>1. ScratchIsThere
    BY <1>2 DEF ScratchIsThere
  <2>2. QED
    BY <2>1, PTL
<1>3. QED
  BY <1>1, <1>2

-----------------------------------------------------------------------------
(* A sweep under way still has in hand, or was refused, every file that    *)
(* was stale when it listed the directory.                                 *)
Handled(p, q) == q \in todo[p] \/ target[p] = q \/ q \in refused[p]
Old(p, q) == There(q) /\ since[p] - file[q].mtime >= StaleAfter
InHand ==
  \A p \in Pid : pc[p] = "sweep" =>
    since[p] <= clock /\ \A q \in Pid : q # p /\ Old(p, q) => Handled(p, q)

LEMMA InHandStep == TypeOK /\ InHand /\ [Next]_vars => InHand'
<1> DEFINE Goal(r) == since'[r] <= clock' /\ \A q \in Pid : q # r /\ Old(r, q)' => Handled(r, q)'
<1> SUFFICES ASSUME TypeOK, InHand, [Next]_vars, NEW r \in Pid, pc'[r] = "sweep" PROVE Goal(r)
  BY DEF InHand
<1> USE ScratchAssumption DEF TypeOK, InHand, There, Old, Handled
<1>1. CASE UNCHANGED vars
  BY <1>1 DEF vars
<1>2. CASE Tick
  BY <1>2 DEF Tick, sweepVars
<1>3. ASSUME NEW p \in Pid, Run(p) PROVE Goal(r)
  <2>1. CASE Begin(p) \/ OpenForRead(p) \/ OpenForWrite(p) \/ CloseRead(p) \/ DiskDone(p) \/ DropFails(p)
    BY <2>1 DEF Begin, OpenForRead, OpenForWrite, CloseRead, DiskDone, DropFails, Goto, End, sweepVars
  <2>2. CASE ListDirectory(p)
    BY <2>2 DEF ListDirectory, Goto
  <2>3. CASE ListFails(p)
    BY <2>3 DEF ListFails, Goto
  <2>4. ASSUME NEW q1 \in Pid, LookAt(p, q1) PROVE Goal(r)
    BY <2>4 DEF LookAt, Stale
  <2>5. ASSUME NEW q1 \in Pid, LookFails(p, q1) PROVE Goal(r)
    BY <2>5 DEF LookFails
  <2>6. CASE Remove(p)
    BY <2>6 DEF Remove, Absent
  <2>7. CASE RemoveFails(p)
    BY <2>7 DEF RemoveFails
  <2>8. CASE CreateFile(p)
    BY <2>8 DEF CreateFile, Swept, Forget, Goto, Touch
  <2>9. CASE CreateFails(p)
    BY <2>9 DEF CreateFails, Swept, Forget, End
  <2>10. CASE Filled(p) \/ FillFails(p) \/ WriteAndClose(p)
    <3>1. pc[r] = "sweep" /\ UNCHANGED <<clock, since, todo, target, refused>>
      BY <2>10 DEF Filled, FillFails, WriteAndClose, Goto, End, sweepVars
    <3>2. file'[p] = file[p] \/ file'[p].mtime = clock
      BY <2>10 DEF Filled, FillFails, WriteAndClose, Write, Touch
    <3>3. \A q \in Pid : q # p => file'[q] = file[q]
      BY <2>10 DEF Filled, FillFails, WriteAndClose, Write, Touch
    <3>4. ASSUME NEW q \in Pid, q # r, Old(r, q)' PROVE Old(r, q)
      <4>1. CASE q # p
        BY <3>1, <3>3, <3>4, <4>1
      <4>2. CASE file'[q].mtime = clock
        <5>1. since[r] - clock >= StaleAfter
          BY <3>1, <3>4, <4>2
        <5>2. since[r] <= clock /\ since[r] \in Int /\ clock \in Int
          BY <3>1
        <5>3. QED
          BY <5>1, <5>2
      <4>3. CASE file'[q] = file[q]
        BY <3>1, <3>4, <4>3
      <4>4. QED
        BY <3>2, <4>1, <4>2, <4>3
    <3>5. QED
      BY <3>1, <3>4
  <2>11. CASE Drop(p)
    <3>1. /\ pc[r] = "sweep" /\ UNCHANGED <<clock, since, todo, target, refused>>
          /\ file' = [file EXCEPT ![p] = Absent]
      BY <2>11 DEF Drop, End, sweepVars
    <3>2. QED
      BY <3>1 DEF Absent
  <2>12. CASE Killed(p)
    BY <2>12 DEF Killed, End, Forget
  <2>13. QED
    BY <1>3, <2>1, <2>2, <2>3, <2>4, <2>5, <2>6, <2>7, <2>8, <2>9, <2>10, <2>11, <2>12 DEF Run, Sweep
<1>4. QED
  BY <1>1, <1>2, <1>3 DEF Next

(* Every sweep collects all that was stale when it began, but for the      *)
(* files the operating system did not let it list, examine or remove.      *)
THEOREM ScratchSweepCollects == Spec => SweepCollects
<1>1. Init => InHand
  BY DEF Init, InHand
<1> DEFINE Collected ==
      \A p \in Pid : pc[p] = "sweep" /\ pc'[p] = "fill" =>
        \A q \in Pid : q # p /\ There(q) /\ since[p] - file[q].mtime >= StaleAfter => q \in refused[p]
<1>2. TypeOK /\ InHand /\ [Next]_vars => [Collected]_vars
  <2> SUFFICES ASSUME TypeOK, InHand, Next, NEW p \in Pid, pc[p] = "sweep", pc'[p] = "fill",
                      NEW q \in Pid, q # p, Old(p, q)
               PROVE  q \in refused[p]
    BY DEF Old
  <2>1. ASSUME NEW p1 \in Pid, Run(p1), p1 # p PROVE FALSE
    <3>1. pc'[p] = pc[p]
      BY <2>1 DEF Run, Sweep, Begin, ListDirectory, ListFails, LookAt, LookFails, Remove, RemoveFails,
                  CreateFile, CreateFails, Filled, FillFails, OpenForRead, OpenForWrite,
                  CloseRead, WriteAndClose, DiskDone, Drop, DropFails, Killed, Goto, End, TypeOK
    <3>2. QED
      BY <3>1
  <2>2. Run(p)
    BY <2>1 DEF Next, Tick
  <2>3. CreateFile(p)
    BY <2>2 DEF Run, Sweep, Begin, ListDirectory, ListFails, LookAt, LookFails, Remove, RemoveFails,
                CreateFails, Filled, FillFails, OpenForRead, OpenForWrite,
                CloseRead, WriteAndClose, DiskDone, Drop, DropFails, Killed, Goto, End, TypeOK
  <2>4. todo[p] = {} /\ target[p] = Nobody
    BY <2>3 DEF CreateFile, Swept
  <2>5. QED
    BY <2>4, ScratchAssumption DEF InHand, Handled
<1>3. QED
  BY <1>1, <1>2, InHandStep, ScratchTypeOK, PTL DEF Spec, SweepCollects

=============================================================================
