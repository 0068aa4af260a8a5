------------------------------ MODULE Scratch ------------------------------
(***************************************************************************)
(* The disk benchmark's scratch files (benches/disk.rs).  Runs that share  *)
(* a --target-dir each keep one file, named after their pid.  A run that   *)
(* creates its own first sweeps away the files of other pids that have not *)
(* been modified for a while, since a killed run never deletes its own.    *)
(*                                                                         *)
(* A process is its pid; the operating system may give a pid out again.    *)
(* The file is told apart by whether it is filled, and by its mtime.       *)
(***************************************************************************)
EXTENDS Integers

CONSTANTS
  Pid,
  Live,         (* the pids given to the runs of the behaviour; the others *)
                (* may be those of runs that are over when it begins       *)
  Nobody,       (* not a pid                                               *)
  StaleAfter,   (* the age at which a sweep takes a file: 20 minutes       *)
  Silence,      (* the longest a disk benchmark goes without a write       *)
  Horizon       (* bound on the clock                                      *)

ASSUME ScratchAssumption ==
  /\ Live \subseteq Pid
  /\ Nobody \notin Pid
  /\ StaleAfter \in Nat \ {0}
  /\ Silence \in Nat
  /\ Horizon \in Nat

VARIABLES
  clock,
  pc,       (* where the process is; "none" when the pid is not in use     *)
  file,     (* the scratch file of each pid                                *)
  todo,     (* the pids whose files the sweep has yet to look at           *)
  target,   (* the pid whose file the sweep is about to remove             *)
  since,    (* history: when the sweep under way listed the directory      *)
  ended,    (* history: how the last process of each pid ended             *)
  heir,     (* history: the pids given out again with a dead run's file    *)
  refused   (* history: the pids whose files it could not handle           *)

vars == <<clock, pc, file, todo, target, since, ended, heir, refused>>
sweepVars == <<todo, target, since, refused>>

Absent == [body |-> "absent", mtime |-> 0]
There(q) == file[q].body # "absent"

(* Faulty variant: a coarse mtime is rounded up.                           *)
TouchAhead(p, body) == file' = [file EXCEPT ![p] = [body |-> body, mtime |-> clock + 1]]

(* Modified a moment ago.                                                  *)
Touch(p, body) == file' = [file EXCEPT ![p] = [body |-> body, mtime |-> clock]]

Goto(p, l) == pc' = [pc EXCEPT ![p] = l] /\ UNCHANGED ended
End(p, how) ==
  /\ pc' = [pc EXCEPT ![p] = "none"]
  /\ ended' = [ended EXCEPT ![p] = how]

(* What is recorded of a sweep is of no use after it.                      *)
Forget(p) ==
  /\ since' = [since EXCEPT ![p] = 0]
  /\ refused' = [refused EXCEPT ![p] = {}]

(* A run starts.  Its pid may be that of a dead run whose file is there,   *)
(* or is just being swept.                                                 *)
Begin(p) ==
  /\ p \in Live /\ pc[p] = "none"
  /\ Goto(p, "first")
  /\ heir' = [heir EXCEPT ![p] = There(p) \/ \E q \in Pid : target[q] = p]
  /\ UNCHANGED <<clock, file, sweepVars>>

-----------------------------------------------------------------------------
(* ensure_scratch, on the first subtest: sweep_stale_scratch, fill_scratch.*)
(* The sweep is best effort: the operating system may refuse any of its    *)
(* requests, and the sweep carries on with what is left.                   *)

ListDirectory(p) ==
  /\ pc[p] = "first"
  /\ Goto(p, "sweep")
  /\ todo' = [todo EXCEPT ![p] = {q \in Pid : q # p /\ There(q)}]
  /\ since' = [since EXCEPT ![p] = clock]
  /\ refused' = [refused EXCEPT ![p] = {}]
  /\ UNCHANGED <<clock, file, target, heir>>

(* A directory one may write to and not list.                              *)
ListFails(p) ==
  /\ pc[p] = "first"
  /\ Goto(p, "sweep")
  /\ since' = [since EXCEPT ![p] = clock]
  /\ refused' = [refused EXCEPT ![p] = Pid]
  /\ UNCHANGED <<clock, file, todo, target, heir>>

(* Faulty variant: any other pid's file will do.                           *)
StaleAnyAge(q) == There(q)

Stale(q) == There(q) /\ clock - file[q].mtime >= StaleAfter

LookAt(p, q) ==
  /\ pc[p] = "sweep"
  /\ q \in todo[p]
  /\ target[p] = Nobody
  /\ todo' = [todo EXCEPT ![p] = @ \ {q}]
  /\ target' = IF Stale(q) THEN [target EXCEPT ![p] = q] ELSE target
  /\ UNCHANGED <<clock, pc, file, since, ended, heir, refused>>

(* No entry, no metadata, or a clock set back behind the mtime.            *)
LookFails(p, q) ==
  /\ pc[p] = "sweep"
  /\ q \in todo[p]
  /\ target[p] = Nobody
  /\ todo' = [todo EXCEPT ![p] = @ \ {q}]
  /\ refused' = [refused EXCEPT ![p] = @ \cup {q}]
  /\ UNCHANGED <<clock, pc, file, target, since, ended, heir>>

Remove(p) ==
  /\ pc[p] = "sweep"
  /\ target[p] # Nobody
  /\ file' = [file EXCEPT ![target[p]] = Absent]
  /\ target' = [target EXCEPT ![p] = Nobody]
  /\ UNCHANGED <<clock, pc, todo, since, ended, heir, refused>>

(* Faulty variant: the first error is the end of the sweep.                *)
RemoveFailsForGood(p) ==
  /\ pc[p] = "sweep"
  /\ target[p] # Nobody
  /\ target' = [target EXCEPT ![p] = Nobody]
  /\ todo' = [todo EXCEPT ![p] = {}]
  /\ refused' = [refused EXCEPT ![p] = @ \cup {target[p]}]
  /\ UNCHANGED <<clock, pc, file, since, ended, heir>>

(* Somebody else's file, or one still open under Windows.                  *)
RemoveFails(p) ==
  /\ pc[p] = "sweep"
  /\ target[p] # Nobody
  /\ target' = [target EXCEPT ![p] = Nobody]
  /\ refused' = [refused EXCEPT ![p] = @ \cup {target[p]}]
  /\ UNCHANGED <<clock, pc, file, todo, since, ended, heir>>

(* The sweep is through.                                                   *)
Swept(p) ==
  /\ pc[p] = "sweep" /\ todo[p] = {} /\ target[p] = Nobody
  /\ Forget(p)
  /\ UNCHANGED <<todo, target>>

(* The file is created, or truncated if a dead process of the same pid     *)
(* left one.                                                               *)
CreateFile(p) ==
  /\ Swept(p)
  /\ Goto(p, "fill")
  /\ Touch(p, "part")
  /\ UNCHANGED <<clock, heir>>

CreateFails(p) ==
  /\ Swept(p)
  /\ End(p, "unfilled")
  /\ UNCHANGED <<clock, file, heir>>

(* What goes through an open handle no longer reaches a file that has been *)
(* removed from the directory.                                             *)
Write(p, body) == IF There(p) THEN Touch(p, body) ELSE UNCHANGED file

Filled(p) ==
  /\ pc[p] = "fill"
  /\ Goto(p, "have")
  /\ Write(p, "full")
  /\ UNCHANGED <<clock, sweepVars, heir>>

(* The disk is full, say.  No Scratch value exists yet, so nothing deletes *)
(* what was written.                                                       *)
FillFails(p) ==
  /\ pc[p] = "fill"
  /\ End(p, "unfilled")
  /\ Write(p, "part")
  /\ UNCHANGED <<clock, sweepVars, heir>>

-----------------------------------------------------------------------------
(* run_subtest, with the scratch file cached, and Scratch::drop.           *)

(* Every iteration opens the path again; it is not checked before.         *)
OpenForRead(p) ==
  /\ pc[p] = "have" /\ There(p)
  /\ Goto(p, "read")
  /\ UNCHANGED <<clock, file, sweepVars, heir>>

OpenForWrite(p) ==
  /\ pc[p] = "have" /\ There(p)
  /\ Goto(p, "write")
  /\ UNCHANGED <<clock, file, sweepVars, heir>>

CloseRead(p) ==
  /\ pc[p] = "read"
  /\ Goto(p, "have")
  /\ UNCHANGED <<clock, file, sweepVars, heir>>

WriteAndClose(p) ==
  /\ pc[p] = "write"
  /\ Goto(p, "have")
  /\ Write(p, "full")
  /\ UNCHANGED <<clock, sweepVars, heir>>

(* The disk subtests are through; other components, a soak, an upload may  *)
(* follow before the run ends.                                             *)
DiskDone(p) ==
  /\ pc[p] = "have"
  /\ Goto(p, "done")
  /\ UNCHANGED <<clock, file, sweepVars, heir>>

(* The run ends, after its last component or because a subtest failed: a   *)
(* read, a write, or the open of a file that is no longer there.           *)
Ends(p) ==
  \/ pc[p] = "done"
  \/ pc[p] = "have" /\ ~There(p)
  \/ pc[p] \in {"read", "write"}

(* Faulty variant: the file of a run that failed is kept.                  *)
DropIfDone(p) ==
  /\ Ends(p)
  /\ file' = IF pc[p] = "done" THEN [file EXCEPT ![p] = Absent] ELSE file
  /\ End(p, "dropped")
  /\ UNCHANGED <<clock, sweepVars, heir>>

Drop(p) ==
  /\ Ends(p)
  /\ file' = [file EXCEPT ![p] = Absent]
  /\ End(p, "dropped")
  /\ UNCHANGED <<clock, sweepVars, heir>>

(* The removal is refused; Scratch::drop logs that and leaves the file.    *)
DropFails(p) ==
  /\ Ends(p) /\ There(p)
  /\ End(p, "undeleted")
  /\ UNCHANGED <<clock, file, sweepVars, heir>>

(* SIGKILL, TerminateProcess, a reboot, a step timeout.                    *)
Killed(p) ==
  /\ pc[p] # "none"
  /\ End(p, "killed")
  /\ todo' = [todo EXCEPT ![p] = {}]
  /\ target' = [target EXCEPT ![p] = Nobody]
  /\ Forget(p)
  /\ UNCHANGED <<clock, file, heir>>

(* Time passes.  Environment assumption: between two writes of a live disk *)
(* benchmark no more than Silence passes.                                  *)
Busy(p) == pc[p] \in {"fill", "have", "read", "write"}
Tick ==
  /\ clock < Horizon
  /\ \A p \in Pid : Busy(p) /\ There(p) => clock - file[p].mtime < Silence
  /\ clock' = clock + 1
  /\ UNCHANGED <<pc, file, sweepVars, ended, heir>>

-----------------------------------------------------------------------------

Init ==
  /\ clock = 0
  /\ pc = [p \in Pid |-> "none"]
  /\ \E old \in SUBSET (Pid \ Live), body \in {"part", "full"} :
       /\ file = [p \in Pid |-> IF p \in old THEN [body |-> body, mtime |-> 0] ELSE Absent]
       /\ ended = [p \in Pid |-> IF p \in old THEN "killed" ELSE "never"]
  /\ todo = [p \in Pid |-> {}]
  /\ target = [p \in Pid |-> Nobody]
  /\ since = [p \in Pid |-> 0]
  /\ heir = [p \in Pid |-> FALSE]
  /\ refused = [p \in Pid |-> {}]

Sweep(p) ==
  \/ ListDirectory(p) \/ ListFails(p) \/ Remove(p) \/ RemoveFails(p)
  \/ \E q \in Pid : LookAt(p, q) \/ LookFails(p, q)

Run(p) ==
  \/ Begin(p) \/ Sweep(p) \/ CreateFile(p) \/ CreateFails(p) \/ Filled(p) \/ FillFails(p)
  \/ OpenForRead(p) \/ OpenForWrite(p) \/ CloseRead(p) \/ WriteAndClose(p)
  \/ DiskDone(p) \/ Drop(p) \/ DropFails(p) \/ Killed(p)

Next == (\E p \in Pid : Run(p)) \/ Tick

Spec == Init /\ [][Next]_vars

-----------------------------------------------------------------------------
(* Properties.                                                             *)

TypeOK ==
  /\ clock \in 0 .. Horizon
  /\ pc \in [Pid -> {"none", "first", "sweep", "fill", "have", "read", "write", "done"}]
  /\ file \in [Pid -> [body : {"absent", "part", "full"}, mtime : 0 .. Horizon]]
  /\ todo \in [Pid -> SUBSET Pid]
  /\ target \in [Pid -> Pid \union {Nobody}]
  /\ since \in [Pid -> 0 .. Horizon]
  /\ ended \in [Pid -> {"never", "unfilled", "dropped", "undeleted", "killed"}]
  /\ heir \in [Pid -> BOOLEAN]
  /\ refused \in [Pid -> SUBSET Pid]

(* A benchmark that writes at least once within the stale age always finds *)
(* its scratch file where it left it, and filled: the cached path that     *)
(* ensure_scratch trusts is good, though other runs sweep the directory.   *)
(* (Unless its pid was that of a dead run: a sweep that has looked at the  *)
(* old file may remove the new one.)                                       *)
ScratchIsThere ==
  Silence < StaleAfter =>
    \A p \in Pid : Busy(p) /\ ~heir[p] =>
      /\ There(p)
      /\ pc[p] # "fill" => file[p].body = "full"

(* Disk space is leaked only where the operating system insists: when a    *)
(* sweep is through, each file of another pid that was already stale when  *)
(* it began is one that this sweep was not allowed to list, examine or     *)
(* remove.  One refusal costs no other file its removal, whatever is       *)
(* created, written or removed in the directory meanwhile.                 *)
SweepCollects ==
  [][\A p \in Pid : pc[p] = "sweep" /\ pc'[p] = "fill" =>
       \A q \in Pid : q # p /\ There(q) /\ since[p] - file[q].mtime >= StaleAfter =>
         q \in refused[p]]_vars

(* A run leaves its file only when it was killed, could not fill it, or    *)
(* was not allowed to remove it: every way out drops the Scratch value, a  *)
(* failed subtest too.  A half-written one is left by the first two only.  *)
LeftoversExplained ==
  \A p \in Pid : There(p) /\ pc[p] = "none" =>
    /\ ended[p] \in {"killed", "unfilled", "undeleted"}
    /\ file[p].body = "part" => ended[p] # "undeleted"

(* disk.rs: "a `loadbearer` run happening concurrently in the same         *)
(* directory is never touched".                                            *)
ConcurrentNeverTouched ==
  \A p \in Pid : pc[p] \in {"have", "read", "write", "done"} => There(p)

(* disk.rs: "It is deleted when the run ends; a killed run may leave it    *)
(* behind."  (A removal the operating system refuses is let pass.)         *)
DeletedWhenTheRunEnds ==
  \A p \in Pid : There(p) /\ pc[p] = "none" => ended[p] \in {"killed", "undeleted"}

=============================================================================
