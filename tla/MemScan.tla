------------------------------ MODULE MemScan ------------------------------
(***************************************************************************)
(* loadbearer mem (mem.rs): which programs use the memory right now.       *)
(* The scan goes through the processes one by one while they start, end,   *)
(* and turn into other programs.  On Linux a process is looked at twice,   *)
(* once for its name and once for its memory; on Windows the names are all *)
(* listed first.  Memory is counted in kB.                                 *)
(***************************************************************************)
EXTENDS Integers, Sequences, FiniteSets, Functions

CONSTANTS
  Processes,     (* bound on the process numbers                           *)
  Programs,      (* what a process may be: its name, its private memory,   *)
                 (* whether it maps the shared pages, whether it may be    *)
                 (* looked into                                            *)
  SharedKb,      (* the size of the shared pages                           *)
  MaxMoves       (* bound on what the processes do during a scan           *)

NoName == "none"   (* no process, or none whose name is read               *)

ASSUME MemScanAssumption ==
  /\ Processes \in Nat
  /\ SharedKb \in Nat
  /\ MaxMoves \in Nat
  /\ Programs \subseteq [name : STRING, private : Nat, shares : BOOLEAN, open : BOOLEAN]
  /\ \A program \in Programs : program.name # NoName

VARIABLES
  procs,       (* each process number's program, or Gone                   *)
  source,      (* "pss" on Linux, "working-set" on Windows                 *)
  listed,      (* Windows: the processes when the names were listed        *)
  next,        (* the process number looked at next                        *)
  named,       (* Linux: the name read, while the memory is not            *)
  rows,        (* one row per process read                                 *)
  unreadable,  (* the processes that could not be read                     *)
  moved,       (* history: process numbers that changed since the start    *)
  moves        (* bounds the changes                                       *)

scanVars == <<procs, source, listed, next, named, rows, unreadable, moved, moves>>

Pids == 1..Processes
Gone == [name |-> NoName, private |-> 0, shares |-> FALSE, open |-> FALSE]
Sharers(ps) == {p \in Pids : ps[p].shares}

Pss(ps, p) == ps[p].private + IF ps[p].shares THEN SharedKb \div Cardinality(Sharers(ps)) ELSE 0
WorkingSet(ps, p) == ps[p].private + IF ps[p].shares THEN SharedKb ELSE 0

ProcRow(name, private, shared) == [name |-> name, private |-> private, shared |-> shared]
Read(row) == rows' = Append(rows, row) /\ UNCHANGED unreadable
Skip == UNCHANGED <<rows, unreadable>>
Denied == unreadable' = unreadable + 1 /\ UNCHANGED rows

(* A process starts under a free number, ends, or execs another program.   *)
ProcessMoves(p, program) ==
  /\ moves < MaxMoves
  /\ procs[p] # program
  /\ procs' = [procs EXCEPT ![p] = program]
  /\ moved' = moved \cup {p}
  /\ moves' = moves + 1
  /\ UNCHANGED <<source, listed, next, named, rows, unreadable>>

(* Linux: the name of the next process that is still there.                *)
ProgramName ==
  /\ source = "pss" /\ next \in Pids /\ named = NoName
  /\ named' = procs[next].name
  /\ next' = IF procs[next] = Gone THEN next + 1 ELSE next
  /\ UNCHANGED <<procs, source, listed, rows, unreadable, moved, moves>>

(* Faulty variant: a process that may not be read is passed over.          *)
ReadOneSilent ==
  /\ source = "pss" /\ named # NoName
  /\ IF procs[next].open /\ Pss(procs, next) > 0
     THEN Read(ProcRow(named, procs[next].private, Pss(procs, next) - procs[next].private))
     ELSE Skip
  /\ named' = NoName
  /\ next' = next + 1
  /\ UNCHANGED <<procs, source, listed, moved, moves>>

(* Linux: its smaps_rollup, by then perhaps gone, another program's, or    *)
(* that of a process with nothing resident (a kernel thread).              *)
ReadOne ==
  /\ source = "pss" /\ named # NoName
  /\ \/ /\ procs[next] # Gone /\ ~procs[next].open
        /\ Denied
     \/ /\ procs[next].open /\ Pss(procs, next) > 0
        /\ Read(ProcRow(named, procs[next].private, Pss(procs, next) - procs[next].private))
     \/ /\ procs[next] = Gone \/ (procs[next].open /\ Pss(procs, next) = 0)
        /\ Skip
  /\ named' = NoName
  /\ next' = next + 1
  /\ UNCHANGED <<procs, source, listed, moved, moves>>

(* Windows: the counters of the next listed process, or of the process     *)
(* that has its number by now; without a handle the working set that was   *)
(* listed with the name stands in, unsplit.                                *)
Counters ==
  /\ source = "working-set" /\ next \in Pids
  /\ LET was == listed[next]
     IN  \/ was = Gone /\ Skip
         \/ /\ was # Gone /\ procs[next].open
            /\ Read(ProcRow(was.name, procs[next].private,
                        WorkingSet(procs, next) - procs[next].private))
         \/ /\ was # Gone /\ ~procs[next].open
            /\ IF WorkingSet(listed, next) > 0
               THEN Read(ProcRow(was.name, WorkingSet(listed, next), 0))
               ELSE Denied
  /\ next' = next + 1
  /\ UNCHANGED <<procs, source, listed, named, moved, moves>>

ScanInit ==
  /\ procs \in [Pids -> Programs \cup {Gone}]
  /\ source \in {"pss", "working-set"}
  /\ listed = procs
  /\ next = 1
  /\ named = NoName
  /\ rows = <<>>
  /\ unreadable = 0
  /\ moved = {}
  /\ moves = 0

ScanNext ==
  \/ \E p \in Pids, program \in Programs \cup {Gone} : ProcessMoves(p, program)
  \/ ProgramName
  \/ ReadOne
  \/ Counters

ScanSpec == ScanInit /\ [][ScanNext]_scanVars

(* -- The snapshot ------------------------------------------------------ *)

Scanned == next \notin Pids
TotalOf(row) == row.private + row.shared

RowsOf(name) == {i \in DOMAIN rows : rows[i].name = name}

Program(name) ==
  [ name      |-> name,
    processes |-> Cardinality(RowsOf(name)),
    private   |-> SumFunctionOnSet([i \in DOMAIN rows |-> rows[i].private], RowsOf(name)),
    shared    |-> SumFunctionOnSet([i \in DOMAIN rows |-> rows[i].shared], RowsOf(name)) ]

(* The rows rolled up by program name, smallest program first (programs of *)
(* one size follow their names' order in the code, some order here).       *)
Group ==
  LET byName == {Program(row.name) : row \in Range(rows)}
  IN  CHOOSE g \in [1..Cardinality(byName) -> byName] :
        /\ Range(g) = byName
        /\ \A i, j \in DOMAIN g : i < j => TotalOf(g[i]) <= TotalOf(g[j])

RamTotal == SumFunction([i \in DOMAIN Group |-> TotalOf(Group[i])])

(* The table: the heaviest programs if a limit is given (a sequence of at  *)
(* most one number), and below them what it leaves out.                    *)
PrintMem(limit) ==
  LET first == IF limit # <<>> /\ limit[1] < Len(Group) THEN Len(Group) - limit[1] ELSE 0
  IN  [ shown |-> SubSeq(Group, first + 1, Len(Group)), hidden |-> first,
        total |-> RamTotal, unreadable |-> unreadable ]

(* -- Properties -------------------------------------------------------- *)

(* What a process that stays itself takes at the least, however many share *)
(* its pages.                                                              *)
LeastSize(p) ==
  procs[p].private + IF procs[p].shares
                     THEN (IF source = "pss" THEN SharedKb \div Processes ELSE SharedKb) ELSE 0

(* A process the scan may not look into is reported, never dropped, and    *)
(* none is counted twice, whatever starts, ends or execs meanwhile: each   *)
(* process that stayed itself is in its program's group or among the       *)
(* unreadable.  When nothing moved, the proportional shares add up to      *)
(* the memory the readable processes use, but for less than a kB of each   *)
(* sharer's.  A limited table says how many programs it leaves out, none   *)
(* of them larger than one it shows.                                       *)
ScanAccountsForEveryone ==
  Scanned =>
    LET still  == {p \in Pids \ moved : procs[p] # Gone}
        shut   == {p \in still : source = "pss" /\ ~procs[p].open}
        seen   == {p \in still \ shut : LeastSize(p) > 0}
        groups == Range(Group)
        used   == SumFunctionOnSet([p \in Pids |-> procs[p].private], still)
                  + IF Sharers(procs) = {} THEN 0 ELSE SharedKb
    IN  /\ unreadable >= Cardinality(shut)
        /\ unreadable + SumFunctionOnSet([g \in groups |-> g.processes], groups) <= Processes
        /\ \A name \in {procs[p].name : p \in seen} :
             \E g \in groups : /\ g.name = name
                               /\ g.processes >= Cardinality({p \in seen : procs[p].name = name})
        /\ source = "pss" /\ moved = {} /\ shut = {} =>
             used - RamTotal \in {0} \cup 1..Cardinality(Sharers(procs)) - 1
        /\ \A limit \in {<<>>} \cup {<<n>> : n \in 0..Processes} :
             LET table == PrintMem(limit)
             IN  /\ table.hidden + Len(table.shown) = Cardinality(groups)
                 /\ \A g \in groups \ Range(table.shown), h \in Range(table.shown) :
                      TotalOf(g) <= TotalOf(h)
=============================================================================
