------------------------------ MODULE DiskMode ------------------------------
(***************************************************************************)
(* How the disk benchmark opens its scratch file (benches/disk.rs): past   *)
(* the page cache where the platform allows it, through the cache where it *)
(* does not.  The filesystem may change its mind between two subtests, or  *)
(* refuse one open of many.  Of the I/O loops only this is kept: how much  *)
(* of the file they come across again before their time is up.             *)
(***************************************************************************)
EXTENDS Naturals, Sequences

CONSTANTS
  Series,      (* the subtests in the order the engine calls them          *)
  Platforms    (* the system, and whether the target directory is in RAM   *)

ASSUME DiskAssumption == Series \in Seq(STRING)

VARIABLES
  unbuffered,  (* "untested", "unbuffered" or "buffered"                   *)
  remarks,     (* DiskBenchmark::notes                                     *)
  filled,      (* the scratch file is there                                *)
  figures,     (* per call: the subtest, how the file was opened, whether  *)
               (* the page cache may have served any of its reads          *)
  platform

diskVars == <<unbuffered, remarks, filled, figures, platform>>

Reads == {"seq_read", "rand_read", "rand_read_qd"}
DeepQueue == {"rand_read_qd", "rand_write_qd"}

(* Only Linux can be asked to drop a file from the cache, or tell what     *)
(* lives in RAM; what lives in RAM is its own cache.                       *)
DropFromCache == platform = "linux disk"
IsMemoryBacked == platform = "linux ram"

(* Filling goes through the cache, which may hold the file from then on.   *)
(* A target in RAM is remarked upon.                                       *)
EnsureScratch == IF ~filled /\ IsMemoryBacked THEN {"memory backed"} ELSE {}

(* Faulty variant: decided by the first open, never looked at again.       *)
OpenReadOnce(honoured) ==
  IF unbuffered = "buffered" \/ (~honoured /\ unbuffered = "unbuffered")
  THEN [direct |-> FALSE, decided |-> unbuffered, dropped |-> FALSE, remarks |-> {}]
  ELSE IF honoured
  THEN [direct |-> TRUE, decided |-> "unbuffered", dropped |-> FALSE, remarks |-> {}]
  ELSE [direct |-> FALSE, decided |-> "buffered", dropped |-> TRUE, remarks |-> {"cache-influenced"}]

(* The open that falls back drops the cache; the ones after it, which do   *)
(* not try any more, leave that to the caller.                             *)
OpenRead(honoured) ==
  IF unbuffered = "buffered"
  THEN [direct |-> FALSE, decided |-> "buffered", dropped |-> FALSE, remarks |-> {}]
  ELSE IF honoured
  THEN [direct |-> TRUE, decided |-> "unbuffered", dropped |-> FALSE, remarks |-> {}]
  ELSE [direct |-> FALSE, decided |-> "buffered", dropped |-> TRUE, remarks |-> {"cache-influenced"}]

(* A write that falls back decides nothing and says nothing.               *)
OpenWrite(honoured) ==
  [ direct |-> unbuffered # "buffered" /\ honoured, decided |-> unbuffered,
    dropped |-> FALSE, remarks |-> {} ]

(* One call of run_subtest.  Only seq_read drops the cache itself, once,   *)
(* before its passes over the file; the kernel need not comply (heeded).   *)
(* What the loops then read again, the whole file in a further pass or a   *)
(* block of the random ones, a buffered read finds in the cache.           *)
RunSubtest(honoured, heeded, again) ==
  LET id      == Series[Len(figures) + 1]
      opened  == IF id \in Reads THEN OpenRead(honoured) ELSE OpenWrite(honoured)
      dropped == DropFromCache /\ heeded /\ (opened.dropped \/ (id = "seq_read" /\ ~opened.direct))
  IN  /\ Len(figures) < Len(Series)
      /\ filled' = TRUE
      /\ unbuffered' = opened.decided
      /\ remarks' = remarks \cup EnsureScratch \cup opened.remarks
                    \cup (IF id \in DeepQueue THEN {"deep queue"} ELSE {})
      /\ figures' = Append(figures, [ id |-> id, direct |-> opened.direct,
                                      warm |-> ~opened.direct /\ (again \/ ~dropped) ])
      /\ UNCHANGED platform

DiskInit ==
  /\ unbuffered = "untested"
  /\ remarks = {}
  /\ filled = FALSE
  /\ figures = <<>>
  /\ platform \in Platforms

DiskNext == \E honoured, heeded, again \in BOOLEAN : RunSubtest(honoured, heeded, again)

DiskSpec == DiskInit /\ [][DiskNext]_diskVars

(* -- Properties -------------------------------------------------------- *)

(* Whenever the page cache may have served a read, a caution says so,      *)
(* however late the filesystem stopped honouring unbuffered reads; it is   *)
(* given only if some read did go through the cache; no subtest goes back  *)
(* to unbuffered reads after buffered ones, so its trials mix the two at   *)
(* most at one point; and a target in RAM is owned up to by name.          *)
CachedReadsOwnedUp ==
  LET reads == {i \in DOMAIN figures : figures[i].id \in Reads}
  IN  /\ \A i \in reads : figures[i].warm => "cache-influenced" \in remarks
      /\ "cache-influenced" \in remarks => \E i \in reads : ~figures[i].direct
      /\ \A i, j \in reads : i < j /\ figures[j].direct => figures[i].direct
      /\ "memory backed" \in remarks <=> figures # <<>> /\ IsMemoryBacked
=============================================================================
