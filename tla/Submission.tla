----------------------------- MODULE Submission -----------------------------
(***************************************************************************)
(* What `loadbearer run --upload` promises whoever reads its exit code,    *)
(* without gates, files, attempts or a network: a run is told one verdict, *)
(* a run told "delivered" is on the server, and the server never holds a   *)
(* result of a run that was declined or that failed.                       *)
(***************************************************************************)
CONSTANT Run
VARIABLES
  verdict,   (* per run: "open" until its process ends                      *)
  onServer   (* runs whose result the server has indexed                    *)

svars == <<verdict, onServer>>

Verdicts == {"delivered", "kept", "undelivered", "declined", "failed", "killed"}

Init ==
  /\ verdict = [p \in Run |-> "open"]
  /\ onServer = {}

(* The server indexes a result, perhaps long after its run ended.          *)
Index(p) ==
  /\ verdict[p] \notin {"declined", "failed"}
  /\ onServer' = onServer \union {p}
  /\ UNCHANGED verdict

Tell(p, v) ==
  /\ verdict[p] = "open"
  /\ v = "delivered" => p \in onServer
  /\ v \in {"declined", "failed"} => p \notin onServer
  /\ verdict' = [verdict EXCEPT ![p] = v]
  /\ UNCHANGED onServer

Next == \E p \in Run : Index(p) \/ \E v \in Verdicts : Tell(p, v)

Spec == Init /\ [][Next]_svars
=============================================================================
