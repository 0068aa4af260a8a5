----------------------------- MODULE MCDelivery -----------------------------
(* Delivery on one machine with two invocations.                           *)
EXTENDS Delivery

(* A scheduled fleet run; a run at a terminal that only writes a file; one *)
(* that only uploads, with a --fail-under.                                 *)
MCOptions ==
  {[output |-> TRUE, upload |-> TRUE, recency |-> TRUE, floor |-> FALSE, interactive |-> FALSE],
   [output |-> TRUE, upload |-> FALSE, recency |-> FALSE, floor |-> FALSE, interactive |-> TRUE],
   [output |-> FALSE, upload |-> TRUE, recency |-> FALSE, floor |-> TRUE, interactive |-> FALSE]}
=============================================================================
