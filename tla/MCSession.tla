----------------------------- MODULE MCSession -----------------------------
(* Session on a small estate of benchmarks: a graded one and the two       *)
(* ungraded ones, run together or with the network component alone.        *)
EXTENDS Session

MCSelections == {<<"cpu", "network", "gpu">>, <<"network">>}
MCSubtests   == [x \in Bench |-> IF x = "network" THEN 2 ELSE 1]
=============================================================================
