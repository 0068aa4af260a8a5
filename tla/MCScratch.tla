----------------------------- MODULE MCScratch -----------------------------
(* Scratch with interchangeable pids.                                      *)
EXTENDS Scratch, TLC

Symmetry == Permutations(Live)
=============================================================================
