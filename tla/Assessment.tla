---------------------------- MODULE Assessment ----------------------------
(***************************************************************************)
(* What tui::run promises the command that called it, without threads,     *)
(* messages or screens: one answer, given once.  A result is only for a    *)
(* run that did not break, "none" only for a user who asked to cancel, and *)
(* an error only for a run that broke (or a terminal that did).            *)
(***************************************************************************)

VARIABLES
  asked,    (* the user asked to cancel                                    *)
  broken,   (* the run, its scoring or the terminal failed                 *)
  answer    (* "pending", then "some", "none" or "error"                   *)

avars == <<asked, broken, answer>>

Init ==
  /\ asked = FALSE
  /\ broken = FALSE
  /\ answer = "pending"

Ask ==
  /\ answer = "pending"
  /\ asked' = TRUE
  /\ UNCHANGED <<broken, answer>>

(* The run breaks: the answer can no longer be a result.                   *)
Break ==
  /\ answer = "pending"
  /\ broken' = TRUE
  /\ UNCHANGED <<asked, answer>>

GiveResult ==
  /\ answer = "pending"
  /\ ~broken
  /\ answer' = "some"
  /\ UNCHANGED <<asked, broken>>

GiveNothing ==
  /\ answer = "pending"
  /\ asked
  /\ answer' = "none"
  /\ UNCHANGED <<asked, broken>>

(* Also when the terminal fails, which breaks the session by itself.       *)
GiveError ==
  /\ answer = "pending"
  /\ broken' = TRUE
  /\ answer' = "error"
  /\ UNCHANGED asked

Next == Ask \/ Break \/ GiveResult \/ GiveNothing \/ GiveError

Spec == Init /\ [][Next]_avars
=============================================================================
