----------------------------- MODULE MCSession -----------------------------
(***************************************************************************)
(* Session for TLC: two sessions and three runs, so that one may run the   *)
(* same action twice in a second beside the other, and one log kept.       *)
(***************************************************************************)
EXTENDS Session, TLC

SomeSymmetry == Permutations(Sessions) \cup Permutations(Seconds)

=============================================================================
