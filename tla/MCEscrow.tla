------------------------------ MODULE MCEscrow ------------------------------
(***************************************************************************)
(* Escrow for TLC: three runs are a failed one, its retry, and one more    *)
(* that finds the header full, since MaxSlots leaves room for two.         *)
(***************************************************************************)
EXTENDS Escrow, TLC

RunSymmetry == Permutations(Runs)

=============================================================================
