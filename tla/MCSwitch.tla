------------------------------ MODULE MCSwitch ------------------------------
(* Instances of Switch for TLC.                                            *)
EXTENDS Switch, TLC

\* Invocations are interchangeable: each may be given any argument.
Interchangeable == Permutations(Wrappers)

=============================================================================
