------------------------------ MODULE MCBuild -------------------------------
(* Instances of Build for TLC.                                             *)
EXTENDS Build, TLC

CONSTANTS Large, Huge      \* two sticks

MCBytes == Large :> 3 @@ Huge :> 4

\* Processes are interchangeable, and so are passphrases.
Interchangeable == Permutations(Pids) \cup Permutations(Passphrases)

=============================================================================
