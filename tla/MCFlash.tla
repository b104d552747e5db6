------------------------------ MODULE MCFlash -------------------------------
(* Instances of Flash for TLC.                                             *)
EXTENDS Flash, TLC

CONSTANTS Stick, Other      \* the disks

\* A stick the image does not fill, and a disk it does not fit on.
MCSizeOf == Stick :> "larger" @@ Other :> "smaller"

\* The sizes as they are; unknown; and the stick gone, with the other disk
\* listed at the size of the one that was there before.
MCListings ==
  {MCSizeOf,
   [d \in Names |-> "unknown"],
   Stick :> "absent" @@ Other :> "larger"}

=============================================================================
