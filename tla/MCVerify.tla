------------------------------ MODULE MCVerify ------------------------------
(* Instances of Verify for TLC.                                            *)
EXTENDS Verify

\* A target, from the sequence of its cells.
Cells(seq) == [i \in 0..(Len(seq) - 1) |-> seq[i + 1]]

Good == Cells(<<"both", "full", "luks2", "a", "b">>)

\* Whole; of another build; cut short before the store.
MCImages ==
  {Good,
   Cells(<<"both", "full", "luks2", "b", "a">>),
   Cells(<<"both", "full">>)}

\* The image on a larger stick; a stick that is too small; and one for each check
\* that fails.
MCContents ==
  [larger  |-> Cells(<<"both", "full", "luks2", "a", "b", "b", "b", "a">>),
   small   |-> Cells(<<"both", "full", "luks2", "a">>),
   garbage |-> Cells(<<"garbage", "full", "luks2">>),
   extra   |-> Cells(<<"extra", "noLoader", "luks2", "a", "b">>),
   noEsp   |-> Cells(<<"noEsp", "full", "other", "a", "b">>),
   noStore |-> Cells(<<"noStore", "noUkis", "luks2", "a", "b">>),
   notFat  |-> Cells(<<"both", "notFat", "other", "a", "b">>)]

MCDisks == DOMAIN MCContents

=============================================================================
