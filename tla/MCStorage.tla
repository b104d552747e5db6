------------------------------ MODULE MCStorage -----------------------------
(* Instances of Storage for TLC.                                           *)
EXTENDS Storage

\* Data members before, between and after those the store is on; one pool striped
\* over two members, one on a single member.
MCOrder == <<"d1", "c1", "d2", "c2", "d3">>
MCCritical == {"c1", "c2"}
MCData == {"d1", "d2", "d3"}
MCNeeds == [cold |-> {"d1", "d2"}, smr |-> {"d3"}]

=============================================================================
