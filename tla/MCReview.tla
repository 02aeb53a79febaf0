------------------------------ MODULE MCReview ------------------------------
(* Instances of Review for TLC: x blocks the close and its code may be       *)
(* changed, y does not block, z carries no value.  One write-off fits the    *)
(* budget, two do not.                                                       *)
EXTENDS Review

CONSTANTS a1, a2, x, y, z

MCItems == {x, y, z}
MCValue == [i \in MCItems |-> IF i = z THEN 0 ELSE 2]
MCSymmetry == Permutations(Actors)
=============================================================================
