------------------------------- MODULE MCAccess -------------------------------
(* Instances of Access for TLC: two tabs, two addresses.                     *)
EXTENDS Access, TLC

CONSTANTS t1, t2, e1, e2, p1

MCLimit == [b \in Buckets |-> [tokens |-> 1, window |-> 2]]
MCSymmetry == Permutations(Tabs) \cup Permutations(Emails)
=============================================================================
