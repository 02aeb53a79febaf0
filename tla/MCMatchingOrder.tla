--------------------------- MODULE MCMatchingOrder ---------------------------
(* The months of MCMatching, each run twice.                                *)
EXTENDS MatchingOrder, MCMatching
===============================================================================
