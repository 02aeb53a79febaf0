---------------------------- MODULE MCDecisionLog ----------------------------
(* Instances of DecisionLog for TLC: two closes that may find different      *)
(* things, and one reader beside them.                                       *)
EXTENDS DecisionLog

CONSTANTS c1, c2, r1

MCBodies == {<<"ExceptionRaised">>, <<"ExceptionRaised", "CloseBlocked">>}
=============================================================================
