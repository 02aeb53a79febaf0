---------------------------- MODULE MatchingOrder ----------------------------
(***************************************************************************)
(* Two matching runs of one month, the second with the lines of the         *)
(* statement in the opposite order (tests/property/test_metamorphic.py      *)
(* shuffles them): which outcomes depend on the order?                      *)
(***************************************************************************)
EXTENDS Matching

VARIABLES month2, stage2, at2, queue2, unmatched2, consumed2, matches2, exceptions2

vars2 == <<month2, stage2, at2, queue2, unmatched2, consumed2, matches2, exceptions2>>

Reversed(m) == [m EXCEPT !.line = [a \in Anchors |-> -@[a]]]
ReversedMonths == {Reversed(m) : m \in Months}

Again == INSTANCE Matching WITH
  Months <- ReversedMonths, month <- month2, stage <- stage2,
  at <- at2, queue <- queue2, unmatched <- unmatched2, consumed <- consumed2,
  matches <- matches2, exceptions <- exceptions2

InitBoth == Init /\ month2 = Reversed(month) /\ Again!Init

(* The runs share nothing, so one after the other is enough. *)
FirstRun == Next /\ UNCHANGED vars2
SecondRun == stage = "done" /\ Again!Next /\ UNCHANGED vars

SpecBoth == InitBoth /\ [][FirstRun \/ SecondRun]_<<vars, vars2>>

(* The subset pass, which searches a pool, is left out of the comparison. *)
Pairs(ms) == {<<m.anchor, m.group>> : m \in {n \in ToSet(ms) : n.tier # "T2"}}
BothDone == stage = "done" /\ stage2 = "done"

(* The groups an anchor could take in some pass, claims aside. *)
Reach(a) == {g \in Grouped \cap Candidates(a) : g = month.ref[a] \/ Comparable(a, g)}

(* Anchors that compete for no group are matched alike in either order.     *)
OrderMattersOnlyInContest ==
  BothDone /\ (\A a, b \in InScopeAnchors : a # b => Reach(a) \cap Reach(b) = {})
    => Pairs(matches) = Pairs(matches2)

===============================================================================
