---------------------------- MODULE MatchingProofs ----------------------------
(***************************************************************************)
(* Proofs about Matching and MatchingOrder, for any anchors, rows, groups   *)
(* and strategies.                                                          *)
(*                                                                          *)
(* The inductive invariant tells the two kinds of match apart: one that     *)
(* stands for a whole group, which no other match names, and one that holds *)
(* rows of the pool, which the subset pass has then consumed.               *)
(*                                                                          *)
(* Of the two runs of MatchingOrder the last part shows that each follows   *)
(* one trace of passes, which no order of the lines enters: a pass takes    *)
(* for an anchor what the pairs of the passes before it leave within the    *)
(* anchor's own reach.                                                      *)
(***************************************************************************)
EXTENDS MatchingOrder, Sums, SequenceTheorems, FiniteSetTheorems, TLAPS

OfGroup(m) == m.tier # "T2" /\ m.group \in Grouped /\ m.rows = RowsOf(m.group)
OfPool(m) == m.tier = "T2" /\ m.group = NoGroup /\ m.rows \subseteq Pool

\* Nothing has been matched or left before the first pass.
NothingYet == at = 0 => /\ queue = {} /\ unmatched = {}
                        /\ matches = <<>> /\ exceptions = {}

\* Every match is of one kind, and pool rows are matched by a subset pass.
Kinds ==
  \A i \in 1 .. Len(matches) :
    \/ OfGroup(matches[i])
    \/ OfPool(matches[i]) /\ \E k \in 1 .. at : Strategies[k] = "subset_sum"

\* Two matches of groups are of different groups.
GroupsDiffer ==
  \A i, j \in 1 .. Len(matches) :
    i # j /\ OfGroup(matches[i]) /\ OfGroup(matches[j])
      => matches[i].group # matches[j].group

\* The subset pass knows the rows it has used.
ConsumedKnown ==
  at >= 1 /\ Strategy = "subset_sum" =>
    \A r \in Rows : r \in consumed <=>
      \E i \in 1 .. Len(matches) : matches[i].tier = "T2" /\ r \in matches[i].rows

\* Two matches from the pool have no row in common.
PoolRowsDiffer ==
  \A i, j \in 1 .. Len(matches) :
    i # j /\ OfPool(matches[i]) /\ OfPool(matches[j])
      => matches[i].rows \cap matches[j].rows = {}

IInv ==
  /\ month \in Months
  /\ TypeOK
  /\ NothingYet
  /\ Kinds
  /\ GroupsDiffer
  /\ ConsumedKnown
  /\ PoolRowsDiffer

-------------------------------------------------------------------------------
(* What one more match changes. *)

LEMMA MatchAppended ==
  ASSUME matches \in Seq(MatchRecords), NEW m \in MatchRecords,
         UNCHANGED month, matches' = Append(matches, m)
  PROVE  /\ matches' \in Seq(MatchRecords')
         /\ Len(matches) \in Nat /\ Len(matches') = Len(matches) + 1
         /\ \A i \in 1 .. Len(matches) : matches'[i] = matches[i]
         /\ matches'[Len(matches) + 1] = m
<1>1. MatchRecords' = MatchRecords
  BY DEF MatchRecords, Declarable, Distance, Residual, Total, RowsOf
<1>2. QED
  BY <1>1, AppendProperties

(* The operators of the records do not change with the run. *)
LEMMA RecordsStay ==
  ASSUME UNCHANGED month
  PROVE  /\ Pool' = Pool /\ Grouped' = Grouped
         /\ \A g : RowsOf(g)' = RowsOf(g)
         /\ \A m : OfGroup(m)' = OfGroup(m) /\ OfPool(m)' = OfPool(m)
         /\ InScopeAnchors' = InScopeAnchors
         /\ MatchRecords' = MatchRecords
  BY DEF Pool, Grouped, RowsOf, OfGroup, OfPool, InScopeAnchors, MatchRecords,
         Declarable, Distance, Residual, Total

(* Every strategy proposes groups that are in the month and not claimed. *)
LEMMA ProposalsAreFree ==
  ASSUME NEW a, Strategy \in StrategyNames \ {"subset_sum"}, NEW g \in Proposals(a)
  PROVE  g \in Grouped \ Claimed
  BY DEF Proposals, Exact, Tolerant, Partial, Viable, Named, Offered, StrategyNames

(* The run is inside a pass whenever it is some anchor's turn. *)
LEMMA InsideAPass ==
  ASSUME IInv, NEW a \in Anchors, Turn(a)
  PROVE  at \in 1 .. Len(Strategies) /\ Strategy \in StrategyNames
<1>1. at # 0 /\ at \in 0 .. Len(Strategies)
  BY DEF IInv, TypeOK, NothingYet, Turn
<1>2. Strategies \in Seq(StrategyNames)
  BY ProfileAssumption
<1>3. Len(Strategies) \in Nat
  BY <1>2
<1>4. at \in 1 .. Len(Strategies)
  BY <1>1, <1>3
<1>5. QED
  BY <1>2, <1>4 DEF Strategy

-------------------------------------------------------------------------------
LEMMA InitInvariant == Init => IInv
<1> SUFFICES ASSUME Init PROVE IInv
  OBVIOUS
<1>1. Len(Strategies) \in Nat
  BY ProfileAssumption
<1>2. TypeOK
  BY <1>1 DEF Init, TypeOK
<1>3. QED
  BY <1>2 DEF Init, IInv, NothingYet, Kinds, GroupsDiffer, ConsumedKnown, PoolRowsDiffer

LEMMA StutterInvariant == IInv /\ UNCHANGED vars => IInv'
<1> SUFFICES ASSUME IInv, UNCHANGED vars PROVE IInv'
  OBVIOUS
<1> USE DEF vars
<1>1. TypeOK'
  BY RecordsStay DEF IInv, TypeOK
<1>2. NothingYet' /\ Kinds' /\ GroupsDiffer' /\ PoolRowsDiffer' /\ ConsumedKnown'
  BY RecordsStay DEF IInv, NothingYet, Kinds, GroupsDiffer, ConsumedKnown,
     PoolRowsDiffer, Strategy
<1>3. QED
  BY <1>1, <1>2 DEF IInv

LEMMA BeginPassInvariant == IInv /\ BeginPass => IInv'
<1> SUFFICES ASSUME IInv, BeginPass PROVE IInv'
  OBVIOUS
<1>1. /\ UNCHANGED month /\ UNCHANGED stage /\ UNCHANGED matches /\ UNCHANGED exceptions
      /\ at' = at + 1 /\ at \in Nat /\ at' \in 1 .. Len(Strategies)
      /\ queue' = Pending /\ unmatched' = {} /\ consumed' = {}
  BY ProfileAssumption DEF BeginPass, IInv, TypeOK
<1>2. TypeOK'
  BY <1>1, RecordsStay DEF IInv, TypeOK, Pending, InScopeAnchors
<1>3. NothingYet'
  BY <1>1 DEF NothingYet
<1>4. Kinds'
  BY <1>1, RecordsStay DEF IInv, Kinds
<1>5. GroupsDiffer' /\ PoolRowsDiffer'
  BY <1>1, RecordsStay DEF IInv, GroupsDiffer, PoolRowsDiffer
<1>6. ConsumedKnown'
  \* A strategy is named once, so this is the first subset pass.
  <2> SUFFICES ASSUME Strategy' = "subset_sum", NEW i \in 1 .. Len(matches)
               PROVE  matches[i].tier # "T2"
    BY <1>1 DEF ConsumedKnown
  <2>1. Strategies[at'] = "subset_sum"
    BY DEF Strategy
  <2>2. \A k \in 1 .. at : Strategies[k] # "subset_sum"
    BY <1>1, <2>1, ProfileAssumption
  <2>3. QED
    BY <2>2 DEF IInv, Kinds, OfGroup
<1>7. QED
  BY <1>1, <1>2, <1>3, <1>4, <1>5, <1>6 DEF IInv

LEMMA AttemptInvariant == \A a \in Anchors : IInv /\ Attempt(a) => IInv'
<1> SUFFICES ASSUME NEW a \in Anchors, IInv, Attempt(a) PROVE IInv'
  OBVIOUS
<1>0. /\ UNCHANGED month /\ UNCHANGED stage /\ UNCHANGED at
      /\ UNCHANGED exceptions /\ UNCHANGED consumed
      /\ queue' \subseteq queue /\ Strategy # "subset_sum" /\ Turn(a)
      /\ Strategy' = Strategy
  BY DEF Attempt, Turn, Strategy
<1>1. at \in 1 .. Len(Strategies) /\ Strategy \in StrategyNames
  BY <1>0, InsideAPass
<1>2. NothingYet' /\ ConsumedKnown'
  BY <1>0, <1>1 DEF NothingYet, ConsumedKnown
<1>3. CASE Proposals(a) = {} /\ LeaveUnmatched(a)
  <2>1. UNCHANGED matches /\ unmatched' \subseteq Anchors
    BY <1>3 DEF LeaveUnmatched, IInv, TypeOK
  <2>2. TypeOK'
    BY <1>0, <2>1, RecordsStay DEF IInv, TypeOK
  <2>3. Kinds' /\ GroupsDiffer' /\ PoolRowsDiffer'
    BY <1>0, <2>1, RecordsStay DEF IInv, Kinds, GroupsDiffer, PoolRowsDiffer
  <2>4. QED
    BY <1>0, <1>2, <2>2, <2>3 DEF IInv
<1>4. CASE \E g \in Proposals(a) : Commit(a, g) /\ UNCHANGED unmatched
  <2>1. PICK g \in Proposals(a) : Commit(a, g) /\ UNCHANGED unmatched
    BY <1>4
  <2>2. g \in Groups /\ g \in Grouped /\ g \notin Claimed
    BY <1>0, <1>1, ProposalsAreFree DEF Grouped
  <2> DEFINE m == [anchor |-> a, tier |-> TierOf[Strategy], group |-> g,
                   rows |-> RowsOf(g),
                   declared |-> IF Strategy = "partial_payment"
                                THEN Distance(a, RowsOf(g)) ELSE 0]
  <2>3. TierOf[Strategy] \in Tiers \ {"T2"}
    BY <1>0, <1>1 DEF TierOf, Tiers, StrategyNames
  <2>4. m \in MatchRecords
    <3>1. m.declared \in Declarable
      BY <2>2 DEF Declarable
    <3>2. RowsOf(g) \subseteq Rows
      BY DEF RowsOf
    <3>3. QED
      BY <2>2, <2>3, <3>1, <3>2 DEF MatchRecords
  <2>5. OfGroup(m)
    BY <2>2, <2>3 DEF OfGroup
  <2>6. matches' = Append(matches, m)
    BY <2>1 DEF Commit
  <2>7. matches \in Seq(MatchRecords)
    BY DEF IInv, TypeOK
  <2> HIDE DEF m
  <2>8. /\ matches' \in Seq(MatchRecords')
        /\ Len(matches) \in Nat /\ Len(matches') = Len(matches) + 1
        /\ \A i \in 1 .. Len(matches) : matches'[i] = matches[i]
        /\ matches'[Len(matches) + 1] = m
    BY <1>0, <2>4, <2>6, <2>7, MatchAppended
  <2>9. TypeOK'
    BY <1>0, <2>1, <2>8, RecordsStay DEF IInv, TypeOK
  <2>10. Kinds'
    BY <1>0, <2>5, <2>8, RecordsStay DEF IInv, Kinds
  <2>11. \A i \in 1 .. Len(matches) : matches[i].group # m.group
    <3>1. m.group = g
      BY DEF m
    <3>2. QED
      BY <2>2, <2>7, <3>1 DEF Claimed, ToSet
  <2>12. GroupsDiffer'
    BY <1>0, <2>8, <2>11, RecordsStay DEF IInv, GroupsDiffer
  <2>13. PoolRowsDiffer'
    BY <1>0, <2>5, <2>8, RecordsStay DEF IInv, PoolRowsDiffer, OfGroup, OfPool
  <2>14. QED
    BY <1>0, <1>2, <2>9, <2>10, <2>12, <2>13 DEF IInv
<1>5. QED
  BY <1>3, <1>4 DEF Attempt

-------------------------------------------------------------------------------
(* What the solver reports. *)

LEMMA OutcomesAreSolutions ==
  ASSUME NEW a, NEW avail \in SUBSET Rows, NEW result \in Outcomes(a, avail)
  PROVE  /\ result.found \subseteq Solutions(a, avail)
         /\ Solutions(a, avail) \subseteq SUBSET avail
<1>1. CASE result = [outcome |-> "timeout", found |-> {}]
  BY <1>1 DEF Solutions
<1>2. CASE \E s \in Searches(a, avail) :
             result = [outcome |-> Reading(s), found |-> s.found]
  BY <1>2 DEF Searches, Solutions
<1>3. QED
  BY <1>1, <1>2 DEF Outcomes, Answers

(* Only one subset was found; and if the search cannot run out of time,     *)
(* there is no other.                                                       *)
LEMMA UniqueOutcome ==
  ASSUME IInv, NEW a, NEW avail \in SUBSET Rows, NEW result \in Outcomes(a, avail),
         result.outcome = "unique"
  PROVE  \E S \in Solutions(a, avail) :
           /\ result.found = {S}
           /\ FALSE \notin month.endings => Solutions(a, avail) = {S}
<1>1. PICK s \in Searches(a, avail) :
        result = [outcome |-> Reading(s), found |-> s.found]
  BY DEF Outcomes, Answers
<1>2. Reading(s) = "unique"
  BY <1>1
<1>3. Cardinality(s.found) = 1 /\ Cardinality(s.found) # MaxSolutions
  BY <1>2 DEF Reading
<1>4. s.found \subseteq Solutions(a, avail) /\ s.finished \in month.endings
  BY DEF Searches
<1>5. IsFiniteSet(s.found)
  <2>1. IsFiniteSet(SUBSET Rows)
    BY RecordAssumption, FS_SUBSET
  <2>2. s.found \subseteq SUBSET Rows
    BY <1>4 DEF Solutions
  <2>3. QED
    BY <2>1, <2>2, FS_Subset
<1>6. PICK S : s.found = {S}
  BY <1>3, <1>5, FS_Singleton
<1>7. FALSE \notin month.endings => s.finished = TRUE
  BY <1>4, MonthAssumption DEF IInv, TypeOK
<1>8. s.finished = TRUE => s.found = Solutions(a, avail)
  BY <1>3 DEF Searches
<1>9. QED
  BY <1>1, <1>4, <1>6, <1>7, <1>8

LEMMA AvailableRows == IInv => Available \subseteq Rows /\ Available \subseteq Pool
  BY DEF Available, Pool, RowsOf

-------------------------------------------------------------------------------
(* The subset pass. *)

(* An anchor that is left changes no match. *)
LEMMA LeavingInvariant ==
  ASSUME IInv, NEW a \in Anchors, Turn(a), LeaveUnmatched(a), UNCHANGED consumed,
         exceptions' \subseteq ExceptionRecords
  PROVE  IInv'
<1>1. /\ UNCHANGED month /\ UNCHANGED stage /\ UNCHANGED at /\ UNCHANGED matches
      /\ queue' \subseteq Anchors /\ unmatched' \subseteq Anchors /\ Strategy' = Strategy
  BY DEF Turn, LeaveUnmatched, IInv, TypeOK, Strategy
<1>2. at \in 1 .. Len(Strategies)
  BY InsideAPass
<1>3. TypeOK'
  BY <1>1, RecordsStay DEF IInv, TypeOK
<1>4. NothingYet' /\ Kinds' /\ GroupsDiffer' /\ PoolRowsDiffer' /\ ConsumedKnown'
  BY <1>1, <1>2, RecordsStay DEF IInv, NothingYet, Kinds, GroupsDiffer,
     PoolRowsDiffer, ConsumedKnown
<1>5. QED
  BY <1>1, <1>3, <1>4 DEF IInv

LEMMA PoolIsEmptyInvariant == \A a \in Anchors : IInv /\ PoolIsEmpty(a) => IInv'
<1> SUFFICES ASSUME NEW a \in Anchors, IInv, PoolIsEmpty(a) PROVE IInv'
  OBVIOUS
<1>1. exceptions' \subseteq ExceptionRecords
  BY DEF PoolIsEmpty, IInv, TypeOK
<1>2. QED
  BY <1>1, LeavingInvariant DEF PoolIsEmpty

LEMMA RefuseSubsetInvariant == \A a \in Anchors : IInv /\ RefuseSubset(a) => IInv'
<1> SUFFICES ASSUME NEW a \in Anchors, IInv, RefuseSubset(a) PROVE IInv'
  OBVIOUS
<1>1. PICK result \in Outcomes(a, Available) :
        exceptions' = exceptions \cup Refusal(a, result)
  BY DEF RefuseSubset
<1>2. result.found \subseteq SUBSET Rows
  BY <1>1, AvailableRows, OutcomesAreSolutions
<1>3. Refusal(a, result) \subseteq ExceptionRecords
  BY <1>2 DEF Refusal, Raise, ExceptionRecords, Codes
<1>4. exceptions' \subseteq ExceptionRecords
  BY <1>1, <1>3 DEF IInv, TypeOK
<1>5. QED
  BY <1>4, LeavingInvariant DEF RefuseSubset

LEMMA CommitSubsetInvariant == \A a \in Anchors : IInv /\ CommitSubset(a) => IInv'
<1> SUFFICES ASSUME NEW a \in Anchors, IInv, CommitSubset(a) PROVE IInv'
  OBVIOUS
<1>0. /\ UNCHANGED month /\ UNCHANGED stage /\ UNCHANGED at
      /\ UNCHANGED exceptions /\ UNCHANGED unmatched
      /\ queue' \subseteq queue /\ Strategy = "subset_sum" /\ Turn(a)
      /\ Strategy' = Strategy
  BY DEF CommitSubset, Turn, Strategy
<1>1. at \in 1 .. Len(Strategies)
  BY <1>0, InsideAPass
<1>2. PICK S \in SUBSET Available : CommitRows(a, S)
  BY AvailableRows, OutcomesAreSolutions DEF CommitSubset
<1>3. S \subseteq Pool /\ S \subseteq Rows /\ S \cap consumed = {}
  BY <1>2, AvailableRows DEF Available
<1> DEFINE m == [anchor |-> a, tier |-> "T2", group |-> NoGroup, rows |-> S,
                 declared |-> 0]
<1>4. m \in MatchRecords
  BY <1>3 DEF MatchRecords, Declarable, Tiers
<1>5. OfPool(m) /\ m.tier = "T2" /\ m.rows = S
  BY <1>3 DEF OfPool
<1>6. matches' = Append(matches, m) /\ consumed' = consumed \cup S
  BY <1>2 DEF CommitRows
<1>7. matches \in Seq(MatchRecords)
  BY DEF IInv, TypeOK
<1> HIDE DEF m
<1>8. /\ matches' \in Seq(MatchRecords')
      /\ Len(matches) \in Nat /\ Len(matches') = Len(matches) + 1
      /\ \A i \in 1 .. Len(matches) : matches'[i] = matches[i]
      /\ matches'[Len(matches) + 1] = m
  BY <1>0, <1>4, <1>6, <1>7, MatchAppended
<1>9. TypeOK'
  BY <1>0, <1>3, <1>6, <1>8, RecordsStay DEF IInv, TypeOK
<1>10. NothingYet'
  BY <1>0, <1>1 DEF NothingYet
<1>11. Kinds'
  <2>1. Strategies[at] = "subset_sum"
    BY <1>0 DEF Strategy
  <2>2. QED
    BY <1>0, <1>1, <1>5, <1>8, <2>1, RecordsStay DEF IInv, Kinds
<1>12. GroupsDiffer'
  BY <1>0, <1>5, <1>8, RecordsStay DEF IInv, GroupsDiffer, OfGroup
<1>13. ConsumedKnown'
  BY <1>0, <1>1, <1>5, <1>6, <1>8 DEF IInv, ConsumedKnown
<1>14. PoolRowsDiffer'
  <2>1. \A i \in 1 .. Len(matches) :
          OfPool(matches[i]) => matches[i].rows \cap S = {}
    BY <1>0, <1>1, <1>3 DEF IInv, ConsumedKnown, OfPool
  <2>2. QED
    BY <1>0, <1>5, <1>8, <2>1, RecordsStay DEF IInv, PoolRowsDiffer
<1>15. QED
  BY <1>0, <1>9, <1>10, <1>11, <1>12, <1>13, <1>14 DEF IInv

LEMMA DisposeInvariant == IInv /\ Dispose => IInv'
<1> SUFFICES ASSUME IInv, Dispose PROVE IInv'
  OBVIOUS
<1>1. /\ UNCHANGED month /\ UNCHANGED at /\ UNCHANGED queue /\ UNCHANGED unmatched
      /\ UNCHANGED consumed /\ UNCHANGED matches /\ stage' = "done" /\ at >= 1
      /\ Strategy' = Strategy
  BY ProfileAssumption DEF Dispose, Strategy
<1>2. PICK P \in Pairings :
        exceptions' = exceptions \cup Dispositions(P) \cup Gaps \cup Variances
  BY DEF Dispose
<1>3. Dispositions(P) \subseteq ExceptionRecords
  <2>1. Breaks(P) \subseteq SUBSET (Anchors \cup Rows)
    BY DEF Breaks, Pairings, SingleAnchors, SingleRows, IInv, TypeOK
  <2>2. UnclaimedGroups \subseteq SUBSET (Anchors \cup Rows)
    BY DEF UnclaimedGroups, RowsOf
  <2>3. QED
    BY <2>1, <2>2 DEF Dispositions, Raise, ExceptionRecords, Codes
<1>4. Gaps \subseteq ExceptionRecords
  <2>1. \A m \in ToSet(matches) : m.anchor \in Anchors /\ m.rows \subseteq Rows
    <3>1. matches \in Seq(MatchRecords)
      BY DEF IInv, TypeOK
    <3>2. \A i \in DOMAIN matches : matches[i] \in MatchRecords
      BY <3>1
    <3>3. \A m \in MatchRecords : m.anchor \in Anchors /\ m.rows \subseteq Rows
      BY DEF MatchRecords
    <3>4. ToSet(matches) = {matches[i] : i \in DOMAIN matches}
      BY DEF ToSet
    <3>5. QED
      BY <3>2, <3>3, <3>4
  <2>2. QED
    BY <2>1 DEF Gaps, Raise, ExceptionRecords, Codes
<1>5. Variances \subseteq ExceptionRecords
  BY MonthAssumption DEF Variances, Raise, ExceptionRecords, Codes, IInv
<1>6. TypeOK'
  BY <1>1, <1>2, <1>3, <1>4, <1>5, RecordsStay DEF IInv, TypeOK
<1>7. NothingYet' /\ Kinds' /\ GroupsDiffer' /\ PoolRowsDiffer' /\ ConsumedKnown'
  BY <1>1, RecordsStay DEF IInv, NothingYet, Kinds, GroupsDiffer,
     PoolRowsDiffer, ConsumedKnown
<1>8. QED
  BY <1>1, <1>6, <1>7 DEF IInv

THEOREM Invariance == Spec => []IInv
<1>1. IInv /\ [Next]_vars => IInv'
  BY StutterInvariant, BeginPassInvariant, AttemptInvariant, PoolIsEmptyInvariant,
     CommitSubsetInvariant, RefuseSubsetInvariant, DisposeInvariant DEF Next
<1>2. QED
  BY InitInvariant, <1>1, PTL DEF Spec

-------------------------------------------------------------------------------
(* What holds in every state of every run, whatever the month holds. *)

(* A run keeps state of its own kind; rows are used only out of its scope.  *)
THEOREM MatchingTypeCorrect == Spec => []TypeOK
<1>1. IInv => TypeOK
  BY DEF IInv
<1>2. QED
  BY <1>1, Invariance, PTL

(* No row backs two matches, whichever strategies made them and in whatever *)
(* order: the claims of a group are shared by every strategy of the run.    *)
THEOREM GroupsBackOneAnchor == Spec => []BacksOneAnchor
<1>1. IInv => BacksOneAnchor
  <2> SUFFICES ASSUME IInv, NEW i \in 1 .. Len(matches), NEW j \in 1 .. Len(matches),
                      i # j
               PROVE  matches[i].rows \cap matches[j].rows = {}
    BY DEF BacksOneAnchor
  <2> USE DEF IInv
  <2>1. \A k \in 1 .. Len(matches) : OfGroup(matches[k]) \/ OfPool(matches[k])
    BY DEF Kinds
  <2>2. CASE OfGroup(matches[i]) /\ OfGroup(matches[j])
    BY <2>2 DEF GroupsDiffer, OfGroup, RowsOf
  <2>3. CASE OfPool(matches[i]) /\ OfPool(matches[j])
    BY <2>3 DEF PoolRowsDiffer
  <2>4. \A m, n : OfGroup(m) /\ OfPool(n) => m.rows \cap n.rows = {}
    \* A row of a group has that group, a row of the pool has none.
    BY RecordAssumption DEF OfGroup, OfPool, Grouped, Pool, RowsOf
  <2>5. CASE OfGroup(matches[i]) /\ OfPool(matches[j])
    BY <2>4, <2>5
  <2>6. CASE OfPool(matches[i]) /\ OfGroup(matches[j])
    BY <2>4, <2>6
  <2>7. QED
    BY <2>1, <2>2, <2>3, <2>5, <2>6
<1>2. QED
  BY <1>1, Invariance, PTL

-------------------------------------------------------------------------------
(* What the checker makes of a match. *)

(* A match of a group that is committed on the strategy's terms is accepted. *)
LEMMA GroupMatchVerifies ==
  ASSUME NEW a, NEW m, OfGroup(m), m.anchor = a,
         \/ m.declared = 0 /\ Distance(a, m.rows) <= Tolerance
         \/ m.declared = Distance(a, m.rows)
  PROVE  Verified(m)
<1>1. m.declared = 0 => Distance(a, m.rows) <= Tolerance
  BY ProfileAssumption
<1>2. {r \in Rows : GroupOf[r] # NoGroup /\ \E q \in m.rows : GroupOf[q] = GroupOf[r]}
        \subseteq m.rows \cup month.scope
  BY DEF OfGroup, RowsOf
<1>3. QED
  BY <1>1, <1>2 DEF Verified

(* So is one of pool rows that explain the credit within the tolerance. *)
LEMMA PoolMatchVerifies ==
  ASSUME NEW m, OfPool(m), m.declared = 0, Distance(m.anchor, m.rows) <= Tolerance
  PROVE  Verified(m)
  BY DEF Verified, OfPool, Pool, RowsOf

(* The residual a strategy proposes is nil, tolerated, or declared in full. *)
LEMMA ProposedResidual ==
  ASSUME NEW a, Strategy \in StrategyNames \ {"subset_sum"}, NEW g \in Proposals(a)
  PROVE  Strategy # "partial_payment" => Distance(a, RowsOf(g)) <= Tolerance
<1>1. CASE Strategy = "exact"
  BY <1>1, ProfileAssumption DEF Proposals, Exact, Distance
<1>2. CASE Strategy = "tolerant"
  BY <1>2 DEF Proposals, Tolerant, Viable, Comparable
<1>3. QED
  BY <1>1, <1>2 DEF StrategyNames

(* What a strategy's commitment appends. *)
LEMMA GroupMatchAppended ==
  ASSUME IInv, NEW a \in Anchors, Attempt(a), matches' # matches
  PROVE  \E m \in MatchRecords :
           /\ matches' = Append(matches, m)
           /\ OfGroup(m) /\ m.anchor = a
           /\ \/ m.declared = 0 /\ Distance(a, m.rows) <= Tolerance
              \/ m.declared = Distance(a, m.rows)
<1>1. PICK g \in Proposals(a) : Commit(a, g)
  BY DEF Attempt, LeaveUnmatched
<1>2. Strategy \in StrategyNames \ {"subset_sum"}
  BY InsideAPass DEF Attempt
<1>3. g \in Grouped /\ g \in Groups
  BY <1>2, ProposalsAreFree DEF Grouped
<1> DEFINE m == [anchor |-> a, tier |-> TierOf[Strategy], group |-> g,
                 rows |-> RowsOf(g),
                 declared |-> IF Strategy = "partial_payment"
                              THEN Distance(a, RowsOf(g)) ELSE 0]
<1>4. TierOf[Strategy] \in Tiers \ {"T2"}
  BY <1>2 DEF TierOf, Tiers, StrategyNames
<1>5. m \in MatchRecords
  <2>1. m.declared \in Declarable
    BY <1>3 DEF Declarable
  <2>2. RowsOf(g) \subseteq Rows
    BY DEF RowsOf
  <2>3. QED
    BY <1>3, <1>4, <2>1, <2>2 DEF MatchRecords
<1>6. OfGroup(m) /\ m.anchor = a
  BY <1>3, <1>4 DEF OfGroup
<1>7. \/ m.declared = 0 /\ Distance(a, m.rows) <= Tolerance
      \/ m.declared = Distance(a, m.rows)
  BY <1>2, ProposedResidual
<1>8. matches' = Append(matches, m)
  BY <1>1 DEF Commit
<1> HIDE DEF m
<1>9. QED
  BY <1>5, <1>6, <1>7, <1>8

(* Whatever is appended to the matches, the checker accepts. *)
LEMMA VerificationStep ==
  IInv /\ EveryMatchVerifies /\ [Next]_vars => EveryMatchVerifies'
<1> SUFFICES ASSUME IInv, EveryMatchVerifies, [Next]_vars PROVE EveryMatchVerifies'
  OBVIOUS
<1>1. UNCHANGED month
  BY DEF Next, vars, BeginPass, Dispose, Attempt, PoolIsEmpty, CommitSubset,
     RefuseSubset, Turn
<1>2. \A m : Verified(m)' = Verified(m)
  BY <1>1 DEF Verified, Distance, Residual, Total
<1>3. \A i \in 1 .. Len(matches) : Verified(matches[i])
  BY DEF EveryMatchVerifies, ToSet, IInv, TypeOK
<1>4. ASSUME NEW m \in MatchRecords, matches' = Append(matches, m), Verified(m)
      PROVE  EveryMatchVerifies'
  <2>1. /\ matches' \in Seq(MatchRecords')
        /\ Len(matches) \in Nat /\ Len(matches') = Len(matches) + 1
        /\ \A i \in 1 .. Len(matches) : matches'[i] = matches[i]
        /\ matches'[Len(matches) + 1] = m
    BY <1>1, <1>4, MatchAppended DEF IInv, TypeOK
  <2>2. \A i \in 1 .. Len(matches') : Verified(matches'[i])
    BY <1>3, <1>4, <2>1
  <2>3. QED
    BY <1>2, <2>1, <2>2 DEF EveryMatchVerifies, ToSet
<1>5. CASE UNCHANGED matches
  BY <1>2, <1>5 DEF EveryMatchVerifies
<1>6. ASSUME NEW a \in Anchors, Attempt(a), matches' # matches
      PROVE  EveryMatchVerifies'
  BY <1>4, <1>6, GroupMatchAppended, GroupMatchVerifies
<1>7. ASSUME NEW a \in Anchors, CommitSubset(a)
      PROVE  EveryMatchVerifies'
  <2>1. PICK S \in Solutions(a, Available) : CommitRows(a, S)
    BY <1>7, AvailableRows, OutcomesAreSolutions DEF CommitSubset
  <2>2. S \subseteq Pool /\ S \subseteq Rows /\ Distance(a, S) <= Tolerance
    BY AvailableRows DEF Solutions
  <2> DEFINE m == [anchor |-> a, tier |-> "T2", group |-> NoGroup, rows |-> S,
                   declared |-> 0]
  <2>3. m \in MatchRecords
    BY <2>2 DEF MatchRecords, Declarable, Tiers
  <2>4. OfPool(m) /\ m.declared = 0 /\ m.anchor = a /\ m.rows = S
    BY <2>2 DEF OfPool
  <2>5. matches' = Append(matches, m)
    BY <2>1 DEF CommitRows
  <2> HIDE DEF m
  <2>6. QED
    BY <1>4, <2>2, <2>3, <2>4, <2>5, PoolMatchVerifies
<1>8. QED
  BY <1>5, <1>6, <1>7 DEF Next, vars, BeginPass, Dispose, PoolIsEmpty, RefuseSubset,
     LeaveUnmatched

(* Every match the engine commits, its independent checker accepts from the *)
(* records alone: a refuted match is never the engine's own.                *)
THEOREM MatchesVerify == Spec => []EveryMatchVerifies
<1>1. Init => EveryMatchVerifies
  BY DEF Init, EveryMatchVerifies, ToSet
<1>2. QED
  BY <1>1, Invariance, VerificationStep, PTL DEF Spec

-------------------------------------------------------------------------------
(* What the solver proves of a subset match, when it cannot run out of time. *)

(* The rows before the i-th match: what the pool no longer holds at it. *)
Earlier(i) == UNION {matches[j].rows : j \in 1 .. i - 1}
UniqueAt(i) ==
  matches[i].tier = "T2" =>
    Solutions(matches[i].anchor, Pool \ Earlier(i)) = {matches[i].rows}

(* In a subset pass the pool has lost what earlier matches hold, no more. *)
LEMMA AvailableIsTheRest ==
  ASSUME IInv, at \in 1 .. Len(Strategies), Strategy = "subset_sum"
  PROVE  Available = Pool \ Earlier(Len(matches) + 1)
<1> USE DEF IInv
<1>1. Len(matches) \in Nat
  BY DEF TypeOK
<1>2. ASSUME NEW r \in Pool
      PROVE  r \in consumed <=> \E i \in 1 .. Len(matches) : r \in matches[i].rows
  <2>1. r \in Rows
    BY <1>2 DEF Pool, RowsOf
  <2>2. r \in consumed <=>
          \E i \in 1 .. Len(matches) : matches[i].tier = "T2" /\ r \in matches[i].rows
    BY <2>1 DEF ConsumedKnown
  <2>3. \A m : OfGroup(m) => r \notin m.rows
    BY <1>2, RecordAssumption DEF OfGroup, Grouped, Pool, RowsOf
  <2>4. QED
    BY <2>2, <2>3 DEF Kinds, OfPool
<1>3. Earlier(Len(matches) + 1) = UNION {matches[j].rows : j \in 1 .. Len(matches)}
  BY <1>1 DEF Earlier
<1>4. QED
  BY <1>2, <1>3 DEF Available

LEMMA UniquenessStep ==
  ASSUME IInv, SubsetIsUnique, [Next]_vars
  PROVE  SubsetIsUnique'
<1>1. UNCHANGED month
  BY DEF Next, vars, BeginPass, Dispose, Attempt, PoolIsEmpty, CommitSubset,
     RefuseSubset, Turn
<1> SUFFICES ASSUME FALSE \notin month.endings
             PROVE  SubsetIsUnique'
  BY <1>1 DEF SubsetIsUnique
<1>0. \A i \in 1 .. Len(matches) : UniqueAt(i)
  BY DEF SubsetIsUnique, UniqueAt, Earlier
<1>2. Pool' = Pool /\ (\A a, avail : Solutions(a, avail)' = Solutions(a, avail))
  BY <1>1 DEF Pool, RowsOf, Solutions, Distance, Residual, Total
<1>3. CASE UNCHANGED matches
  <2> SUFFICES ASSUME NEW i \in 1 .. Len(matches'), matches'[i].tier = "T2"
               PROVE  Solutions(matches'[i].anchor,
                                Pool \ UNION {matches'[j].rows : j \in 1 .. i - 1})
                        = {matches'[i].rows}
    BY <1>2 DEF SubsetIsUnique
  <2>1. UNION {matches'[j].rows : j \in 1 .. i - 1} = Earlier(i)
    BY <1>3 DEF Earlier
  <2>2. QED
    BY <1>0, <1>3, <2>1 DEF UniqueAt
<1>4. ASSUME NEW m \in MatchRecords, matches' = Append(matches, m),
             m.tier = "T2" =>
               Solutions(m.anchor, Pool \ Earlier(Len(matches) + 1)) = {m.rows}
      PROVE  SubsetIsUnique'
  <2>1. /\ Len(matches) \in Nat /\ Len(matches') = Len(matches) + 1
        /\ \A i \in 1 .. Len(matches) : matches'[i] = matches[i]
        /\ matches'[Len(matches) + 1] = m
    BY <1>1, <1>4, MatchAppended DEF IInv, TypeOK
  <2> SUFFICES ASSUME NEW i \in 1 .. Len(matches'), matches'[i].tier = "T2"
               PROVE  Solutions(matches'[i].anchor,
                                Pool \ UNION {matches'[j].rows : j \in 1 .. i - 1})
                        = {matches'[i].rows}
    BY <1>2 DEF SubsetIsUnique
  <2>2. UNION {matches'[j].rows : j \in 1 .. i - 1} = Earlier(i)
    BY <2>1 DEF Earlier
  <2>3. CASE i \in 1 .. Len(matches)
    BY <1>0, <2>1, <2>2, <2>3 DEF UniqueAt
  <2>4. CASE i = Len(matches) + 1
    BY <1>4, <2>1, <2>2, <2>4
  <2>5. QED
    BY <2>1, <2>3, <2>4
<1>5. ASSUME NEW a \in Anchors, CommitSubset(a)
      PROVE  SubsetIsUnique'
  <2>1. at \in 1 .. Len(Strategies) /\ Strategy = "subset_sum"
    BY <1>5, InsideAPass DEF CommitSubset
  <2>2. PICK result \in Outcomes(a, Available) :
          result.outcome = "unique" /\ \E S \in result.found : CommitRows(a, S)
    BY <1>5 DEF CommitSubset
  <2>3. Available \in SUBSET Rows
    BY AvailableRows
  <2>4. PICK S \in Solutions(a, Available) :
          result.found = {S} /\ Solutions(a, Available) = {S}
    BY <2>2, <2>3, UniqueOutcome
  <2>5. CommitRows(a, S) /\ S \subseteq Rows
    BY <2>2, <2>3, <2>4 DEF Solutions
  <2> DEFINE m == [anchor |-> a, tier |-> "T2", group |-> NoGroup, rows |-> S,
                   declared |-> 0]
  <2>6. m \in MatchRecords
    BY <2>5 DEF MatchRecords, Declarable, Tiers
  <2>7. matches' = Append(matches, m) /\ m.anchor = a /\ m.rows = S
    BY <2>5 DEF CommitRows
  <2> HIDE DEF m
  <2>8. Solutions(m.anchor, Pool \ Earlier(Len(matches) + 1)) = {m.rows}
    BY <2>1, <2>4, <2>7, AvailableIsTheRest
  <2>9. QED
    BY <1>4, <2>6, <2>7, <2>8
<1>6. ASSUME NEW a \in Anchors, Attempt(a), matches' # matches
      PROVE  SubsetIsUnique'
  BY <1>4, <1>6, GroupMatchAppended DEF OfGroup
<1>7. QED
  BY <1>3, <1>5, <1>6 DEF Next, vars, BeginPass, Dispose, PoolIsEmpty, RefuseSubset,
     LeaveUnmatched

(* A subset is committed only if nothing else in the pool explains the      *)
(* credit, in every month whose searches end before their time limit.       *)
THEOREM CommittedSubsetsAreUnique == Spec => []SubsetIsUnique
<1>1. Init => SubsetIsUnique
  BY DEF Init, SubsetIsUnique
<1>2. IInv /\ SubsetIsUnique /\ [Next]_vars => SubsetIsUnique'
  BY UniquenessStep
<1>3. QED
  BY <1>1, <1>2, Invariance, PTL DEF Spec

-------------------------------------------------------------------------------
(* What becomes of every input.                                             *)

\* From the first pass on, an anchor in scope is matched or still in the run's hands.
EveryAnchorIsHeld ==
  at >= 1 => InScopeAnchors \subseteq MatchedAnchors \cup queue \cup unmatched

\* The passes handle what is in scope only.
OnlyInScope ==
  /\ queue \cup unmatched \cup MatchedAnchors \subseteq InScopeAnchors
  /\ stage = "matching" =>
       \A e \in exceptions :
         e.records \subseteq InScopeAnchors /\ UNION e.alternatives \subseteq Pool

FInv == EveryAnchorIsHeld /\ OnlyInScope

LEMMA MatchedGrow ==
  ASSUME matches \in Seq(MatchRecords), NEW m \in MatchRecords,
         UNCHANGED month, matches' = Append(matches, m)
  PROVE  /\ MatchedAnchors' = MatchedAnchors \cup {m.anchor}
         /\ \A x \in ToSet(matches') : x \in ToSet(matches) \/ x = m
<1>1. /\ matches' \in Seq(MatchRecords')
      /\ Len(matches) \in Nat /\ Len(matches') = Len(matches) + 1
      /\ \A i \in 1 .. Len(matches) : matches'[i] = matches[i]
      /\ matches'[Len(matches) + 1] = m
  BY MatchAppended
<1>2. ToSet(matches') = ToSet(matches) \cup {m}
  <2>1. DOMAIN matches = 1 .. Len(matches) /\ DOMAIN matches' = 1 .. Len(matches) + 1
    BY <1>1
  <2>2. \A i \in 1 .. Len(matches) + 1 : i \in 1 .. Len(matches) \/ i = Len(matches) + 1
    BY <1>1
  <2>3. QED
    BY <1>1, <2>1, <2>2 DEF ToSet
<1>3. QED
  BY <1>2 DEF MatchedAnchors

(* An anchor's turn ends in one of two ways: with one more match, of that   *)
(* anchor, or with the anchor left, and then perhaps with a refusal.        *)
MatchedNow(a) ==
  /\ \E m \in MatchRecords : m.anchor = a /\ matches' = Append(matches, m)
  /\ UNCHANGED <<unmatched, exceptions>>

LeftNow(a) ==
  /\ LeaveUnmatched(a)
  /\ \/ UNCHANGED exceptions
     \/ /\ Strategy = "subset_sum"
        /\ \E result \in Outcomes(a, Available) :
             exceptions' = exceptions \cup Refusal(a, result)

LEMMA TurnEnds ==
  ASSUME IInv, NEW a \in Anchors,
         Attempt(a) \/ PoolIsEmpty(a) \/ CommitSubset(a) \/ RefuseSubset(a)
  PROVE  Turn(a) /\ (MatchedNow(a) \/ LeftNow(a))
<1>1. CASE Attempt(a)
  <2>1. CASE LeaveUnmatched(a)
    BY <1>1, <2>1 DEF Attempt, LeftNow
  <2>2. CASE \E g \in Proposals(a) : Commit(a, g) /\ UNCHANGED unmatched
    <3>1. matches' # matches
      <4>1. matches \in Seq(MatchRecords)
        BY DEF IInv, TypeOK
      <4>2. PICK m : matches' = Append(matches, m)
        BY <2>2 DEF Commit
      <4>3. Len(matches') = Len(matches) + 1 /\ Len(matches) \in Nat
        BY <4>1, <4>2
      <4>4. QED
        BY <4>3
    <3>2. QED
      BY <1>1, <2>2, <3>1, GroupMatchAppended DEF Attempt, MatchedNow
  <2>3. QED
    BY <1>1, <2>1, <2>2 DEF Attempt
<1>2. CASE PoolIsEmpty(a)
  BY <1>2 DEF PoolIsEmpty, LeftNow
<1>3. CASE RefuseSubset(a)
  BY <1>3 DEF RefuseSubset, LeftNow
<1>4. CASE CommitSubset(a)
  <2>1. PICK S \in SUBSET Available : CommitRows(a, S)
    BY <1>4, AvailableRows, OutcomesAreSolutions DEF CommitSubset
  <2> DEFINE m == [anchor |-> a, tier |-> "T2", group |-> NoGroup, rows |-> S,
                   declared |-> 0]
  <2>2. m \in MatchRecords /\ m.anchor = a
    BY <2>1, AvailableRows DEF MatchRecords, Declarable, Tiers
  <2>3. matches' = Append(matches, m)
    BY <2>1 DEF CommitRows
  <2> HIDE DEF m
  <2>4. QED
    BY <1>4, <2>2, <2>3 DEF CommitSubset, MatchedNow
<1>5. QED
  BY <1>1, <1>2, <1>3, <1>4

LEMMA RefusalsInScope ==
  ASSUME IInv, NEW a \in InScopeAnchors, NEW result \in Outcomes(a, Available),
         NEW e \in Refusal(a, result)
  PROVE  /\ e.records = {a} /\ e.code \in {"E09", "E13"}
         /\ UNION e.alternatives \subseteq Pool
<1>1. result.found \subseteq SUBSET Available
  BY AvailableRows, OutcomesAreSolutions
<1>2. e = Raise("E09", {a}, result.found) \/ e = Raise("E13", {a}, {})
  BY DEF Refusal
<1>3. QED
  BY <1>1, <1>2, AvailableRows DEF Raise

LEMMA FatesInit == Init => FInv
  BY DEF Init, FInv, EveryAnchorIsHeld, OnlyInScope, MatchedAnchors, ToSet

LEMMA FatesStep == IInv /\ FInv /\ [Next]_vars => FInv'
<1> SUFFICES ASSUME IInv, FInv, [Next]_vars PROVE FInv'
  OBVIOUS
<1> USE DEF FInv
<1>1. CASE UNCHANGED vars
  BY <1>1 DEF vars, EveryAnchorIsHeld, OnlyInScope, InScopeAnchors, MatchedAnchors,
     Pool, RowsOf
<1>2. CASE BeginPass
  <2>1. /\ UNCHANGED month /\ UNCHANGED stage /\ UNCHANGED matches /\ UNCHANGED exceptions
        /\ queue = {} /\ at' = at + 1 /\ at \in Nat /\ queue' = Pending /\ unmatched' = {}
    BY <1>2, ProfileAssumption DEF BeginPass, IInv, TypeOK
  <2>2. InScopeAnchors' = InScopeAnchors /\ MatchedAnchors' = MatchedAnchors /\ Pool' = Pool
    BY <2>1, RecordsStay DEF MatchedAnchors
  <2>3. unmatched # {} => at >= 1
    BY <2>1 DEF IInv, NothingYet
  <2>4. EveryAnchorIsHeld'
    BY <2>1, <2>2, <2>3 DEF EveryAnchorIsHeld, Pending
  <2>5. OnlyInScope'
    BY <2>1, <2>2 DEF OnlyInScope, Pending
  <2>6. QED
    BY <2>4, <2>5
<1>3. CASE Dispose
  BY <1>3, RecordsStay DEF Dispose, EveryAnchorIsHeld, OnlyInScope, MatchedAnchors
<1>4. ASSUME NEW a \in Anchors,
             Attempt(a) \/ PoolIsEmpty(a) \/ CommitSubset(a) \/ RefuseSubset(a)
      PROVE  FInv'
  <2>1. Turn(a) /\ (MatchedNow(a) \/ LeftNow(a))
    BY <1>4, TurnEnds
  <2>2. /\ UNCHANGED month /\ UNCHANGED stage /\ UNCHANGED at /\ stage = "matching"
        /\ a \in queue /\ queue' = queue \ {a}
    BY <2>1 DEF Turn
  <2>3. a \in InScopeAnchors
    BY <2>2 DEF OnlyInScope
  <2>4. InScopeAnchors' = InScopeAnchors /\ Pool' = Pool
    BY <2>2, RecordsStay
  <2>5. CASE MatchedNow(a)
    <3>1. MatchedAnchors' = MatchedAnchors \cup {a}
      BY <2>2, <2>5, MatchedGrow DEF MatchedNow, IInv, TypeOK
    <3>2. EveryAnchorIsHeld'
      BY <2>2, <2>4, <2>5, <3>1 DEF MatchedNow, EveryAnchorIsHeld
    <3>3. OnlyInScope'
      BY <2>2, <2>3, <2>4, <2>5, <3>1 DEF MatchedNow, OnlyInScope
    <3>4. QED
      BY <3>2, <3>3
  <2>6. CASE LeftNow(a)
    <3>1. MatchedAnchors' = MatchedAnchors /\ unmatched' = unmatched \cup {a}
      BY <2>6 DEF LeftNow, LeaveUnmatched, MatchedAnchors
    <3>2. EveryAnchorIsHeld'
      BY <2>2, <2>4, <3>1 DEF EveryAnchorIsHeld
    <3>3. \A e \in exceptions' :
            e.records \subseteq InScopeAnchors /\ UNION e.alternatives \subseteq Pool
      <4>1. \A e \in exceptions :
              e.records \subseteq InScopeAnchors /\ UNION e.alternatives \subseteq Pool
        BY <2>2 DEF OnlyInScope
      <4>2. CASE UNCHANGED exceptions
        BY <4>1, <4>2
      <4>3. CASE \E result \in Outcomes(a, Available) :
                   exceptions' = exceptions \cup Refusal(a, result)
        BY <2>3, <4>1, <4>3, RefusalsInScope
      <4>4. QED
        BY <2>6, <4>2, <4>3 DEF LeftNow
    <3>4. OnlyInScope'
      BY <2>2, <2>3, <2>4, <3>1, <3>3 DEF OnlyInScope
    <3>5. QED
      BY <3>2, <3>4
  <2>7. QED
    BY <2>1, <2>5, <2>6
<1>5. QED
  BY <1>1, <1>2, <1>3, <1>4 DEF Next

(* The last pass leaves what it could not match to the passes that write    *)
(* exceptions, and these leave out nothing.                                 *)
LEMMA LeftoversAreRaised ==
  ASSUME IInv, Dispose
  PROVE  /\ unmatched \subseteq Seen'
         /\ \A g \in Unclaimed : RowsOf(g) \subseteq Seen'
<1>1. PICK P \in Pairings :
        exceptions' = exceptions \cup Dispositions(P) \cup Gaps \cup Variances
  BY DEF Dispose
<1>2. Seen \subseteq Seen'
  BY <1>1 DEF Seen
<1>3. \A x \in Breaks(P) \cup UnclaimedGroups : x \subseteq Seen'
  <2>1. \A x \in Breaks(P) \cup UnclaimedGroups : Raise("E14", x, {}) \in exceptions'
    BY <1>1 DEF Dispositions
  <2>2. \A x : Raise("E14", x, {}).records = x
    BY DEF Raise
  <2>3. QED
    BY <2>1, <2>2 DEF Seen
<1>4. SingleAnchors \cup SingleRows \subseteq Seen'
  <2> SUFFICES ASSUME NEW x \in SingleAnchors \cup SingleRows
               PROVE  \E b \in Breaks(P) : x \in b
    BY <1>3
  <2>1. CASE \E p \in P : x \in {p[1], p[2]}
    BY <2>1 DEF Breaks
  <2>2. CASE ~ \E p \in P : x \in {p[1], p[2]}
    <3>1. {x} \in Breaks(P)
      BY <2>2 DEF Breaks
    <3>2. QED
      BY <3>1
  <2>3. QED
    BY <2>1, <2>2
<1>5. unmatched \subseteq Seen'
  BY <1>2, <1>4 DEF SingleAnchors
<1>6. ASSUME NEW g \in Unclaimed, NEW r \in RowsOf(g)
      PROVE  r \in Seen'
  <2>1. CASE Cardinality(RowsOf(g)) = 1
    <3>1. IsFiniteSet(RowsOf(g))
      BY RecordAssumption, FS_Subset DEF RowsOf
    <3>2. RowsOf(g) = {r}
      BY <1>6, <2>1, <3>1, FS_Singleton
    <3>3. r \in Seen \/ r \in SingleRows
      BY <1>6, <3>2 DEF SingleRows, RowsOf
    <3>4. QED
      BY <1>2, <1>4, <3>3
  <2>2. CASE Cardinality(RowsOf(g)) # 1
    <3>1. CASE RowsOf(g) \subseteq Seen \cup SingleRows
      BY <1>2, <1>4, <1>6, <3>1
    <3>2. CASE ~(RowsOf(g) \subseteq Seen \cup SingleRows)
      <4>1. RowsOf(g) \in UnclaimedGroups
        BY <1>6, <2>2, <3>2 DEF UnclaimedGroups
      <4>2. QED
        BY <1>3, <1>6, <4>1
    <3>3. QED
      BY <3>1, <3>2
  <2>3. QED
    BY <2>1, <2>2
<1>7. QED
  BY <1>5, <1>6

(* A group that is claimed is matched row for row. *)
LEMMA ClaimedIsMatched ==
  ASSUME IInv, NEW g \in Groups, g \in Claimed
  PROVE  RowsOf(g) \subseteq MatchedRows
<1>1. PICK i \in DOMAIN matches : matches[i].group = g
  BY DEF Claimed, ToSet
<1>2. i \in 1 .. Len(matches)
  BY <1>1 DEF IInv, TypeOK
<1>3. ~OfPool(matches[i])
  BY <1>1, RecordAssumption DEF OfPool
<1>4. matches[i].rows = RowsOf(g)
  BY <1>1, <1>2, <1>3 DEF IInv, Kinds, OfGroup
<1>5. QED
  BY <1>1, <1>4 DEF MatchedRows, ToSet

(* What the passes touch is in scope, except the rows found off their peers. *)
LEMMA OutOfScopeIsLeft ==
  ASSUME IInv, FInv, Dispose, NEW x \in month.scope
  PROVE  x \notin MatchedAnchors \cup MatchedRows /\ (x \in Seen' => x \in month.odd)
<1>1. PICK P \in Pairings :
        exceptions' = exceptions \cup Dispositions(P) \cup Gaps \cup Variances
  BY DEF Dispose
<1>2. month.scope \cap InScopeAnchors = {}
  BY DEF InScopeAnchors
<1>3. \A g : x \notin RowsOf(g)
  BY DEF RowsOf
<1>4. \A m \in ToSet(matches) : m.anchor \in InScopeAnchors /\ x \notin m.rows
  <2> SUFFICES ASSUME NEW i \in DOMAIN matches
               PROVE  matches[i].anchor \in InScopeAnchors /\ x \notin matches[i].rows
    BY DEF ToSet
  <2>1. i \in 1 .. Len(matches)
    BY DEF IInv, TypeOK
  <2>2. x \notin matches[i].rows
    BY <1>3, <2>1 DEF IInv, Kinds, OfGroup, OfPool, Pool
  <2>3. matches[i].anchor \in MatchedAnchors
    BY DEF MatchedAnchors, ToSet
  <2>4. QED
    BY <2>2, <2>3 DEF FInv, OnlyInScope
<1>5. x \notin MatchedAnchors \cup MatchedRows
  BY <1>2, <1>4 DEF MatchedAnchors, MatchedRows
<1>6. \A e \in exceptions : x \notin e.records \cup UNION e.alternatives
  BY <1>2, <1>3 DEF FInv, OnlyInScope, Dispose, Pool
<1>7. \A e \in Dispositions(P) : x \notin e.records \cup UNION e.alternatives
  <2>1. SingleAnchors \subseteq InScopeAnchors
    BY DEF SingleAnchors, FInv, OnlyInScope
  <2>2. x \notin SingleAnchors \cup SingleRows
    BY <1>2, <1>3, <2>1 DEF SingleRows
  <2>3. \A b \in Breaks(P) : x \notin b
    BY <2>2 DEF Breaks, Pairings
  <2>4. \A b \in UnclaimedGroups : x \notin b
    BY <1>3 DEF UnclaimedGroups
  <2>5. QED
    BY <2>3, <2>4 DEF Dispositions, Raise
<1>8. \A e \in Gaps : x \notin e.records \cup UNION e.alternatives
  BY <1>2, <1>4 DEF Gaps, Raise
<1>9. x \in Seen' => x \in month.odd
  <2>1. \A e \in Variances : e.records = month.odd /\ e.alternatives = {}
    BY DEF Variances, Raise
  <2>2. ASSUME NEW e \in exceptions', x \in e.records \cup UNION e.alternatives
        PROVE  x \in month.odd
    BY <1>1, <1>6, <1>7, <1>8, <2>1, <2>2
  <2>3. QED
    BY <2>2 DEF Seen
<1>10. QED
  BY <1>5, <1>9

LEMMA FatesAtTheEnd ==
  ASSUME IInv, FInv, Dispose
  PROVE  EveryInputHasAFate'
<1>1. /\ UNCHANGED month /\ UNCHANGED matches /\ queue = {} /\ at >= 1
  BY ProfileAssumption DEF Dispose
<1>2. /\ MatchedAnchors' = MatchedAnchors /\ MatchedRows' = MatchedRows
  BY <1>1 DEF MatchedAnchors, MatchedRows
<1> SUFFICES ASSUME NEW x \in Anchors \cup {r \in Rows : GroupOf[r] # NoGroup}
             PROVE  IF x \in month.scope THEN Fate(x)' = "out_of_scope" \/ x \in month.odd
                                         ELSE Fate(x)' # "undisposed"
  BY <1>1 DEF EveryInputHasAFate
<1> DEFINE matched == MatchedAnchors \cup MatchedRows
<1>3. Fate(x)' = CASE x \in matched -> "matched"
                   [] x \notin matched /\ x \in Seen' -> "excepted"
                   [] x \notin matched \cup Seen' /\ x \in month.scope -> "out_of_scope"
                   [] OTHER -> "undisposed"
  BY <1>1, <1>2 DEF Fate
<1>4. CASE x \in month.scope
  BY <1>3, <1>4, OutOfScopeIsLeft
<1>5. CASE x \notin month.scope
  <2>1. x \in matched \/ x \in Seen'
    <3>1. CASE x \in Anchors
      BY <1>1, <1>5, <3>1, LeftoversAreRaised DEF InScopeAnchors, FInv, EveryAnchorIsHeld
    <3>2. CASE x \in Rows /\ GroupOf[x] # NoGroup
      <4>1. GroupOf[x] \in Groups /\ x \in RowsOf(GroupOf[x])
        BY <1>5, <3>2, RecordAssumption DEF RowsOf
      <4>2. GroupOf[x] \in Grouped
        BY <4>1 DEF Grouped
      <4>3. QED
        BY <4>1, <4>2, ClaimedIsMatched, LeftoversAreRaised DEF Unclaimed
    <3>3. QED
      BY <3>1, <3>2
  <2>2. CASE x \in matched
    BY <1>3, <1>5, <2>2
  <2>3. CASE x \notin matched /\ x \in Seen'
    BY <1>3, <1>5, <2>3
  <2>4. QED
    BY <2>1, <2>2, <2>3
<1>6. QED
  BY <1>4, <1>5

(* When a run ends, every anchor and every row that a source grouped is     *)
(* matched, excepted or declared out of scope, whatever the strategies were *)
(* and whatever the solver refused: no input of a close disappears in it.   *)
THEOREM NothingDisappears == Spec => []EveryInputHasAFate
<1>1. Init => FInv /\ EveryInputHasAFate
  BY FatesInit DEF Init, EveryInputHasAFate
<1>2. IInv /\ FInv /\ EveryInputHasAFate /\ [Next]_vars => EveryInputHasAFate'
  <2> SUFFICES ASSUME IInv, FInv, EveryInputHasAFate, [Next]_vars, stage' = "done"
               PROVE  EveryInputHasAFate'
    BY DEF EveryInputHasAFate
  <2>1. Dispose \/ UNCHANGED vars
    BY DEF Next, BeginPass, Attempt, PoolIsEmpty, CommitSubset, RefuseSubset, Turn
  <2>2. CASE UNCHANGED vars
    BY <2>2 DEF vars, EveryInputHasAFate, Fate, MatchedAnchors, MatchedRows, Seen
  <2>3. QED
    BY <2>1, <2>2, FatesAtTheEnd
<1>3. QED
  BY <1>1, <1>2, Invariance, FatesStep, PTL DEF Spec

-------------------------------------------------------------------------------
(* One fate for each, as long as somebody is left over.                      *)

SubsetPassLast ==
  \A k \in 1 .. Len(Strategies) : Strategies[k] = "subset_sum" => k = Len(Strategies)

\* Nobody waits and is left in one pass, and a refused anchor is one that is left.
WhereTheyWait ==
  /\ queue \cap unmatched = {}
  /\ stage = "matching" => /\ Refused \subseteq unmatched
                           /\ exceptions # {} => at = Len(Strategies)

\* A pass that left somebody handed on only those whom nothing had matched.
WaitersAreUnmatched ==
  ~(InScopeAnchors \subseteq MatchedAnchors)
    => (queue \cup unmatched) \cap MatchedAnchors = {}

AInv == WhereTheyWait /\ WaitersAreUnmatched /\ LeftoverKeepsFatesApart

LEMMA ApartInit == Init => AInv
  BY DEF Init, AInv, WhereTheyWait, WaitersAreUnmatched, LeftoverKeepsFatesApart,
     MatchedAnchors, ToSet, Refused

(* One more match, of an anchor that waited: whoever was apart stays apart. *)
LEMMA ApartMatched ==
  ASSUME IInv, AInv, NEW a \in Anchors, Turn(a), MatchedNow(a)
  PROVE  AInv'
<1>1. PICK m \in MatchRecords : m.anchor = a /\ matches' = Append(matches, m)
  BY DEF MatchedNow
<1>2. /\ UNCHANGED month /\ UNCHANGED stage /\ UNCHANGED at /\ UNCHANGED unmatched
      /\ UNCHANGED exceptions /\ a \in queue /\ queue' = queue \ {a}
  BY DEF Turn, MatchedNow
<1>3. /\ InScopeAnchors' = InScopeAnchors /\ Refused' = Refused
      /\ MatchedAnchors' = MatchedAnchors \cup {a}
  BY <1>1, <1>2, RecordsStay, MatchedGrow DEF Refused, IInv, TypeOK
<1>4. WhereTheyWait'
  BY <1>2, <1>3 DEF AInv, WhereTheyWait
<1>5. ASSUME ~(InScopeAnchors \subseteq MatchedAnchors)'
      PROVE  /\ a \notin MatchedAnchors
             /\ ((queue \cup unmatched) \cap MatchedAnchors = {})'
             /\ \A i, j \in 1 .. Len(matches) :
                  matches[i].anchor = matches[j].anchor => i = j
             /\ MatchedAnchors' \cap Refused' = {}
  <2>1. ~(InScopeAnchors \subseteq MatchedAnchors)
    BY <1>3, <1>5
  <2>2. (queue \cup unmatched) \cap MatchedAnchors = {}
    BY <2>1 DEF AInv, WaitersAreUnmatched
  <2>3. a \notin unmatched
    BY <1>2 DEF AInv, WhereTheyWait
  <2>4. a \notin Refused
    BY <2>3 DEF AInv, WhereTheyWait, Turn
  <2>5. QED
    BY <1>2, <1>3, <2>1, <2>2, <2>3, <2>4 DEF AInv, LeftoverKeepsFatesApart
<1>6. WaitersAreUnmatched'
  BY <1>5 DEF WaitersAreUnmatched
<1>7. LeftoverKeepsFatesApart'
  <2>1. /\ Len(matches) \in Nat /\ Len(matches') = Len(matches) + 1
        /\ \A i \in 1 .. Len(matches) : matches'[i] = matches[i]
        /\ matches'[Len(matches) + 1] = m
    BY <1>1, <1>2, MatchAppended DEF IInv, TypeOK
  <2>2. \A i \in 1 .. Len(matches) : matches[i].anchor \in MatchedAnchors
    BY DEF MatchedAnchors, ToSet, IInv, TypeOK
  <2>3. QED
    BY <1>1, <1>5, <2>1, <2>2 DEF LeftoverKeepsFatesApart
<1>8. QED
  BY <1>4, <1>6, <1>7 DEF AInv

LEMMA ApartLeft ==
  ASSUME SubsetPassLast, IInv, FInv, AInv, NEW a \in Anchors, Turn(a), LeftNow(a)
  PROVE  AInv'
<1>1. /\ UNCHANGED month /\ UNCHANGED stage /\ UNCHANGED at /\ UNCHANGED matches
      /\ a \in queue /\ queue' = queue \ {a} /\ unmatched' = unmatched \cup {a}
      /\ stage = "matching"
  BY DEF Turn, LeftNow, LeaveUnmatched
<1>2. InScopeAnchors' = InScopeAnchors /\ MatchedAnchors' = MatchedAnchors
  BY <1>1, RecordsStay DEF MatchedAnchors
<1>3. Refused' \subseteq Refused \cup {a} /\ (exceptions' # {} => at = Len(Strategies))
  <2>1. CASE UNCHANGED exceptions
    BY <1>1, <2>1 DEF AInv, WhereTheyWait, Refused
  <2>2. ASSUME Strategy = "subset_sum", NEW result \in Outcomes(a, Available),
               exceptions' = exceptions \cup Refusal(a, result)
        PROVE  Refused' \subseteq Refused \cup {a} /\ at = Len(Strategies)
    <3>1. a \in InScopeAnchors
      BY <1>1 DEF FInv, OnlyInScope
    <3>2. \A e \in Refusal(a, result) : e.records = {a}
      BY <3>1, RefusalsInScope
    <3>3. Refused' \subseteq Refused \cup {a}
      BY <2>2, <3>2 DEF Refused
    <3>4. at \in 1 .. Len(Strategies)
      BY InsideAPass
    <3>5. QED
      BY <2>2, <3>3, <3>4 DEF SubsetPassLast, Strategy
  <2>3. QED
    BY <2>1, <2>2 DEF LeftNow
<1>4. WhereTheyWait'
  BY <1>1, <1>3 DEF AInv, WhereTheyWait
<1>5. WaitersAreUnmatched'
  BY <1>1, <1>2 DEF AInv, WaitersAreUnmatched
<1>6. LeftoverKeepsFatesApart'
  BY <1>1, <1>2, <1>3 DEF AInv, WaitersAreUnmatched, LeftoverKeepsFatesApart
<1>7. QED
  BY <1>4, <1>5, <1>6 DEF AInv

LEMMA ApartBegun ==
  ASSUME IInv, FInv, AInv, BeginPass
  PROVE  AInv'
<1>1. /\ UNCHANGED month /\ UNCHANGED stage /\ UNCHANGED matches /\ UNCHANGED exceptions
      /\ queue = {} /\ queue' = Pending /\ unmatched' = {} /\ stage = "matching"
      /\ at < Len(Strategies) /\ at \in Nat
  BY DEF BeginPass, IInv, TypeOK
<1>2. InScopeAnchors' = InScopeAnchors /\ MatchedAnchors' = MatchedAnchors
  BY <1>1, RecordsStay DEF MatchedAnchors
<1>3. exceptions = {}
  BY <1>1 DEF AInv, WhereTheyWait
<1>4. WhereTheyWait'
  BY <1>1, <1>3 DEF WhereTheyWait, Refused
<1>5. WaitersAreUnmatched'
  <2> SUFFICES ASSUME ~(InScopeAnchors \subseteq MatchedAnchors)
               PROVE  Pending \cap MatchedAnchors = {}
    BY <1>1, <1>2 DEF WaitersAreUnmatched
  <2>1. CASE at = 0
    BY <2>1 DEF IInv, NothingYet, MatchedAnchors, ToSet
  <2>2. CASE at # 0
    <3>1. unmatched # {}
      BY <1>1, <2>2 DEF FInv, EveryAnchorIsHeld
    <3>2. QED
      BY <3>1 DEF AInv, WaitersAreUnmatched, Pending
  <2>3. QED
    BY <2>1, <2>2
<1>6. LeftoverKeepsFatesApart'
  BY <1>1, <1>2, <1>3 DEF AInv, LeftoverKeepsFatesApart, Refused
<1>7. QED
  BY <1>4, <1>5, <1>6 DEF AInv

LEMMA ApartDisposed ==
  ASSUME IInv, AInv, Dispose
  PROVE  AInv'
<1>1. /\ UNCHANGED month /\ UNCHANGED matches /\ UNCHANGED queue /\ UNCHANGED unmatched
      /\ stage = "matching" /\ stage' = "done"
  BY DEF Dispose
<1>2. InScopeAnchors' = InScopeAnchors /\ MatchedAnchors' = MatchedAnchors
  BY <1>1, RecordsStay DEF MatchedAnchors
<1>3. PICK P \in Pairings :
        exceptions' = exceptions \cup Dispositions(P) \cup Gaps \cup Variances
  BY DEF Dispose
<1>4. Refused' \subseteq unmatched
  <2>1. \A e \in Dispositions(P) : e.records \cap Anchors \subseteq unmatched
    <3>1. \A b \in Breaks(P) : b \cap Anchors \subseteq unmatched
      BY RecordAssumption DEF Breaks, Pairings, SingleAnchors, SingleRows
    <3>2. \A b \in UnclaimedGroups : b \cap Anchors = {}
      BY RecordAssumption DEF UnclaimedGroups, RowsOf
    <3>3. QED
      BY <3>1, <3>2 DEF Dispositions, Raise
  <2>2. \A e \in Gaps \cup Variances : e.code \in {"E02", "E04"}
    BY DEF Gaps, Variances, Raise
  <2>3. \A e \in exceptions : e.code \notin {"E02", "E04"}
          => e.records \cap Anchors \subseteq unmatched
    BY <1>1 DEF AInv, WhereTheyWait, Refused
  <2>4. SUFFICES ASSUME NEW e \in exceptions', e.code \notin {"E02", "E04"}
                 PROVE  e.records \cap Anchors \subseteq unmatched
    BY DEF Refused
  <2>5. CASE e \in exceptions
    BY <2>3, <2>4, <2>5
  <2>6. CASE e \in Dispositions(P)
    BY <2>1, <2>6
  <2>7. QED
    BY <1>3, <2>2, <2>4, <2>5, <2>6
<1>5. QED
  BY <1>1, <1>2, <1>4 DEF AInv, WhereTheyWait, WaitersAreUnmatched, LeftoverKeepsFatesApart

LEMMA FatesHold == Spec => []FInv
  BY FatesInit, Invariance, FatesStep, PTL DEF Spec

LEMMA ApartStep ==
  SubsetPassLast => (IInv /\ FInv /\ AInv /\ [Next]_vars => AInv')
<1> SUFFICES ASSUME SubsetPassLast, IInv, FInv, AInv, [Next]_vars PROVE AInv'
  OBVIOUS
<1>1. CASE UNCHANGED vars
  BY <1>1 DEF vars, AInv, WhereTheyWait, WaitersAreUnmatched, LeftoverKeepsFatesApart,
     MatchedAnchors, Refused, InScopeAnchors
<1>2. ASSUME NEW a \in Anchors,
             Attempt(a) \/ PoolIsEmpty(a) \/ CommitSubset(a) \/ RefuseSubset(a)
      PROVE  AInv'
  BY <1>2, TurnEnds, ApartMatched, ApartLeft
<1>3. QED
  BY <1>1, <1>2, ApartBegun, ApartDisposed DEF Next

(* While one anchor in scope finds no match, every other anchor is matched  *)
(* at most once and none is both matched and reported, for every profile    *)
(* whose subset pass, if it has one, is its last: both shipped ones, and    *)
(* nothing enforces it.                                                     *)
THEOREM FatesStayApart == SubsetPassLast => (Spec => []LeftoverKeepsFatesApart)
<1> SUFFICES ASSUME SubsetPassLast PROVE Spec => []LeftoverKeepsFatesApart
  OBVIOUS
<1>1. IInv /\ FInv /\ AInv /\ [Next]_vars => AInv'
  BY ApartStep
<1>2. AInv => LeftoverKeepsFatesApart
  BY DEF AInv
<1>3. QED
  BY <1>1, <1>2, FatesHold, ApartInit, Invariance, PTL DEF Spec

-------------------------------------------------------------------------------
(* What an anchor takes depends on the claims within its reach.              *)

Proposed(s, a, C) ==
  LET offered == (Grouped \ C) \cap Candidates(a)
      named == offered \cap {month.ref[a]}
      viable == {g \in offered : Comparable(a, g)}
  IN  CASE s = "exact" -> {g \in named : Residual(a, RowsOf(g)) = 0}
        [] s = "tolerant" -> {g \in viable : viable = {g}}
        [] s = "partial_payment" -> {g \in named : /\ Residual(a, RowsOf(g)) < -Tolerance
                                                   /\ ~RepeatExplains(a, g)}

LEMMA ProposedFirst == ASSUME NEW a PROVE Proposals(a) = Proposed(Strategy, a, Claimed)
  BY DEF Proposals, Proposed, Exact, Tolerant, Partial, Viable, Named, Offered

(* The lines of the statement are all that is reversed. *)
LEMMA SameRecords ==
  ASSUME month \in Months, month2 = Reversed(month), NEW a, NEW g, NEW S
  PROVE  /\ Again!InScopeAnchors = InScopeAnchors /\ Again!Grouped = Grouped
         /\ Again!Candidates(a) = Candidates(a) /\ Again!RowsOf(g) = RowsOf(g)
         /\ Again!Residual(a, S) = Residual(a, S)
         /\ Again!Comparable(a, g) = Comparable(a, g)
         /\ Again!RepeatExplains(a, g) = RepeatExplains(a, g)
<1>1. /\ month2.scope = month.scope /\ month2.ref = month.ref /\ month2.window = month.window
      /\ month2.party = month.party /\ month2.amount = month.amount
      /\ month2.credit = month.credit /\ month2.repeated = month.repeated
  BY DEF Reversed
<1>2. Again!InScopeAnchors = InScopeAnchors /\ Again!Candidates(a) = Candidates(a)
  BY <1>1 DEF Again!InScopeAnchors, InScopeAnchors, Again!Candidates, Candidates
<1>3. \A h : Again!RowsOf(h) = RowsOf(h)
  BY <1>1 DEF Again!RowsOf, RowsOf
<1>4. Again!Grouped = Grouped
  BY <1>3 DEF Again!Grouped, Grouped
<1>5. ASSUME NEW T PROVE Again!Total(T) = Total(T)
  BY <1>1 DEF Again!Total, Total, Again!SumOf, SumOf, Again!MapThenSumSet, MapThenSumSet,
              Again!MapThenFoldSet, MapThenFoldSet
<1>6. \A T : Again!Residual(a, T) = Residual(a, T)
  BY <1>1, <1>5 DEF Again!Residual, Residual
<1>7. \A T : Again!Distance(a, T) = Distance(a, T)
  BY <1>6 DEF Again!Distance, Distance
<1>8. Again!Comparable(a, g) = Comparable(a, g)
  BY <1>1, <1>3, <1>7 DEF Again!Comparable, Comparable
<1>9. Again!RepeatExplains(a, g) = RepeatExplains(a, g)
  BY <1>1, <1>3, <1>5, <1>7 DEF Again!RepeatExplains, RepeatExplains
<1>10. QED
  BY <1>2, <1>3, <1>4, <1>6, <1>8, <1>9

LEMMA ProposedAgain ==
  ASSUME month \in Months, month2 = Reversed(month), NEW a
  PROVE  Again!Proposals(a) = Proposed(Strategies[at2], a, Again!Claimed)
<1>1. month2.ref = month.ref
  BY DEF Reversed
<1>2. QED
  BY <1>1, SameRecords DEF Proposed, Again!Proposals, Again!Exact, Again!Tolerant,
     Again!Partial, Again!Viable, Again!Named, Again!Offered, Again!Strategy

LEMMA ProposedInReach ==
  ASSUME NEW s \in StrategyNames \ {"subset_sum"}, NEW a, NEW C
  PROVE  /\ Proposed(s, a, C) \subseteq Reach(a) /\ Proposed(s, a, C) \subseteq Groups
         /\ \A g, h \in Proposed(s, a, C) : g = h
  BY DEF Proposed, Reach, StrategyNames, Grouped

LEMMA OnlyReachMatters ==
  ASSUME NEW s \in StrategyNames \ {"subset_sum"}, NEW a, NEW C, NEW D,
         \A g \in Reach(a) : g \in C <=> g \in D
  PROVE  Proposed(s, a, C) = Proposed(s, a, D)
<1> DEFINE offered(E) == (Grouped \ E) \cap Candidates(a)
           named(E) == offered(E) \cap {month.ref[a]}
           viable(E) == {g \in offered(E) : Comparable(a, g)}
<1>1. named(C) = named(D)
  BY DEF Reach
<1>2. viable(C) = viable(D)
  BY DEF Reach
<1> HIDE DEF offered
<1>3. \A E : Proposed(s, a, E) = CASE s = "exact" -> {g \in named(E) : Residual(a, RowsOf(g)) = 0}
        [] s = "tolerant" -> {g \in viable(E) : viable(E) = {g}}
        [] s = "partial_payment" -> {g \in named(E) : /\ Residual(a, RowsOf(g)) < -Tolerance
                                                      /\ ~RepeatExplains(a, g)}
  BY DEF Proposed, offered
<1> HIDE DEF named, viable
<1>4. QED
  BY <1>1, <1>2, <1>3

-------------------------------------------------------------------------------
(* What a pass makes of what the one before it left, in any order of lines.  *)

Mine(a, pairs) == {g \in Groups : <<a, g>> \in pairs}
Own(s, a, pairs) == Proposed(s, a, Mine(a, pairs))

Offer(b) == IF b.left = {} THEN InScopeAnchors ELSE b.left
Took(s, b, done) == {x \in done \X Groups : x[2] \in Own(s, x[1], b.pairs)}
Left(s, b, done) == {a \in done : Own(s, a, b.pairs) = {}}
After(s, b) == [left |-> Left(s, b, Offer(b)), pairs |-> b.pairs \cup Took(s, b, Offer(b))]

(* The passes before the n-th, each from the one before it. *)
Start == [left |-> {}, pairs |-> {}]
IsTrace(t, n) == t[0] = Start /\ \A k \in 1 .. n : t[k] = After(Strategies[k], t[k - 1])

InReach(pairs) ==
  \A x \in pairs : \E a \in InScopeAnchors : \E g \in Reach(a) \cap Groups : x = <<a, g>>

(* Within a pass, `queue` waits and the others have had their turn. *)
Midway(s, b, q, u, pairs) ==
  /\ b.left \subseteq InScopeAnchors /\ InReach(b.pairs)
  /\ q \subseteq Offer(b)
  /\ u = Left(s, b, Offer(b) \ q)
  /\ pairs = b.pairs \cup Took(s, b, Offer(b) \ q)

(* The passes that match whole groups; at most one follows. *)
GroupPasses ==
  IF Strategies[Len(Strategies)] = "subset_sum" THEN Len(Strategies) - 1 ELSE Len(Strategies)

Along(st, n, q, u, pairs) ==
  /\ n \in 0 .. Len(Strategies)
  /\ n = 0 => q = {} /\ u = {} /\ pairs = {}
  /\ n \in 1 .. GroupPasses =>
       \E t : IsTrace(t, n - 1) /\ Midway(Strategies[n], t[n - 1], q, u, pairs)
  /\ n >= 1 /\ n > GroupPasses => \E t : IsTrace(t, GroupPasses) /\ pairs = t[GroupPasses].pairs
  /\ st = "done" => n = Len(Strategies) /\ q = {}

LEMMA PassesAreNumbers ==
  /\ Len(Strategies) \in Nat \ {0} /\ GroupPasses \in {Len(Strategies), Len(Strategies) - 1}
  /\ \A k \in 1 .. Len(Strategies) : Strategies[k] \in StrategyNames
  BY ProfileAssumption DEF GroupPasses

LEMMA GroupPassesMatch ==
  ASSUME SubsetPassLast, NEW k \in 1 .. Len(Strategies)
  PROVE  k \in 1 .. GroupPasses <=> Strategies[k] # "subset_sum"
  BY PassesAreNumbers DEF SubsetPassLast, GroupPasses

LEMMA TracesAgree ==
  ASSUME NEW n \in Nat, NEW t, IsTrace(t, n), NEW v, IsTrace(v, n)
  PROVE  t[n] = v[n]
<1> DEFINE B == {k \in 0 .. n : t[k] # v[k]}
<1> SUFFICES ASSUME B # {} PROVE FALSE
  OBVIOUS
<1>1. PICK k \in B : \A j \in B : k <= j
  <2>1. B \in SUBSET Nat
    OBVIOUS
  <2> HIDE DEF B
  <2> QED
    BY <2>1, LeastExists
<1>2. k # 0
  BY DEF IsTrace
<1>3. k - 1 \in 0 .. n /\ k - 1 \notin B /\ k \in 1 .. n
  BY <1>1, <1>2
<1>4. t[k] = After(Strategies[k], t[k - 1]) /\ v[k] = After(Strategies[k], v[k - 1])
  BY <1>3 DEF IsTrace
<1> QED
  BY <1>1, <1>3, <1>4

LEMMA TraceGrows ==
  ASSUME NEW n \in Nat, NEW t, IsTrace(t, n)
  PROVE  \E v : IsTrace(v, n + 1) /\ v[n + 1] = After(Strategies[n + 1], t[n])
<1> DEFINE v == [k \in 0 .. n + 1 |-> IF k <= n THEN t[k] ELSE After(Strategies[n + 1], t[n])]
<1>1. \A k \in 0 .. n : v[k] = t[k]
  OBVIOUS
<1>2. v[n + 1] = After(Strategies[n + 1], t[n])
  OBVIOUS
<1> HIDE DEF v
<1>3. ASSUME NEW k \in 1 .. n + 1 PROVE v[k] = After(Strategies[k], v[k - 1])
  <2>1. CASE k = n + 1
    BY <1>1, <1>2, <2>1
  <2>2. CASE k # n + 1
    <3>1. k \in 1 .. n /\ k - 1 \in 0 .. n /\ k \in 0 .. n
      BY <2>2
    <3> QED
      BY <1>1, <3>1 DEF IsTrace
  <2> QED
    BY <2>1, <2>2
<1> QED
  BY <1>1, <1>2, <1>3 DEF IsTrace

LEMMA OwnInReach ==
  ASSUME NEW s \in StrategyNames \ {"subset_sum"}, NEW a, NEW pairs
  PROVE  /\ Own(s, a, pairs) \subseteq Reach(a) \cap Groups
         /\ \A g, h \in Own(s, a, pairs) : g = h
  BY ProposedInReach DEF Own

LEMMA TookInReach ==
  ASSUME NEW s \in StrategyNames \ {"subset_sum"}, NEW b, InReach(b.pairs),
         NEW done \in SUBSET InScopeAnchors
  PROVE  InReach(b.pairs \cup Took(s, b, done))
<1>1. ASSUME NEW x \in Took(s, b, done)
      PROVE  \E a \in InScopeAnchors : \E g \in Reach(a) \cap Groups : x = <<a, g>>
  <2>1. x[1] \in done /\ x[2] \in Own(s, x[1], b.pairs) /\ x = <<x[1], x[2]>>
    BY DEF Took
  <2>2. x[2] \in Reach(x[1]) \cap Groups
    BY <2>1, OwnInReach
  <2> QED
    BY <2>1, <2>2
<1> QED
  BY <1>1 DEF InReach

LEMMA OffersInScope ==
  ASSUME NEW b, b.left \subseteq InScopeAnchors
  PROVE  Offer(b) \subseteq InScopeAnchors
  BY DEF Offer

(* A pass that has come to its end. *)
LEMMA PassEnds ==
  ASSUME NEW n \in 1 .. GroupPasses, SubsetPassLast, NEW u, NEW pairs,
         NEW t, IsTrace(t, n - 1), Midway(Strategies[n], t[n - 1], {}, u, pairs)
  PROVE  /\ u \subseteq InScopeAnchors /\ InReach(pairs)
         /\ \E v : IsTrace(v, n) /\ v[n] = [left |-> u, pairs |-> pairs]
<1> DEFINE b == t[n - 1]
<1>1. /\ n \in 1 .. Len(Strategies) /\ Strategies[n] \in StrategyNames \ {"subset_sum"}
      /\ n - 1 \in Nat /\ (n - 1) + 1 = n
  BY GroupPassesMatch, PassesAreNumbers
<1>2. /\ b.left \subseteq InScopeAnchors /\ InReach(b.pairs)
      /\ u = Left(Strategies[n], b, Offer(b))
      /\ pairs = b.pairs \cup Took(Strategies[n], b, Offer(b))
  <2>1. Offer(b) \ {} = Offer(b)
    OBVIOUS
  <2> QED
    BY <2>1 DEF Midway
<1>3. After(Strategies[n], b) = [left |-> u, pairs |-> pairs]
  BY <1>2 DEF After
<1>4. \E v : IsTrace(v, n) /\ v[n] = After(Strategies[n], b)
  BY <1>1, TraceGrows
<1> HIDE DEF b
<1>5. InReach(pairs)
  BY <1>1, <1>2, OffersInScope, TookInReach
<1>6. u \subseteq InScopeAnchors
  BY <1>2, OffersInScope DEF Left
<1> QED
  BY <1>3, <1>4, <1>5, <1>6 DEF b

LEMMA AlongBegins ==
  ASSUME SubsetPassLast, NEW st, st # "done", NEW n, n < Len(Strategies), NEW u, NEW pairs,
         Along(st, n, {}, u, pairs)
  PROVE  Along(st, n + 1, IF u = {} THEN InScopeAnchors ELSE u, {}, pairs)
<1> DEFINE q == IF u = {} THEN InScopeAnchors ELSE u
<1>1. n \in Nat /\ n + 1 \in 1 .. Len(Strategies) /\ n <= GroupPasses
  BY PassesAreNumbers DEF Along
<1>2. \E t : IsTrace(t, n) /\ t[n] = [left |-> u, pairs |-> pairs]
             /\ u \subseteq InScopeAnchors /\ InReach(pairs)
  <2>1. CASE n = 0
    <3> DEFINE t == [k \in {0} |-> Start]
    <3>1. IsTrace(t, 0) /\ t[0] = [left |-> {}, pairs |-> {}]
      BY DEF IsTrace, Start
    <3>2. u = {} /\ pairs = {}
      BY <2>1 DEF Along
    <3> HIDE DEF t
    <3> QED
      BY <2>1, <3>1, <3>2 DEF InReach
  <2>2. CASE n # 0
    <3>1. n \in 1 .. GroupPasses
      BY <1>1, <2>2, PassesAreNumbers
    <3>2. PICK t : IsTrace(t, n - 1) /\ Midway(Strategies[n], t[n - 1], {}, u, pairs)
      BY <3>1 DEF Along
    <3> QED
      BY <3>1, <3>2, PassEnds
  <2> QED
    BY <2>1, <2>2
<1>3. PICK t : IsTrace(t, n) /\ t[n] = [left |-> u, pairs |-> pairs]
               /\ u \subseteq InScopeAnchors /\ InReach(pairs)
  BY <1>2
<1>4. CASE n + 1 \in 1 .. GroupPasses
  <2>1. Offer(t[n]) = q /\ t[n].left = u /\ t[n].pairs = pairs
    BY <1>3 DEF Offer
  <2>2. Left(Strategies[n + 1], t[n], q \ q) = {} /\ Took(Strategies[n + 1], t[n], q \ q) = {}
    BY DEF Left, Took
  <2>3. Midway(Strategies[n + 1], t[n], q, {}, pairs)
    BY <1>3, <2>1, <2>2 DEF Midway
  <2>4. (n + 1) - 1 = n /\ n + 1 # 0 /\ ~(n + 1 > GroupPasses)
    BY <1>1, <1>4, PassesAreNumbers
  <2> HIDE DEF q
  <2> QED
    BY <1>1, <1>3, <2>3, <2>4 DEF Along, q
<1>5. CASE n + 1 \notin 1 .. GroupPasses
  <2>1. n = GroupPasses /\ n + 1 # 0
    BY <1>1, <1>5, PassesAreNumbers
  <2>2. \E v : IsTrace(v, GroupPasses) /\ pairs = v[GroupPasses].pairs
    BY <1>3, <2>1
  <2> HIDE DEF q
  <2> QED
    BY <1>1, <1>5, <2>1, <2>2 DEF Along, q
<1> QED
  BY <1>4, <1>5

Alone == \A a, b \in InScopeAnchors : a # b => Reach(a) \cap Reach(b) = {}

(* An anchor's turn: it takes what is its own, whoever was before it. *)
LEMMA AlongTurns ==
  ASSUME SubsetPassLast, Alone, NEW st, st # "done", NEW n \in 1 .. Len(Strategies),
         NEW q, NEW u, NEW pairs, Along(st, n, q, u, pairs), Strategies[n] # "subset_sum",
         NEW a \in q, NEW C, \A g \in Groups : g \in C <=> \E x : <<x, g>> \in pairs,
         NEW u2, NEW pairs2,
         \/ \E g \in Proposed(Strategies[n], a, C) : pairs2 = pairs \cup {<<a, g>>} /\ u2 = u
         \/ Proposed(Strategies[n], a, C) = {} /\ pairs2 = pairs /\ u2 = u \cup {a}
  PROVE  Along(st, n, q \ {a}, u2, pairs2)
<1>1. n \in 1 .. GroupPasses /\ Strategies[n] \in StrategyNames \ {"subset_sum"}
  BY GroupPassesMatch, PassesAreNumbers
<1>2. PICK t : IsTrace(t, n - 1) /\ Midway(Strategies[n], t[n - 1], q, u, pairs)
  BY <1>1 DEF Along
<1> DEFINE s == Strategies[n]
           b == t[n - 1]
           done == Offer(b) \ q
           own == Own(s, a, b.pairs)
<1>3. /\ b.left \subseteq InScopeAnchors /\ InReach(b.pairs) /\ q \subseteq Offer(b)
      /\ u = Left(s, b, done) /\ pairs = b.pairs \cup Took(s, b, done)
      /\ Offer(b) \subseteq InScopeAnchors
  BY <1>2, OffersInScope DEF Midway
<1> HIDE DEF b
<1>4. /\ a \in Offer(b) /\ a \in InScopeAnchors /\ a \notin done
      /\ Offer(b) \ (q \ {a}) = done \cup {a}
  BY <1>3
<1>5. InReach(pairs)
  BY <1>1, <1>3, TookInReach
<1>6. ASSUME NEW g \in Reach(a) PROVE g \in C <=> g \in Mine(a, b.pairs)
  <2>1. g \in Groups
    BY DEF Reach, Grouped
  <2>2. ASSUME NEW x, <<x, g>> \in pairs PROVE <<x, g>> \in b.pairs /\ x = a
    <3>1. x \in InScopeAnchors /\ g \in Reach(x)
      BY <1>5, <2>2 DEF InReach
    <3>2. x = a
      BY <1>4, <3>1 DEF Alone
    <3>3. <<x, g>> \notin Took(s, b, done)
      BY <1>4, <3>2 DEF Took
    <3> QED
      BY <1>3, <2>2, <3>2, <3>3
  <2>3. <<a, g>> \in b.pairs => <<a, g>> \in pairs
    BY <1>3
  <2> QED
    BY <2>1, <2>2, <2>3 DEF Mine
<1>7. Proposed(s, a, C) = own
  BY <1>1, <1>6, OnlyReachMatters DEF Own
<1>8. Took(s, b, done \cup {a}) = Took(s, b, done) \cup {<<a, g>> : g \in own}
  <2>1. own \subseteq Groups
    BY <1>1, OwnInReach
  <2> QED
    BY <2>1 DEF Took
<1>9. Left(s, b, done \cup {a}) = Left(s, b, done) \cup (IF own = {} THEN {a} ELSE {})
  BY DEF Left
<1>10. \A g, h \in own : g = h
  BY <1>1, OwnInReach
<1> HIDE DEF own, done, s
<1>11. u2 = Left(s, b, done \cup {a}) /\ pairs2 = b.pairs \cup Took(s, b, done \cup {a})
  <2>1. CASE own = {}
    BY <1>3, <1>7, <1>8, <1>9, <2>1 DEF s
  <2>2. CASE own # {}
    <3>1. PICK g \in own : pairs2 = pairs \cup {<<a, g>>} /\ u2 = u
      BY <1>7, <2>2 DEF s
    <3>2. {<<a, h>> : h \in own} = {<<a, g>>}
      BY <1>10, <3>1
    <3> QED
      BY <1>3, <1>8, <1>9, <2>2, <3>1, <3>2
  <2> QED
    BY <2>1, <2>2
<1>12. Midway(s, b, q \ {a}, u2, pairs2)
  BY <1>3, <1>4, <1>11 DEF Midway
<1>13. n # 0 /\ ~(n > GroupPasses)
  BY <1>1, PassesAreNumbers
<1> QED
  BY <1>1, <1>2, <1>12, <1>13 DEF Along, s, b

(* The subset pass changes nothing of the pairs. *)
LEMMA AlongTheRest ==
  ASSUME SubsetPassLast, NEW st, st # "done", NEW n \in 1 .. Len(Strategies), NEW q, NEW u,
         NEW pairs, Along(st, n, q, u, pairs), Strategies[n] = "subset_sum", NEW q2, NEW u2
  PROVE  Along(st, n, q2, u2, pairs)
<1>1. n \notin 1 .. GroupPasses /\ n # 0
  BY GroupPassesMatch
<1> QED
  BY <1>1 DEF Along

LEMMA AlongEnds ==
  ASSUME NEW st, NEW u, NEW pairs, Along(st, Len(Strategies), {}, u, pairs)
  PROVE  Along("done", Len(Strategies), {}, u, pairs)
  BY DEF Along

LEMMA PairsAreDetermined ==
  ASSUME SubsetPassLast, NEW n, NEW q, NEW u, NEW pairs, Along("done", n, q, u, pairs),
         NEW n2, NEW q2, NEW u2, NEW pairs2, Along("done", n2, q2, u2, pairs2)
  PROVE  pairs = pairs2
<1>1. ASSUME NEW m, NEW p, NEW v, NEW r, Along("done", m, p, v, r)
      PROVE  \E t : IsTrace(t, GroupPasses) /\ r = t[GroupPasses].pairs
  <2>1. m = Len(Strategies) /\ p = {} /\ m \in Nat \ {0}
    BY <1>1, PassesAreNumbers DEF Along
  <2>2. CASE m \in 1 .. GroupPasses
    <3>1. m = GroupPasses
      BY <2>1, <2>2, PassesAreNumbers
    <3>2. PICK t : IsTrace(t, m - 1) /\ Midway(Strategies[m], t[m - 1], {}, v, r)
      BY <1>1, <2>1, <2>2 DEF Along
    <3>3. \E w : IsTrace(w, m) /\ w[m] = [left |-> v, pairs |-> r]
      BY <2>2, <3>2, PassEnds
    <3> QED
      BY <3>1, <3>3
  <2>3. CASE m \notin 1 .. GroupPasses
    <3>1. m >= 1 /\ m > GroupPasses
      BY <2>1, <2>3, PassesAreNumbers
    <3> QED
      BY <1>1, <3>1 DEF Along
  <2> QED
    BY <2>2, <2>3
<1>2. PICK t : IsTrace(t, GroupPasses) /\ pairs = t[GroupPasses].pairs
  BY <1>1
<1>3. PICK v : IsTrace(v, GroupPasses) /\ pairs2 = v[GroupPasses].pairs
  BY <1>1
<1>4. GroupPasses \in Nat
  BY PassesAreNumbers
<1> QED
  BY <1>2, <1>3, <1>4, TracesAgree

-------------------------------------------------------------------------------
(* The steps of either run.                                                  *)

Run1 == [stage |-> stage, at |-> at, queue |-> queue, unmatched |-> unmatched, matches |-> matches]
Run2 == [stage |-> stage2, at |-> at2, queue |-> queue2, unmatched |-> unmatched2,
         matches |-> matches2]

GroupsOf(ms) == {m.group : m \in ToSet(ms)}

Begins(r, r2) ==
  /\ r.queue = {} /\ r.at < Len(Strategies) /\ r2.at = r.at + 1
  /\ r2.queue = (IF r.unmatched = {} THEN InScopeAnchors ELSE r.unmatched)
  /\ r2.unmatched = {} /\ r2.matches = r.matches /\ r2.stage = r.stage

Tries(r, r2, a) ==
  LET own == Proposed(Strategies[r.at], a, GroupsOf(r.matches)) IN
  /\ a \in r.queue /\ Strategies[r.at] # "subset_sum"
  /\ r2.queue = r.queue \ {a} /\ r2.at = r.at /\ r2.stage = r.stage
  /\ \/ \E g \in own : \E m : /\ m.anchor = a /\ m.group = g /\ m.tier # "T2"
                              /\ r2.matches = Append(r.matches, m) /\ r2.unmatched = r.unmatched
     \/ own = {} /\ r2.matches = r.matches /\ r2.unmatched = r.unmatched \cup {a}

Searched(r, r2, a) ==
  /\ a \in r.queue /\ Strategies[r.at] = "subset_sum"
  /\ r2.at = r.at /\ r2.stage = r.stage
  /\ \/ r2.matches = r.matches
     \/ \E m : m.tier = "T2" /\ m.group = NoGroup /\ r2.matches = Append(r.matches, m)

Disposes(r, r2) ==
  /\ r.queue = {} /\ r.at = Len(Strategies) /\ r2.stage = "done" /\ r2.at = r.at
  /\ r2.queue = r.queue /\ r2.unmatched = r.unmatched /\ r2.matches = r.matches

Moves(r, r2) ==
  /\ r.stage # "done"
  /\ \/ Begins(r, r2) \/ Disposes(r, r2)
     \/ \E a \in Anchors : Tries(r, r2, a) \/ Searched(r, r2, a)

Following(r) ==
  /\ r.at \in 0 .. Len(Strategies) /\ (r.queue # {} => r.at # 0)
  /\ \E S : r.matches \in Seq(S)
  /\ \A m \in ToSet(r.matches) : m.tier = "T2" => m.group \notin Groups
  /\ Alone => Along(r.stage, r.at, r.queue, r.unmatched, Pairs(r.matches))

LEMMA OneMoreMatch ==
  ASSUME NEW S, NEW ms \in Seq(S), NEW m
  PROVE  /\ \E T : Append(ms, m) \in Seq(T)
         /\ ToSet(Append(ms, m)) = ToSet(ms) \cup {m}
         /\ m.tier = "T2" => Pairs(Append(ms, m)) = Pairs(ms)
         /\ m.tier # "T2" => Pairs(Append(ms, m)) = Pairs(ms) \cup {<<m.anchor, m.group>>}
<1> DEFINE T == S \cup {m}
           msm == Append(ms, m)
<1>1. ms \in Seq(T) /\ m \in T
  OBVIOUS
<1>2. /\ msm \in Seq(T) /\ Len(ms) \in Nat /\ DOMAIN ms = 1 .. Len(ms)
      /\ DOMAIN msm = 1 .. Len(ms) + 1 /\ msm[Len(ms) + 1] = m
      /\ \A i \in 1 .. Len(ms) : msm[i] = ms[i]
  BY <1>1
<1> HIDE DEF msm
<1>3. ToSet(msm) = ToSet(ms) \cup {m}
  <2>1. ASSUME NEW i \in DOMAIN msm PROVE msm[i] \in ToSet(ms) \cup {m}
    <3>1. i \in 1 .. Len(ms) \/ i = Len(ms) + 1
      BY <1>2
    <3> QED
      BY <1>2, <3>1 DEF ToSet
  <2>2. ASSUME NEW i \in DOMAIN ms PROVE ms[i] \in ToSet(msm)
    <3>1. i \in DOMAIN msm /\ msm[i] = ms[i]
      BY <1>2
    <3> QED
      BY <3>1 DEF ToSet
  <2>3. m \in ToSet(msm)
    <3>1. Len(ms) + 1 \in DOMAIN msm
      BY <1>2
    <3> QED
      BY <1>2, <3>1 DEF ToSet
  <2> QED
    BY <2>1, <2>2, <2>3 DEF ToSet
<1>4. m.tier = "T2" => Pairs(msm) = Pairs(ms)
  BY <1>3 DEF Pairs
<1>5. m.tier # "T2" => Pairs(msm) = Pairs(ms) \cup {<<m.anchor, m.group>>}
  BY <1>3 DEF Pairs
<1> QED
  BY <1>2, <1>3, <1>4, <1>5 DEF msm

LEMMA MovesFollow ==
  ASSUME SubsetPassLast, NEW r, NEW r2, Following(r), Moves(r, r2)
  PROVE  Following(r2)
<1> DEFINE pairs == Pairs(r.matches)
<1>1. PICK S : r.matches \in Seq(S)
  BY DEF Following
<1>2. /\ \A m \in ToSet(r.matches) : m.tier = "T2" => m.group \notin Groups
      /\ Alone => Along(r.stage, r.at, r.queue, r.unmatched, pairs)
      /\ r.stage # "done" /\ r.at \in 0 .. Len(Strategies)
  BY DEF Following, Moves
<1>3. r.queue # {} => r.at \in 1 .. Len(Strategies)
  BY PassesAreNumbers DEF Following
<1>4. CASE Begins(r, r2)
  <2>1. Alone => Along(r2.stage, r2.at, r2.queue, r2.unmatched, Pairs(r2.matches))
    BY <1>2, <1>4, AlongBegins DEF Begins
  <2>2. r2.at \in 1 .. Len(Strategies)
    BY <1>2, <1>4, PassesAreNumbers DEF Begins
  <2> QED
    BY <1>1, <1>2, <1>4, <2>1, <2>2 DEF Begins, Following
<1>5. CASE Disposes(r, r2)
  <2>1. Alone => Along(r2.stage, r2.at, r2.queue, r2.unmatched, Pairs(r2.matches))
    BY <1>2, <1>5, AlongEnds DEF Disposes
  <2> QED
    BY <1>1, <1>2, <1>5, <2>1 DEF Disposes, Following
<1>6. ASSUME NEW a \in Anchors, Tries(r, r2, a) PROVE Following(r2)
  <2> DEFINE C == GroupsOf(r.matches)
             s == Strategies[r.at]
             own == Proposed(s, a, C)
  <2>1. \A g \in Groups : g \in C <=> \E x : <<x, g>> \in pairs
    BY <1>2 DEF GroupsOf, Pairs
  <2>2. /\ a \in r.queue /\ s # "subset_sum" /\ r2.queue = r.queue \ {a} /\ r2.at = r.at
        /\ r2.stage = r.stage /\ r.at \in 1 .. Len(Strategies)
    BY <1>3, <1>6 DEF Tries
  <2>3. CASE \E g \in own : \E m : /\ m.anchor = a /\ m.group = g /\ m.tier # "T2"
                              /\ r2.matches = Append(r.matches, m) /\ r2.unmatched = r.unmatched
    <3>0. PICK g \in own : \E m : /\ m.anchor = a /\ m.group = g /\ m.tier # "T2"
                                  /\ r2.matches = Append(r.matches, m) /\ r2.unmatched = r.unmatched
      BY <2>3
    <3>1. PICK m : /\ m.anchor = a /\ m.group = g /\ m.tier # "T2"
                   /\ r2.matches = Append(r.matches, m) /\ r2.unmatched = r.unmatched
      BY <3>0
    <3>2. /\ \E T : r2.matches \in Seq(T) /\ ToSet(r2.matches) = ToSet(r.matches) \cup {m}
          /\ Pairs(r2.matches) = pairs \cup {<<a, g>>}
      BY <1>1, <3>1, OneMoreMatch
    <3>3. ASSUME Alone PROVE Along(r2.stage, r2.at, r2.queue, r2.unmatched, Pairs(r2.matches))
      <4>1. r.at \in 1 .. Len(Strategies)
        BY <2>2
      <4>2. Along(r.stage, r.at, r.queue, r.unmatched, pairs) /\ r.stage # "done"
        BY <1>2, <3>3
      <4>3. \E h \in own : Pairs(r2.matches) = pairs \cup {<<a, h>>} /\ r2.unmatched = r.unmatched
        BY <3>1, <3>2
      <4> HIDE DEF C, pairs
      <4>4. Along(r.stage, r.at, r.queue \ {a}, r2.unmatched, Pairs(r2.matches))
        BY <2>1, <2>2, <3>3, <4>1, <4>2, <4>3, AlongTurns
      <4> QED
        BY <2>2, <4>4
    <3> QED
      BY <1>2, <2>2, <3>1, <3>2, <3>3 DEF Following
  <2>4. CASE own = {} /\ r2.matches = r.matches /\ r2.unmatched = r.unmatched \cup {a}
    <3>1. ASSUME Alone PROVE Along(r2.stage, r2.at, r2.queue, r2.unmatched, Pairs(r2.matches))
      <4>1. r.at \in 1 .. Len(Strategies)
        BY <2>2
      <4>2. Along(r.stage, r.at, r.queue, r.unmatched, pairs) /\ r.stage # "done"
            /\ Pairs(r2.matches) = pairs
        BY <1>2, <2>4, <3>1
      <4> HIDE DEF C, pairs
      <4>3. own = {} /\ r2.unmatched = r.unmatched \cup {a}
        BY <2>4
      <4>4. Along(r.stage, r.at, r.queue \ {a}, r2.unmatched, pairs)
        BY <2>1, <2>2, <3>1, <4>1, <4>2, <4>3, AlongTurns
      <4> QED
        BY <2>2, <4>2, <4>4
    <3> QED
      BY <1>1, <1>2, <2>2, <2>4, <3>1 DEF Following
  <2> QED
    BY <1>6, <2>3, <2>4 DEF Tries
<1>7. ASSUME NEW a \in Anchors, Searched(r, r2, a) PROVE Following(r2)
  <2>1. /\ a \in r.queue /\ Strategies[r.at] = "subset_sum" /\ r2.at = r.at /\ r2.stage = r.stage
        /\ r.at \in 1 .. Len(Strategies)
    BY <1>3, <1>7 DEF Searched
  <2>2. /\ \E T : r2.matches \in Seq(T) /\ Pairs(r2.matches) = pairs
        /\ \A m \in ToSet(r2.matches) : m.tier = "T2" => m.group \notin Groups
    <3>1. CASE r2.matches = r.matches
      BY <1>1, <1>2, <3>1
    <3>2. CASE \E m : m.tier = "T2" /\ m.group = NoGroup /\ r2.matches = Append(r.matches, m)
      <4>1. PICK m : m.tier = "T2" /\ m.group = NoGroup /\ r2.matches = Append(r.matches, m)
        BY <3>2
      <4>2. /\ \E T : r2.matches \in Seq(T) /\ ToSet(r2.matches) = ToSet(r.matches) \cup {m}
            /\ Pairs(r2.matches) = pairs
        BY <1>1, <4>1, OneMoreMatch
      <4> QED
        BY <1>2, <4>1, <4>2, RecordAssumption
    <3> QED
      BY <1>7, <3>1, <3>2 DEF Searched
  <2>3. ASSUME Alone PROVE Along(r2.stage, r2.at, r2.queue, r2.unmatched, Pairs(r2.matches))
    <3>1. r.at \in 1 .. Len(Strategies)
      BY <2>1
    <3> HIDE DEF pairs
    <3> QED
      BY <1>2, <2>1, <2>2, <3>1, <2>3, AlongTheRest
  <2> QED
    BY <2>1, <2>2, <2>3 DEF Following
<1> QED
  BY <1>4, <1>5, <1>6, <1>7 DEF Moves

(* The runs make such steps. *)
LEMMA FirstMoves ==
  ASSUME Next, Following(Run1)
  PROVE  Moves(Run1, Run1')
<1>1. CASE BeginPass
  <2>1. Begins(Run1, Run1')
    BY <1>1 DEF BeginPass, Begins, Run1, Pending
  <2> QED
    BY <1>1, <2>1 DEF Moves, BeginPass, Run1
<1>2. CASE Dispose
  <2>1. Disposes(Run1, Run1')
    BY <1>2 DEF Dispose, Disposes, Run1
  <2> QED
    BY <1>2, <2>1 DEF Moves, Dispose, Run1
<1>3. ASSUME NEW a \in Anchors, Attempt(a) PROVE Moves(Run1, Run1')
  <2>1. /\ stage = "matching" /\ a \in queue /\ Strategies[at] # "subset_sum"
        /\ queue' = queue \ {a} /\ at' = at /\ stage' = stage
    BY <1>3 DEF Attempt, Turn, Strategy
  <2>2. Proposals(a) = Proposed(Strategies[at], a, GroupsOf(matches))
    BY ProposedFirst DEF Strategy, Claimed, GroupsOf
  <2>3. \/ \E g \in Proposals(a) :
             \E m : /\ m.anchor = a /\ m.group = g /\ m.tier = TierOf[Strategy]
                    /\ matches' = Append(matches, m) /\ unmatched' = unmatched
        \/ Proposals(a) = {} /\ matches' = matches /\ unmatched' = unmatched \cup {a}
    BY <1>3 DEF Attempt, Commit, LeaveUnmatched
  <2>4. TierOf[Strategy] # "T2"
    <3>1. Strategies[at] \in StrategyNames \ {"subset_sum"}
      BY <2>1, PassesAreNumbers DEF Following, Run1
    <3> QED
      BY <3>1 DEF TierOf, Strategy, StrategyNames
  <2>5. Tries(Run1, Run1', a)
    BY <2>1, <2>2, <2>3, <2>4 DEF Tries, Run1
  <2> QED
    BY <2>1, <2>5 DEF Moves, Run1
<1>4. ASSUME NEW a \in Anchors, PoolIsEmpty(a) \/ CommitSubset(a) \/ RefuseSubset(a)
      PROVE  Moves(Run1, Run1')
  <2>1. /\ stage = "matching" /\ a \in queue /\ Strategies[at] = "subset_sum"
        /\ at' = at /\ stage' = stage
    BY <1>4 DEF PoolIsEmpty, CommitSubset, RefuseSubset, Turn, Strategy
  <2>2. \/ matches' = matches
        \/ \E m : m.tier = "T2" /\ m.group = NoGroup /\ matches' = Append(matches, m)
    BY <1>4 DEF PoolIsEmpty, CommitSubset, RefuseSubset, LeaveUnmatched, CommitRows
  <2>3. Searched(Run1, Run1', a)
    BY <2>1, <2>2 DEF Searched, Run1
  <2> QED
    BY <2>1, <2>3 DEF Moves, Run1
<1> QED
  BY <1>1, <1>2, <1>3, <1>4 DEF Next

LEMMA SecondMoves ==
  ASSUME month \in Months, month2 = Reversed(month), Again!Next, Following(Run2)
  PROVE  Moves(Run2, Run2')
<1>0. month2.line = [a \in Anchors |-> -month.line[a]]
  BY DEF Reversed
<1>1. CASE Again!BeginPass
  <2>1. Begins(Run2, Run2')
    BY <1>1, SameRecords DEF Again!BeginPass, Begins, Run2, Again!Pending
  <2> QED
    BY <1>1, <2>1 DEF Moves, Again!BeginPass, Run2
<1>2. CASE Again!Dispose
  <2>1. Disposes(Run2, Run2')
    BY <1>2 DEF Again!Dispose, Disposes, Run2
  <2> QED
    BY <1>2, <2>1 DEF Moves, Again!Dispose, Run2
<1>3. ASSUME NEW a \in Anchors, Again!Attempt(a) PROVE Moves(Run2, Run2')
  <2>1. /\ stage2 = "matching" /\ a \in queue2 /\ Strategies[at2] # "subset_sum"
        /\ queue2' = queue2 \ {a} /\ at2' = at2 /\ stage2' = stage2
    BY <1>3 DEF Again!Attempt, Again!Turn, Again!Strategy
  <2>2. Again!Proposals(a) = Proposed(Strategies[at2], a, GroupsOf(matches2))
    <3>1. Again!Claimed = GroupsOf(matches2)
      BY DEF Again!Claimed, GroupsOf, Again!ToSet, ToSet
    <3>2. Again!Proposals(a) = Proposed(Strategies[at2], a, Again!Claimed)
      BY ProposedAgain
    <3> QED
      BY <3>1, <3>2
  <2>3. \/ \E g \in Again!Proposals(a) :
             \E m : /\ m.anchor = a /\ m.group = g /\ m.tier = Again!TierOf[Again!Strategy]
                    /\ matches2' = Append(matches2, m) /\ unmatched2' = unmatched2
        \/ /\ Again!Proposals(a) = {} /\ matches2' = matches2
           /\ unmatched2' = unmatched2 \cup {a}
    BY <1>3 DEF Again!Attempt, Again!Commit, Again!LeaveUnmatched
  <2>4. Again!TierOf[Again!Strategy] # "T2"
    <3>1. Strategies[at2] \in StrategyNames \ {"subset_sum"}
      BY <2>1, PassesAreNumbers DEF Following, Run2
    <3> QED
      BY <3>1 DEF Again!TierOf, Again!Strategy, StrategyNames
  <2>5. Tries(Run2, Run2', a)
    BY <2>1, <2>2, <2>3, <2>4 DEF Tries, Run2
  <2> QED
    BY <2>1, <2>5 DEF Moves, Run2
<1>4. ASSUME NEW a \in Anchors,
             Again!PoolIsEmpty(a) \/ Again!CommitSubset(a) \/ Again!RefuseSubset(a)
      PROVE  Moves(Run2, Run2')
  <2>1. /\ stage2 = "matching" /\ a \in queue2 /\ Strategies[at2] = "subset_sum"
        /\ at2' = at2 /\ stage2' = stage2
    BY <1>4 DEF Again!PoolIsEmpty, Again!CommitSubset, Again!RefuseSubset, Again!Turn,
                Again!Strategy
  <2>2. \/ matches2' = matches2
        \/ \E m : m.tier = "T2" /\ m.group = NoGroup /\ matches2' = Append(matches2, m)
    BY <1>4 DEF Again!PoolIsEmpty, Again!CommitSubset, Again!RefuseSubset,
                Again!LeaveUnmatched, Again!CommitRows
  <2>3. Searched(Run2, Run2', a)
    BY <2>1, <2>2 DEF Searched, Run2
  <2> QED
    BY <2>1, <2>3 DEF Moves, Run2
<1> QED
  BY <1>1, <1>2, <1>3, <1>4 DEF Again!Next

-------------------------------------------------------------------------------
(* The month stays, and with it all that is said of it.                     *)

LEMMA ProposedStays ==
  ASSUME UNCHANGED month, NEW s, NEW a, NEW C
  PROVE  Proposed(s, a, C)' = Proposed(s, a, C)
  BY DEF Proposed, Grouped, RowsOf, Candidates, Comparable, Residual, Distance, Total, SumOf,
         RepeatExplains, MapThenSumSet, MapThenFoldSet

LEMMA ReachStays ==
  ASSUME UNCHANGED month, NEW a
  PROVE  Reach(a)' = Reach(a)
  BY DEF Reach, Grouped, RowsOf, Candidates, Comparable, Residual, Distance, Total, SumOf,
         MapThenSumSet, MapThenFoldSet

LEMMA PassStays ==
  ASSUME UNCHANGED month, NEW s, NEW b, NEW done, NEW a, NEW pairs
  PROVE  /\ Own(s, a, pairs)' = Own(s, a, pairs)
         /\ Offer(b)' = Offer(b)
         /\ Took(s, b, done)' = Took(s, b, done)
         /\ Left(s, b, done)' = Left(s, b, done)
         /\ After(s, b)' = After(s, b)
         /\ InReach(pairs)' = InReach(pairs)
<1>1. \A x, p : Own(s, x, p)' = Own(s, x, p)
  BY ProposedStays DEF Own, Mine
<1>2. Offer(b)' = Offer(b)
  BY DEF Offer, InScopeAnchors
<1>3. \A d : Took(s, b, d)' = Took(s, b, d)
  BY <1>1 DEF Took
<1>4. \A d : Left(s, b, d)' = Left(s, b, d)
  BY <1>1 DEF Left
<1>5. After(s, b)' = After(s, b)
  BY <1>2, <1>3, <1>4 DEF After
<1>6. InReach(pairs)' = InReach(pairs)
  BY ReachStays DEF InReach, InScopeAnchors
<1> QED
  BY <1>1, <1>2, <1>3, <1>4, <1>5, <1>6

LEMMA AlongStays ==
  ASSUME UNCHANGED month, NEW st, NEW n, NEW q, NEW u, NEW pairs, Along(st, n, q, u, pairs)
  PROVE  Along(st, n, q, u, pairs)'
<1>1. ASSUME NEW t, NEW k, IsTrace(t, k) PROVE IsTrace(t, k)'
  BY <1>1, PassStays DEF IsTrace, Start
<1>2. ASSUME NEW s, NEW b, Midway(s, b, q, u, pairs) PROVE Midway(s, b, q, u, pairs)'
  BY <1>2, PassStays DEF Midway, InScopeAnchors
<1> QED
  BY <1>1, <1>2 DEF Along, GroupPasses

LEMMA AloneStays == ASSUME UNCHANGED month, Alone' PROVE Alone
  BY ReachStays DEF Alone, InScopeAnchors

LEMMA FollowingStays ==
  ASSUME UNCHANGED month, NEW r, Following(r)
  PROVE  Following(r)'
  BY AlongStays, AloneStays DEF Following, Pairs

-------------------------------------------------------------------------------

BothFollow ==
  /\ month \in Months /\ month2 = Reversed(month)
  /\ Following(Run1) /\ Following(Run2)

LEMMA BothFollowAtFirst == ASSUME InitBoth PROVE BothFollow
<1> DEFINE r == [stage |-> "matching", at |-> 0, queue |-> {}, unmatched |-> {}, matches |-> <<>>]
<1>1. ToSet(r.matches) = {} /\ r.matches \in Seq({})
  BY DEF ToSet
<1>2. Pairs(r.matches) = {}
  BY <1>1 DEF Pairs
<1>3. Following(r)
  BY <1>1, <1>2, PassesAreNumbers DEF Following, Along
<1> HIDE DEF r
<1>4. Run1 = r /\ Run2 = r
  BY DEF InitBoth, Init, Again!Init, Run1, Run2, r
<1> QED
  BY <1>3, <1>4 DEF BothFollow, InitBoth, Init

LEMMA MonthStays == ASSUME Next PROVE UNCHANGED month
  BY DEF Next, BeginPass, Dispose, Attempt, PoolIsEmpty, CommitSubset, RefuseSubset, Turn

LEMMA SecondMonthStays == ASSUME Again!Next PROVE UNCHANGED month2
  BY DEF Again!Next, Again!BeginPass, Again!Dispose, Again!Attempt, Again!PoolIsEmpty,
         Again!CommitSubset, Again!RefuseSubset, Again!Turn

LEMMA BothFollowOn ==
  ASSUME SubsetPassLast, BothFollow, [FirstRun \/ SecondRun]_<<vars, vars2>>
  PROVE  BothFollow'
<1>1. ASSUME UNCHANGED month, NEW r, Following(r) PROVE Following(r)'
  BY <1>1, FollowingStays
<1>2. CASE FirstRun
  <2>1. Next /\ UNCHANGED vars2 /\ UNCHANGED month
    BY <1>2, MonthStays DEF FirstRun
  <2>2. Following(Run1')
    BY <2>1, FirstMoves, MovesFollow DEF BothFollow
  <2>3. Run2' = Run2
    BY <2>1 DEF Run2, vars2
  <2>4. Following(Run1)' /\ Following(Run2)'
    BY <2>1, <2>2, <2>3, <1>1 DEF BothFollow
  <2>5. (month \in Months /\ month2 = Reversed(month))'
    BY <2>1 DEF BothFollow, Reversed, vars2
  <2> QED
    BY <2>4, <2>5 DEF BothFollow
<1>3. CASE SecondRun
  <2>1. Again!Next /\ UNCHANGED vars /\ UNCHANGED month2 /\ UNCHANGED month
    BY <1>3, SecondMonthStays DEF SecondRun, vars
  <2>2. Following(Run2')
    BY <2>1, SecondMoves, MovesFollow DEF BothFollow
  <2>3. Run1' = Run1
    BY <2>1 DEF Run1, vars
  <2>4. Following(Run1)' /\ Following(Run2)'
    BY <2>1, <2>2, <2>3, <1>1 DEF BothFollow
  <2>5. (month \in Months /\ month2 = Reversed(month))'
    BY <2>1 DEF BothFollow, Reversed
  <2> QED
    BY <2>4, <2>5 DEF BothFollow
<1>4. CASE UNCHANGED <<vars, vars2>>
  <2>1. UNCHANGED month /\ UNCHANGED month2 /\ Run1' = Run1 /\ Run2' = Run2
    BY <1>4 DEF vars, vars2, Run1, Run2
  <2>2. Following(Run1)' /\ Following(Run2)'
    BY <2>1, <1>1 DEF BothFollow
  <2>3. (month \in Months /\ month2 = Reversed(month))'
    BY <2>1 DEF BothFollow, Reversed
  <2> QED
    BY <2>2, <2>3 DEF BothFollow
<1> QED
  BY <1>2, <1>3, <1>4

LEMMA BothFollowDecides ==
  ASSUME SubsetPassLast, BothFollow
  PROVE  OrderMattersOnlyInContest
<1> SUFFICES ASSUME BothDone, Alone PROVE Pairs(matches) = Pairs(matches2)
  BY DEF OrderMattersOnlyInContest, Alone
<1>1. /\ Along("done", at, queue, unmatched, Pairs(matches))
      /\ Along("done", at2, queue2, unmatched2, Pairs(matches2))
  BY DEF BothFollow, Following, Run1, Run2, BothDone
<1> QED
  BY <1>1, PairsAreDetermined

(* Anchors that compete for no group are matched to the same groups whether  *)
(* a month is read forwards or backwards (test_metamorphic.py, over          *)
(* engine/tiers.py `run`), as long as no pass comes after the subset pass:   *)
(* what its search finds in its time, and so leaves, is open.                *)
THEOREM OrderMatters == SubsetPassLast => (SpecBoth => []OrderMattersOnlyInContest)
<1> SUFFICES ASSUME SubsetPassLast PROVE SpecBoth => []OrderMattersOnlyInContest
  OBVIOUS
<1>1. InitBoth => BothFollow
  BY BothFollowAtFirst
<1>2. BothFollow /\ [FirstRun \/ SecondRun]_<<vars, vars2>> => BothFollow'
  BY BothFollowOn
<1>3. BothFollow => OrderMattersOnlyInContest
  BY BothFollowDecides
<1> QED
  BY <1>1, <1>2, <1>3, PTL DEF SpecBoth
===============================================================================
