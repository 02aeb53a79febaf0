--------------------------- MODULE GovernanceProofs ---------------------------
(***************************************************************************)
(* For any codes, rules, policies and batches: no close matches beyond the *)
(* ceiling of the policy it ran under, evidence outlives the policy it was *)
(* taken under, money is booked on ratified codes, a close that is ok lost *)
(* no match to its rules, and none begins without the rules of its store.  *)
(*                                                                         *)
(* The ceiling is not inductive by itself: a close tests an approval, not  *)
(* an amount.  What makes the test enough is that no rule is ever approved *)
(* for more than the ceiling of the policy named in its approval, and that *)
(* the close holds the approvals as they were when it loaded the rules.    *)
(***************************************************************************)
EXTENDS Governance, WellFoundedInduction, TLAPS

\* An approval names a policy that allows what the rule asks for, and that its
\* evidence holds under, whenever the evidence was taken.
Sound(r, rec) ==
    rec.status = "promoted" =>
        /\ rec.under \in Policies
        /\ Rule[r].kind = "set_tolerance" => Rule[r].amount <= Ceiling[rec.under]
        /\ rec.evidence # rec.under => HoldsUp(Evidence[r][rec.under])

Stored == store \in Seq(RuleIds) /\ saving \in RuleIds \cup {None}
Approved ==
    /\ rules \in [RuleIds -> RuleRecords]
    /\ policy \in Policies
    /\ \A r \in RuleIds : Sound(r, rules[r])

Loaded(q) ==
    /\ q.offered \in Seq(RuleIds)
    /\ q.approvals \in [Range(q.offered) -> RuleRecords]
    /\ \A r \in Range(q.offered) : Sound(r, q.approvals[r])

\* What a close that has ended did, of what it had read.
Bounded(q, did) == did.tolerance <= Ceiling[q.policy]
Ratified(q, did) ==
    \A e \in DOMAIN did.booked :
        \/ did.booked[e] = "suspense"
        \/ \E i \in DOMAIN q.offered : Rule[q.offered[i]].kind = "book_to"
        \/ q.codes[did.code[e].code].status = "promoted"
Complete(q, did) ==
    did.ok /\ q.offered # <<>> => Verified(<<>>, q.batch, q.policy) \subseteq did.matched
Right(q, did) == Bounded(q, did) /\ Ratified(q, did) /\ Complete(q, did)

Following ==
    /\ close.stage \in {"none", "identified", "closed"}
    /\ close.stage # "none" => Loaded(close)
    /\ close.stage = "closed" => Right(close, close.did)

IInv == Stored /\ Approved /\ Following
-----------------------------------------------------------------------------
(* Tolerances. *)

LEMMA LeastExists ==
    ASSUME NEW T \in SUBSET Nat, T # {}
    PROVE  \E t \in T : \A u \in T : t <= u
<1> DEFINE R == OpToRel(<, Nat)
<1>1. \A x, y \in Nat : x < y => <<x, y>> \in R
    BY DEF OpToRel
<1>2. IsWellFoundedOn(R, Nat)
    BY NatLessThanWellFounded
<1> HIDE DEF R
<1>3. PICK t \in T : \A u \in T : <<u, t>> \notin R
    BY <1>2, WFMin
<1>4. \A u \in T : u \in Nat /\ t \in Nat /\ ~(u < t)
    BY <1>1, <1>3
<1> QED BY <1>4

\* Numbers that have a bound have a largest one.
LEMMA MaxExists ==
    ASSUME NEW S \in SUBSET Nat, S # {}, NEW c \in Nat, \A x \in S : x <= c
    PROVE  Max(S) \in S /\ \A x \in S : x <= Max(S)
<1> DEFINE T == {c - x : x \in S}
<1>1. T \in SUBSET Nat
  <2>1. \A x \in S : c - x \in Nat
      OBVIOUS
  <2> QED BY <2>1
<1>2. T # {}
    OBVIOUS
<1> HIDE DEF T
<1>3. PICK t \in T : \A u \in T : t <= u
    BY <1>1, <1>2, LeastExists
<1>4. PICK x \in S : t = c - x
    BY <1>3 DEF T
<1>5. \A y \in S : x >= y
  <2> SUFFICES ASSUME NEW y \in S PROVE x >= y
      OBVIOUS
  <2>1. c - y \in T
      BY DEF T
  <2> QED BY <1>3, <1>4, <2>1
<1> QED BY <1>5 DEF Max

LEMMA ToleranceBounded ==
    ASSUME NEW rs, NEW c \in Nat, Tolerance <= c,
           \A i \in DOMAIN rs : rs[i] \in RuleIds,
           \A i \in OfKind(rs, "set_tolerance") : Rule[rs[i]].amount <= c
    PROVE  ToleranceUnder(rs) \in 0..c
<1> DEFINE asked == {Rule[rs[i]].amount : i \in OfKind(rs, "set_tolerance")}
<1>1. asked \in SUBSET Nat /\ \A x \in asked : x <= c
    BY RuleAssumption DEF OfKind
<1> HIDE DEF asked
<1>2. CASE asked = {}
  <2>1. ToleranceUnder(rs) = Tolerance
      BY <1>2 DEF ToleranceUnder, asked
  <2> QED BY <2>1, PolicyAssumption
<1>3. CASE asked # {}
  <2>1. ToleranceUnder(rs) = Max(asked)
      BY <1>3 DEF ToleranceUnder, asked
  <2>2. Max(asked) \in asked
      BY <1>1, <1>3, MaxExists
  <2>3. Max(asked) \in Nat /\ Max(asked) <= c
      BY <1>1, <2>2
  <2> QED BY <2>1, <2>3
<1> QED BY <1>2, <1>3

LEMMA PolicyFacts ==
    /\ \A v \in Policies : Ceiling[v] \in Nat /\ Tolerance <= Ceiling[v]
    /\ 1 \in Policies /\ Policies \subseteq Nat /\ None \notin Policies
    /\ Tolerance \in Nat /\ None \notin Roles /\ "suspense" \in Roles
BY PolicyAssumption DEF Policies

\* What a close matches with, if the approvals it was handed are sound.
LEMMA ClosesWithinCeiling ==
    ASSUME NEW q, Loaded(q), q.policy \in Policies
    PROVE  ToleranceUnder(Acting(q)) <= Ceiling[q.policy]
<1>1. \A i \in DOMAIN Acting(q) :
         /\ i \in DOMAIN q.offered /\ Acting(q)[i] = q.offered[i]
         /\ Admissible(q.offered[i], q.approvals[q.offered[i]], q.policy)
    BY DEF Acting, Restrict
<1>2. \A i \in DOMAIN q.offered : q.offered[i] \in Range(q.offered) /\ q.offered[i] \in RuleIds
    BY DEF Loaded, Range
<1>3. \A i \in OfKind(Acting(q), "set_tolerance") :
          Rule[Acting(q)[i]].amount <= Ceiling[q.policy]
    BY <1>1, <1>2 DEF OfKind, Admissible, Loaded, Sound
<1> HIDE DEF Acting
<1>4. ToleranceUnder(Acting(q)) \in 0..Ceiling[q.policy]
    BY <1>1, <1>2, <1>3, PolicyFacts, ToleranceBounded
<1> QED BY <1>4, PolicyFacts
-----------------------------------------------------------------------------
(* Evidence. *)

\* Whatever policy judges it, a run without rules proves the same matches: the
\* profile's own tolerance is within every ceiling.
LEMMA ProvenWithin ==
    ASSUME NEW rs, NEW b, NEW v \in Policies, ToleranceUnder(rs) \in 0..Ceiling[v]
    PROVE  Verified(rs, b, v) =
             {a \in Matched(rs, b) : RuleAccounts(rs, b, World[b].backs[a])}
<1>1. \A a \in Matched(rs, b) :
          Residual(b, a, Kept(rs, b, World[b].backs[a])) \in 0..ToleranceUnder(rs)
    BY DEF Matched, Pairs
<1>2. 0..ToleranceUnder(rs) \subseteq 0..Ceiling[v]
    BY PolicyFacts
<1> QED BY <1>1, <1>2 DEF Verified, Proven

LEMMA NoRules == \A v \in Policies : ToleranceUnder(<<>>) \in 0..Ceiling[v]
<1>1. OfKind(<<>>, "set_tolerance") = {}
    BY DEF OfKind
<1>2. ToleranceUnder(<<>>) = Tolerance
    BY <1>1 DEF ToleranceUnder
<1> QED BY <1>2, PolicyFacts

\* Evidence that held under v holds under any w that allows the rule's tolerance.
LEMMA EvidenceOutlives ==
    ASSUME NEW r \in RuleIds, NEW v \in Policies, NEW w \in Policies,
           Rule[r].kind = "set_tolerance" => Rule[r].amount <= Ceiling[w],
           HoldsUp(Evidence[r][v])
    PROVE  HoldsUp(Evidence[r][w])
<1> DEFINE matched == Matched(<<r>>, "history")
           proved(u) == Proven(<<r>>, "history", u, matched)
           bare(u) == Verified(<<>>, "history", u)
<1>1. bare(v) = bare(w)
    BY ProvenWithin, NoRules
<1>2. ToleranceUnder(<<r>>) \in 0..Ceiling[w]
    BY ToleranceBounded, PolicyFacts DEF OfKind
<1>3. proved(w) = {a \in matched : RuleAccounts(<<r>>, "history", World["history"].backs[a])}
    BY <1>2, ProvenWithin DEF Verified
<1>4. proved(v) \subseteq proved(w)
    BY <1>3 DEF Proven
<1> HIDE DEF matched, proved, bare
<1>5. \A u \in Policies : HoldsUp(Evidence[r][u]) <=>
          bare(u) \ matched = {} /\ matched \ (bare(u) \cup proved(u)) = {}
    BY DEF HoldsUp, Evidence, Measured, Compared, matched, proved, bare
<1> QED BY <1>1, <1>4, <1>5
-----------------------------------------------------------------------------
(* The invariant. *)

LEMMA Begins == Init => IInv
<1> SUFFICES ASSUME Init PROVE IInv
    OBVIOUS
<1>1. Stored /\ Following
    BY RuleAssumption DEF Init, Stored, Following, NoClose
<1>2. ASSUME NEW r \in RuleIds PROVE rules[r] \in RuleRecords /\ Sound(r, rules[r])
  <2>1. CASE Contains(store, r)
    <3>1. rules[r] = ApprovedAtStart
        BY <1>2, <2>1 DEF Init
    <3>2. PICK i \in DOMAIN store : store[i] = r
        BY <2>1 DEF Contains
    <3>3. Rule[r].kind = "set_tolerance" => Rule[r].amount <= Ceiling[1]
        BY <3>2, RuleAssumption DEF Init
    <3> QED BY <3>1, <3>3, PolicyFacts DEF ApprovedAtStart, RuleRecords, Sound
  <2>2. CASE ~Contains(store, r)
    <3>1. rules[r] = Fresh
        BY <1>2, <2>2 DEF Init
    <3> QED BY <3>1 DEF Fresh, RuleRecords, Sound
  <2> QED BY <2>1, <2>2
<1>3. Approved
  <2>1. \E f : rules = [r \in RuleIds |-> f[r]]
      BY DEF Init
  <2> QED BY <1>2, <2>1, PolicyFacts DEF Approved, Init
<1> QED BY <1>1, <1>3 DEF IInv

\* What a close has read stays as it was read.
LEMMA Follows == ASSUME Following, Change PROVE Following'
<1>1. close' = NoClose \/ close' = close
    BY DEF Change
<1>2. CASE close' = NoClose
    BY <1>2 DEF Following, NoClose
<1>3. CASE close' = close
    BY <1>3 DEF Following
<1> QED BY <1>1, <1>2, <1>3

LEMMA FileSteps ==
    ASSUME IInv,
           \/ \E c \in Codes :
                \/ \E claim \in Roles \cup {None} : ProposeCode(c, claim) \/ PromoteCode(c, claim)
                \/ AcceptCode(c) \/ RetireCode(c)
           \/ ApprovePolicy \/ \E s \in Specs : ReplaceSpec(s)
           \/ \E r \in RuleIds : BeginSave(r)
    PROVE  IInv'
<1>1. /\ UNCHANGED <<rules, store>> /\ Change
      /\ policy' \in Policies /\ saving' \in RuleIds \cup {None}
    BY DEF IInv, Stored, Approved, ProposeCode, PromoteCode, AcceptCode, RetireCode, Become,
           ApprovePolicy, ReplaceSpec, BeginSave
<1> QED BY <1>1, Follows DEF IInv, Stored, Approved

LEMMA RuleSteps ==
    ASSUME IInv, NEW r \in RuleIds, MeasureRule(r) \/ PromoteRule(r) \/ RevokeRule(r)
    PROVE  IInv'
<1> USE DEF IInv, Approved
<1>0. rules[r] \in RuleRecords /\ Sound(r, rules[r])
    OBVIOUS
<1>1. PICK rec : Rerecord(r, rec) /\ rec \in RuleRecords /\ Sound(r, rec)
  <2>1. CASE MeasureRule(r)
    <3> DEFINE rec == [rules[r] EXCEPT !.evidence = policy]
    <3>1. Rerecord(r, rec) /\ rec.status # "promoted"
        BY <1>0, <2>1 DEF MeasureRule, RuleRecords
    <3>2. rec \in RuleRecords
        BY <1>0 DEF RuleRecords
    <3> QED BY <3>1, <3>2 DEF Sound
  <2>2. CASE PromoteRule(r)
    <3> DEFINE rec == [rules[r] EXCEPT !.status = "promoted", !.under = policy]
    <3>1. Rerecord(r, rec) /\ rules[r].evidence \in Policies
        BY <1>0, <2>2 DEF PromoteRule, RuleRecords
    <3>2. /\ Rule[r].kind = "set_tolerance" => Rule[r].amount <= Ceiling[policy]
          /\ HoldsUp(Evidence[r][rules[r].evidence])
        BY <2>2 DEF PromoteRule, Allowed
    <3>3. HoldsUp(Evidence[r][policy])
        BY <3>1, <3>2, EvidenceOutlives
    <3>4. rec \in RuleRecords /\ rec.under = policy
        BY <1>0 DEF RuleRecords
    <3> QED BY <3>1, <3>2, <3>3, <3>4 DEF Sound
  <2>3. CASE RevokeRule(r)
    <3> DEFINE rec == [rules[r] EXCEPT !.revoked = TRUE]
    <3>1. Rerecord(r, rec) /\ rules[r].status = "promoted"
        BY <2>3 DEF RevokeRule
    <3>2. rec \in RuleRecords
        BY <1>0 DEF RuleRecords
    <3>3. Sound(r, rec)
        BY <1>0, <3>1 DEF RuleRecords, Sound
    <3> QED BY <3>1, <3>2, <3>3
  <2> QED BY <2>1, <2>2, <2>3
<1>2. UNCHANGED <<store, saving, policy>> /\ Change /\ rules' = [rules EXCEPT ![r] = rec]
    BY <1>1 DEF Rerecord
<1>3. \A x \in RuleIds : rules'[x] \in RuleRecords /\ Sound(x, rules'[x])
    BY <1>1, <1>2
<1>4. rules' \in [RuleIds -> RuleRecords]
    BY <1>1, <1>2
<1> QED BY <1>2, <1>3, <1>4, Follows DEF Stored

LEMMA Loads == ASSUME IInv, BeginClose PROVE IInv'
<1>1. close' = Identified(store) /\ UNCHANGED <<store, saving, rules, policy>>
    BY DEF BeginClose, governed
<1>2. Range(store) \subseteq RuleIds
    BY DEF IInv, Stored, Range
<1>3. Loaded(close')
    BY <1>1, <1>2 DEF IInv, Stored, Approved, Identified, Loaded
<1>4. close'.stage = "identified"
    BY <1>1 DEF Identified
<1> QED BY <1>1, <1>3, <1>4 DEF IInv, Stored, Approved, Following

\* A booking comes from a rule the close was handed, from a ratified code, or is suspense.
LEMMA Booked ==
    ASSUME NEW q, NEW b, NEW e, NEW code, Destination(q.offered, b, e, code, q.codes) # "suspense"
    PROVE  \/ \E i \in DOMAIN q.offered : Rule[q.offered[i]].kind = "book_to"
           \/ q.codes[code].status = "promoted"
<1>1. CASE Override(q.offered, b, e) # None
    BY <1>1 DEF Override, OfKind
<1>2. CASE Override(q.offered, b, e) = None
  <2>1. BookingFor(q.codes, code) # None
      BY <1>2 DEF Destination, First
  <2> QED BY <2>1 DEF BookingFor, MayDirectPosting
<1> QED BY <1>1, <1>2

LEMMA DecidesRightly ==
    ASSUME NEW q, Loaded(q), q.policy \in Policies
    PROVE  Right(q, Decided(q))
<1> DEFINE rs == Acting(q)
           did == Decided(q)
           matched == Matched(rs, q.batch)
           raised == Exceptions(rs, q.batch, matched)
           verified == Proven(rs, q.batch, q.policy, matched)
           broken == IF q.offered = <<>> THEN {} ELSE Broken(rs, q.batch, q.policy)
           books == [e \in Posted(q.batch, DOMAIN raised, verified) |->
                       Destination(q.offered, q.batch, e, raised[e].code, q.codes)]
<1>1. did = [matched |-> verified, refused |-> matched \ verified, code |-> raised,
             booked |-> books, tolerance |-> ToleranceUnder(rs), broken |-> broken,
             ok |-> broken = {}]
    BY DEF Decided, Match, Verify, Settled
<1> HIDE DEF did, rs, raised, books, broken
<1>2. Bounded(q, did)
    BY <1>1, ClosesWithinCeiling DEF Bounded, rs
<1>3. Ratified(q, did)
  <2> SUFFICES ASSUME NEW e \in DOMAIN books, books[e] # "suspense"
               PROVE  \/ \E i \in DOMAIN q.offered : Rule[q.offered[i]].kind = "book_to"
                      \/ q.codes[raised[e].code].status = "promoted"
      BY <1>1 DEF Ratified
  <2>1. books[e] = Destination(q.offered, q.batch, e, raised[e].code, q.codes)
      BY DEF books
  <2> QED BY <2>1, Booked
<1>4. Complete(q, did)
  <2> SUFFICES ASSUME broken = {}, q.offered # <<>>
               PROVE  Verified(<<>>, q.batch, q.policy) \subseteq verified
      BY <1>1 DEF Complete
  <2>1. Verified(rs, q.batch, q.policy) = verified
      BY DEF Verified
  <2> QED BY <2>1 DEF broken, Broken
<1> QED BY <1>2, <1>3, <1>4 DEF Right, did

LEMMA Decides == ASSUME IInv, RunClose PROVE IInv'
<1> DEFINE q == [stage |-> "closed", batch |-> close.batch, offered |-> close.offered,
                 approvals |-> close.approvals, policy |-> policy, codes |-> codes,
                 did |-> None]
<1>1. PICK did : did = Decided(q) /\ close' = [q EXCEPT !.did = did]
    BY DEF RunClose
<1>2. UNCHANGED <<store, saving, rules, policy>>
    BY DEF RunClose, governed
<1>3. Loaded(close) /\ policy \in Policies
    BY DEF IInv, Following, Approved, RunClose
<1>4. Loaded(q) /\ q.policy \in Policies
    BY <1>3 DEF Loaded
<1>5. Right(q, did)
    BY <1>1, <1>4, DecidesRightly
<1>6. Loaded(close') /\ Right(close', did) /\ close'.did = did /\ close'.stage = "closed"
    BY <1>1, <1>4, <1>5 DEF Loaded, Right, Bounded, Ratified, Complete
<1> QED BY <1>2, <1>6 DEF IInv, Stored, Approved, Following

LEMMA Steps == IInv /\ [Next]_vars => IInv'
<1> SUFFICES ASSUME IInv, [Next]_vars PROVE IInv'
    OBVIOUS
<1>1. CASE UNCHANGED vars
    BY <1>1 DEF vars, IInv, Stored, Approved, Following
<1>2. CASE EndSave
  <2>1. Append(store, saving) \in Seq(RuleIds)
      BY <1>2 DEF EndSave, IInv, Stored
  <2> QED BY <1>2, <2>1 DEF EndSave, IInv, Stored, Approved, Following
<1>3. CASE AbandonClose
    BY <1>3 DEF AbandonClose, governed, NoClose, IInv, Stored, Approved, Following
<1> QED BY <1>1, <1>2, <1>3, FileSteps, RuleSteps, Loads, Decides DEF Next

LEMMA Invariance == Spec => []IInv
BY Begins, Steps, PTL DEF Spec
-----------------------------------------------------------------------------
\* A close matches within the ceiling of the policy it ran under (admissible,
\* tolerance_for, policy.permits_tolerance).
THEOREM CeilingHolds == Spec => []ToleranceWithinCeiling
<1>1. IInv => ToleranceWithinCeiling
    BY DEF IInv, Following, Right, Bounded, ToleranceWithinCeiling, Done
<1> QED BY <1>1, Invariance, PTL

\* Money goes anywhere but suspense on the word of a ratified code or of a rule
\* (booking_for, booking_overrides).
THEOREM BookingsAreRatified == Spec => []UnratifiedNeverBooks
<1>1. IInv => UnratifiedNeverBooks
    BY DEF IInv, Following, Right, Ratified, UnratifiedNeverBooks, Done
<1> QED BY <1>1, Invariance, PTL

\* A close that is ok has kept every match that it would have made without its rules
\* (broken_by_rules).
THEOREM OkLosesNothing == Spec => []LostMatchBlocks
<1>1. IInv => LostMatchBlocks
    BY DEF IInv, Following, Right, Complete, LostMatchBlocks, Done
<1> QED BY <1>1, Invariance, PTL

\* A rule approved on evidence of an earlier policy does no harm to the history under
\* the policy it is approved for: no measurement has to be taken again (promote).
THEOREM EvidenceKeeps == Spec => []ApprovedEvidenceHolds
<1>1. IInv => ApprovedEvidenceHolds
    BY DEF IInv, Approved, Sound, ApprovedEvidenceHolds
<1> QED BY <1>1, Invariance, PTL

\* Of the steps while no close runs, only the one that loads the store begins a close.
LEMMA OnlyLoadingBegins ==
    ASSUME [Next]_vars, Idle, close'.stage = "identified"
    PROVE  BeginClose
<1>1. ASSUME close' = close \/ close' = NoClose PROVE FALSE
    BY <1>1 DEF Idle, NoClose
<1>2. ASSUME Change PROVE FALSE
    BY <1>1, <1>2 DEF Change
<1>3. ASSUME NEW c, NEW claim, ProposeCode(c, claim) \/ PromoteCode(c, claim) PROVE FALSE
    BY <1>2, <1>3 DEF ProposeCode, PromoteCode, Become
<1>4. ASSUME NEW c, AcceptCode(c) \/ RetireCode(c) PROVE FALSE
    BY <1>2, <1>4 DEF AcceptCode, RetireCode, Become
<1>5. ASSUME NEW s, ReplaceSpec(s) PROVE FALSE
    BY <1>2, <1>5 DEF ReplaceSpec
<1>6. ASSUME NEW r, MeasureRule(r) \/ PromoteRule(r) \/ RevokeRule(r) \/ BeginSave(r) PROVE FALSE
    BY <1>2, <1>6 DEF MeasureRule, PromoteRule, RevokeRule, Rerecord, BeginSave
<1>7. ASSUME ApprovePolicy PROVE FALSE
    BY <1>2, <1>7 DEF ApprovePolicy
<1>8. ASSUME EndSave \/ UNCHANGED vars PROVE FALSE
    BY <1>1, <1>8 DEF EndSave, vars
<1>9. ASSUME RunClose \/ AbandonClose PROVE FALSE
    BY <1>9 DEF RunClose, AbandonClose, Idle
<1> QED BY <1>3, <1>4, <1>5, <1>6, <1>7, <1>8, <1>9 DEF Next

\* A close is handed every rule that the store holds when it begins: it finds the store
\* whole, or it does not begin (rulestore.save, rulestore.load).
THEOREM RulesAreKept == Spec => RulesAreNotForgotten
<1> DEFINE Handed ==
             \A r \in RuleIds : Contains(store, r) /\ Idle /\ close'.stage = "identified"
                 => Contains(close'.offered, r)
<1>1. ASSUME [Next]_vars PROVE Handed
  <2> SUFFICES ASSUME NEW r \in RuleIds, Contains(store, r), Idle, close'.stage = "identified"
               PROVE  Contains(close'.offered, r)
      OBVIOUS
  <2>1. BeginClose
      BY <1>1, OnlyLoadingBegins
  <2>2. close'.offered = store
      BY <2>1 DEF BeginClose, Identified
  <2> QED BY <2>2
<1>2. [Next]_vars => [Handed]_vars
    BY <1>1
<1>3. RulesAreNotForgotten <=> [][Handed]_vars
    BY DEF RulesAreNotForgotten
<1> HIDE DEF Handed
<1> QED BY <1>2, <1>3, PTL DEF Spec
=============================================================================
