------------------------------- MODULE Matching -------------------------------
(***************************************************************************)
(* One matching run (engine/tiers.py `run`) over the month it is given:     *)
(* the strategies a profile declares, tried in order over the anchors (bank *)
(* credits) that are still unmatched; the subset-sum pass over the rows no  *)
(* source grouped; the passes that write exceptions for what is left; and   *)
(* the completeness audit.  Candidates come from `blocking.build`.  No      *)
(* promoted rule is active here.                                            *)
(*                                                                          *)
(* Amounts are integers in one currency unit.  The anchor side has sign +1  *)
(* and the group side -1, as both shipped profiles declare.  Dates appear   *)
(* as the groups inside an anchor's window, keys as one counterparty an     *)
(* anchor or a group.                                                       *)
(***************************************************************************)
EXTENDS Integers, Sequences, FiniteSets, FiniteSetsExt, SequencesExt

CONSTANTS
  Anchors,          \* record ids of the anchor side
  Rows,             \* record ids of the group side
  Groups,           \* group references the source declared
  NoGroup,          \* a row's group, or an anchor's reference, that is empty
  NoParty,          \* a counterparty key the source did not yield
  GroupOf,          \* Record.group_ref of every row
  Cohort,           \* the value of the profile's cohesion key on every row
  Strategies,       \* MatchProfile.strategies
  Tolerance,        \* MatchProfile.tolerance.absolute
  MaxSolutions,     \* SolverBounds.max_solutions
  MaxCandidates,    \* SolverBounds.max_candidates
  Months            \* the inputs a run may be given

StrategyNames == {"exact", "tolerant", "partial_payment", "subset_sum"}

(* What the code's callers give a run.  `resolve` refuses unknown names and *)
(* an empty sequence; no shipped profile names a strategy twice.            *)
ASSUME ProfileAssumption ==
  /\ Strategies \in Seq(StrategyNames) /\ Strategies # <<>>
  /\ \A i, j \in 1 .. Len(Strategies) : Strategies[i] = Strategies[j] => i = j
  /\ Tolerance \in Nat /\ MaxSolutions \in Nat \ {0} /\ MaxCandidates \in Nat

ASSUME RecordAssumption ==
  /\ NoGroup \notin Groups /\ Anchors \cap Rows = {}
  /\ IsFiniteSet(Anchors) /\ IsFiniteSet(Rows)
  /\ GroupOf \in [Rows -> Groups \cup {NoGroup}]

ASSUME MonthAssumption ==
  \A m \in Months :
    /\ m.line \in [Anchors -> Int]                       \* lines of the statement
    /\ \A a, b \in Anchors : m.line[a] = m.line[b] => a = b
    /\ m.ref \in [Anchors -> Groups \cup {NoGroup}]      \* source_row_id
    /\ m.credit \in [Anchors -> Nat] /\ m.amount \in [Rows -> Int]
    /\ m.window \in [Anchors -> SUBSET Groups]   \* groups with a row in the window
    /\ m.repeated \subseteq Rows                         \* key_occurrence > 0
    /\ m.scope \subseteq Anchors \cup Rows               \* declared out of scope
    /\ m.odd \subseteq Rows                              \* off their peers' relation
    /\ m.endings \subseteq BOOLEAN  \* can a search complete (TRUE), run out of time (FALSE)
    /\ DOMAIN m.party = Anchors \cup Groups              \* the counterparty key

VARIABLES
  month,        \* the input
  stage,        \* "matching" | "done"
  at,           \* strategies begun so far
  queue,        \* anchors this pass has still to try
  unmatched,    \* anchors this pass has left
  consumed,     \* rows the current subset pass has committed
  matches,      \* the matches committed so far, in order
  exceptions    \* the exceptions raised so far

vars == <<month, stage, at, queue, unmatched, consumed, matches, exceptions>>

Tiers == {"T0", "T1", "T2", "T4"}
Codes == {"E02", "E04", "E09", "E13", "E14"}
ExceptionRecords == [code : Codes, records : SUBSET (Anchors \cup Rows),
                     alternatives : SUBSET (SUBSET Rows)]

---------------------------------------------------------------------------
\* What the records say

SumOf(amount, S) == MapThenSumSet(LAMBDA r : amount[r], S)
Total(S) == SumOf(month.amount, S)

InScopeAnchors == Anchors \ month.scope
RowsOf(g) == {r \in Rows \ month.scope : GroupOf[r] = g}
Grouped == {g \in Groups : RowsOf(g) # {}}
Pool == RowsOf(NoGroup)

Residual(a, S) == month.credit[a] - Total(S)
Distance(a, S) == IF Residual(a, S) < 0 THEN -Residual(a, S) ELSE Residual(a, S)

(* blocking.build: the reference block and the date block.  The amount block *)
(* adds groups outside the window only, which no strategy takes.            *)
Candidates(a) ==
  {g \in Groups : \/ g = month.ref[a]
                  \/ g \in month.window[a] /\ month.party[g] = month.party[a]}

\* Mutant: only a match by reference claims its group.
ClaimedByReference == {m.group : m \in {n \in ToSet(matches) : n.tier = "T0"}}

Claimed == {m.group : m \in ToSet(matches)}
Offered(a) == (Grouped \ Claimed) \cap Candidates(a)

---------------------------------------------------------------------------
\* The strategies: at most one group each

Named(a) == Offered(a) \cap {month.ref[a]}

Comparable(a, g) ==
  /\ month.party[a] # NoParty => month.party[g] = month.party[a]
  /\ g \in month.window[a]
  /\ Distance(a, RowsOf(g)) <= Tolerance

Viable(a) == {g \in Offered(a) : Comparable(a, g)}

RepeatExplains(a, g) ==
  LET repeated == RowsOf(g) \cap month.repeated
      sum == Total(repeated)
  IN  repeated # {} /\ (IF sum < 0 THEN -sum ELSE sum) = Distance(a, RowsOf(g))

Exact(a) == {g \in Named(a) : Residual(a, RowsOf(g)) = 0}
Tolerant(a) == {g \in Viable(a) : Viable(a) = {g}}
Partial(a) == {g \in Named(a) : /\ Residual(a, RowsOf(g)) < -Tolerance
                                /\ ~RepeatExplains(a, g)}

Strategy == Strategies[at]
Proposals(a) == CASE Strategy = "exact" -> Exact(a)
                  [] Strategy = "tolerant" -> Tolerant(a)
                  [] Strategy = "partial_payment" -> Partial(a)
TierOf == [exact |-> "T0", tolerant |-> "T1", partial_payment |-> "T4"]

Commit(a, g) ==
  matches' = Append(matches,
    [anchor |-> a, tier |-> TierOf[Strategy], group |-> g, rows |-> RowsOf(g),
     declared |-> IF Strategy = "partial_payment" THEN Distance(a, RowsOf(g)) ELSE 0])

(* A gap is declared to the unit, or not at all. *)
Declarable == {0} \cup {Distance(a, RowsOf(g)) : a \in Anchors, g \in Groups}
MatchRecords == [anchor : Anchors, tier : Tiers, group : Groups \cup {NoGroup},
                 rows : SUBSET Rows, declared : Declarable]

---------------------------------------------------------------------------
\* The subset-sum solver

Cohesive(S, avail) ==
  \A r \in S, q \in avail : Cohort[r] = Cohort[q] => q \in S

Solutions(a, avail) ==
  {S \in SUBSET avail : S # {} /\ Cohesive(S, avail) /\ Distance(a, S) <= Tolerance}

(* Solutions the collector holds when the search stops: all of them, the    *)
(* first MaxSolutions, or what it had found when its time ran out.          *)
Searches(a, avail) ==
  {search \in [found : SUBSET Solutions(a, avail), finished : month.endings] :
     /\ Cardinality(search.found) <= MaxSolutions
     /\ search.finished => \/ search.found = Solutions(a, avail)
                           \/ Cardinality(search.found) = MaxSolutions}

Reading(search) ==
  CASE Cardinality(search.found) = MaxSolutions -> "unproven"
    [] search.found = {} -> IF search.finished THEN "none" ELSE "timeout"
    [] Cardinality(search.found) = 1 /\ MaxSolutions # 1 -> "unique"
    [] OTHER -> "ambiguous"

Answers(a, avail) ==
  {[outcome |-> Reading(s), found |-> s.found] : s \in Searches(a, avail)}

\* Mutant: a pool over the limit is cut to it and searched.
OutcomesOfCut(a, avail) ==
  IF Cardinality(avail) > MaxCandidates
  THEN UNION {Answers(a, cut) : cut \in kSubset(MaxCandidates, avail)}
  ELSE Answers(a, avail)

(* The outcomes `solve` may return, with the subsets it reports. *)
Outcomes(a, avail) ==
  IF Cardinality(avail) > MaxCandidates
  THEN {[outcome |-> "timeout", found |-> {}]}
  ELSE Answers(a, avail)

Raise(code, records, alternatives) ==
  [code |-> code, records |-> records, alternatives |-> alternatives]

(* The exception the subset pass raises for an outcome, if any. *)
Refusal(a, result) ==
  CASE result.outcome = "ambiguous" -> {Raise("E09", {a}, result.found)}
    [] result.outcome \in {"unproven", "timeout"} -> {Raise("E13", {a}, {})}
    [] OTHER -> {}

---------------------------------------------------------------------------
\* What is left over

Seen == UNION {e.records \cup UNION e.alternatives : e \in exceptions}
Unclaimed == Grouped \ Claimed
SingleAnchors == unmatched \ Seen
SingleRows == {r \in Rows \ Seen : \E g \in Unclaimed : RowsOf(g) = {r}}

(* The two sides of one break: pairs that are each other's closest.  Which  *)
(* row is closest (nearmiss.compare) is left open.                          *)
Pairings ==
  {P \in SUBSET (SingleAnchors \X SingleRows) :
     \A p, q \in P : p[1] = q[1] \/ p[2] = q[2] => p = q}

Breaks(P) ==
  LET alone == (SingleAnchors \cup SingleRows) \ UNION {{p[1], p[2]} : p \in P}
  IN  {{p[1], p[2]} : p \in P} \cup {{x} : x \in alone}

\* Mutant: groups of two rows are taken for single rows.
UnclaimedLargeGroups ==
  {RowsOf(g) : g \in {h \in Unclaimed : /\ Cardinality(RowsOf(h)) > 2
                                        /\ ~(RowsOf(h) \subseteq Seen \cup SingleRows)}}

UnclaimedGroups ==
  {RowsOf(g) : g \in {h \in Unclaimed : /\ Cardinality(RowsOf(h)) # 1
                                        /\ ~(RowsOf(h) \subseteq Seen \cup SingleRows)}}

(* E14 stands for the code `diagnose` may decide in its place. *)
Dispositions(P) == {Raise("E14", x, {}) : x \in Breaks(P) \cup UnclaimedGroups}

Gaps == {Raise("E04", {m.anchor} \cup m.rows, {}) :
           m \in {n \in ToSet(matches) : n.declared # 0}}

Variances == IF month.odd = {} THEN {} ELSE {Raise("E02", month.odd, {})}

---------------------------------------------------------------------------
\* The run

Init ==
  /\ month \in Months
  /\ stage = "matching" /\ at = 0
  /\ queue = {} /\ unmatched = {} /\ consumed = {}
  /\ matches = <<>> /\ exceptions = {}

(* The next strategy is offered what the last one left, or every anchor in  *)
(* scope when it left nothing.                                              *)
\* Mutant: every strategy is offered every anchor.
PendingAll == InScopeAnchors

Pending == IF unmatched = {} THEN InScopeAnchors ELSE unmatched

BeginPass ==
  /\ stage = "matching" /\ queue = {} /\ at < Len(Strategies)
  /\ at' = at + 1
  /\ queue' = Pending
  /\ unmatched' = {} /\ consumed' = {}
  /\ UNCHANGED <<month, stage, matches, exceptions>>

(* It is the turn of the anchor on the earliest line.  A pass keeps the     *)
(* order of the statement in what it leaves, so sets are enough.            *)
Turn(a) ==
  /\ stage = "matching"
  /\ a \in queue /\ \A b \in queue : month.line[a] <= month.line[b]
  /\ queue' = queue \ {a}
  /\ UNCHANGED <<month, stage, at>>

LeaveUnmatched(a) == unmatched' = unmatched \cup {a} /\ UNCHANGED matches

\* Mutant: the first match ends the pass.
AttemptFirst(a) ==
  /\ stage = "matching" /\ a \in queue /\ Strategy # "subset_sum"
  /\ \A b \in queue : month.line[a] <= month.line[b]
  /\ \/ \E g \in Proposals(a) : /\ Commit(a, g) /\ queue' = {}
                                /\ unmatched' = unmatched \cup (queue \ {a})
     \/ Proposals(a) = {} /\ LeaveUnmatched(a) /\ queue' = queue \ {a}
  /\ UNCHANGED <<month, stage, at, consumed, exceptions>>

Attempt(a) ==
  /\ Turn(a) /\ Strategy # "subset_sum"
  /\ \/ \E g \in Proposals(a) : Commit(a, g) /\ UNCHANGED unmatched
     \/ Proposals(a) = {} /\ LeaveUnmatched(a)
  /\ UNCHANGED <<consumed, exceptions>>

Available == Pool \ consumed

PoolIsEmpty(a) ==
  /\ Turn(a) /\ Strategy = "subset_sum" /\ Available = {}
  /\ LeaveUnmatched(a)
  /\ UNCHANGED <<consumed, exceptions>>

CommitRows(a, S) ==
  /\ matches' = Append(matches, [anchor |-> a, tier |-> "T2", group |-> NoGroup,
                                 rows |-> S, declared |-> 0])
  /\ consumed' = consumed \cup S

\* Mutant: of several subsets that explain the credit, one is taken.
CommitAnySubset(a) ==
  /\ Turn(a) /\ Strategy = "subset_sum" /\ Available # {}
  /\ \E result \in Outcomes(a, Available) :
       /\ result.outcome \in {"unique", "ambiguous"}
       /\ \E S \in result.found : CommitRows(a, S)
  /\ UNCHANGED <<unmatched, exceptions>>

CommitSubset(a) ==
  /\ Turn(a) /\ Strategy = "subset_sum" /\ Available # {}
  /\ \E result \in Outcomes(a, Available) :
       /\ result.outcome = "unique"
       /\ \E S \in result.found : CommitRows(a, S)
  /\ UNCHANGED <<unmatched, exceptions>>

RefuseSubset(a) ==
  /\ Turn(a) /\ Strategy = "subset_sum" /\ Available # {}
  /\ \E result \in Outcomes(a, Available) :
       /\ result.outcome # "unique"
       /\ exceptions' = exceptions \cup Refusal(a, result)
  /\ LeaveUnmatched(a)
  /\ UNCHANGED consumed

Dispose ==
  /\ stage = "matching" /\ queue = {} /\ at = Len(Strategies)
  /\ \E P \in Pairings :
       exceptions' = exceptions \cup Dispositions(P) \cup Gaps \cup Variances
  /\ stage' = "done"
  /\ UNCHANGED <<month, at, queue, unmatched, consumed, matches>>

Next == \/ BeginPass \/ Dispose
        \/ \E a \in Anchors : Attempt(a) \/ PoolIsEmpty(a) \/ CommitSubset(a) \/ RefuseSubset(a)

Spec == Init /\ [][Next]_vars

---------------------------------------------------------------------------
\* The audit and the checker, both over what came out

MatchedAnchors == {m.anchor : m \in ToSet(matches)}
MatchedRows == UNION {m.rows : m \in ToSet(matches)}

(* completeness.audit `classify` *)
Fate(x) == CASE x \in MatchedAnchors \cup MatchedRows -> "matched"
             [] x \notin MatchedAnchors \cup MatchedRows /\ x \in Seen -> "excepted"
             [] x \notin MatchedAnchors \cup MatchedRows \cup Seen
                  /\ x \in month.scope -> "out_of_scope"
             [] OTHER -> "undisposed"

(* verifier.verify: the legs re-added from the records, the declared gap    *)
(* compared with the sum, and no row of the cited group left out.           *)
Verified(m) ==
  /\ IF m.declared = 0 THEN Distance(m.anchor, m.rows) <= Tolerance
                       ELSE Distance(m.anchor, m.rows) = m.declared
  /\ {r \in Rows : GroupOf[r] # NoGroup /\ \E q \in m.rows : GroupOf[q] = GroupOf[r]}
        \subseteq m.rows \cup month.scope

---------------------------------------------------------------------------
\* Properties

(* The state is of the kind the code keeps, and rows are committed and      *)
(* offered only out of the run's own scope.                                 *)
TypeOK ==
  /\ stage \in {"matching", "done"}
  /\ at \in 0 .. Len(Strategies)
  /\ queue \subseteq Anchors /\ unmatched \subseteq Anchors
  /\ matches \in Seq(MatchRecords) /\ exceptions \subseteq ExceptionRecords
  /\ consumed \subseteq Pool

(* No row of the group side stands behind two matches, whichever strategies *)
(* committed them (`run`: "a group can back exactly one anchor").           *)
BacksOneAnchor ==
  \A i, j \in 1 .. Len(matches) :
    i # j => matches[i].rows \cap matches[j].rows = {}

(* Every match the engine commits is one its independent checker accepts,   *)
(* from the records alone (close.match_and_verify refutes nothing).         *)
EveryMatchVerifies == \A m \in ToSet(matches) : Verified(m)

(* When the run ends every anchor and every row a source grouped has a      *)
(* fate, and what was declared out of scope was neither matched nor raised  *)
(* by the matching passes (completeness.audit over `run`).                  *)
EveryInputHasAFate ==
  stage = "done" =>
    \A x \in Anchors \cup {r \in Rows : GroupOf[r] # NoGroup} :
      IF x \in month.scope THEN Fate(x) = "out_of_scope" \/ x \in month.odd
                           ELSE Fate(x) # "undisposed"

(* The anchors an E14 or a solver refusal names: they are left unmatched.   *)
Refused ==
  Anchors \cap UNION {e.records : e \in {f \in exceptions : f.code \notin {"E02", "E04"}}}

(* As long as one anchor finds no match at all, every other anchor is       *)
(* matched at most once and none is both matched and reported as left over. *)
LeftoverKeepsFatesApart ==
  ~(InScopeAnchors \subseteq MatchedAnchors) =>
    /\ \A i, j \in 1 .. Len(matches) : matches[i].anchor = matches[j].anchor => i = j
    /\ MatchedAnchors \cap Refused = {}

(* A subset match is the only subset of what earlier matches left of the    *)
(* pool that explains the credit (`_subset_pass`: "commits only on a        *)
(* proven-unique subset"), where no search runs out of time: the solver     *)
(* reads one subset found before its time limit as a unique one.            *)
SubsetIsUnique ==
  FALSE \notin month.endings =>
    \A i \in 1 .. Len(matches) :
      matches[i].tier = "T2" =>
        LET earlier == UNION {matches[j].rows : j \in 1 .. i - 1}
        IN  Solutions(matches[i].anchor, Pool \ earlier) = {matches[i].rows}

===============================================================================
