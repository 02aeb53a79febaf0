------------------------------ MODULE Governance ------------------------------
(***************************************************************************)
(* Who may change what a close decides, and what a close makes of it.      *)
(*                                                                         *)
(* Codes of the taxonomy climb a ladder (engine/taxonomy.py); rules are    *)
(* measured against history, judged against the policy and promoted        *)
(* (engine/promotion.py), kept in the rule store and applied by every      *)
(* later close (engine/rulestore.py); policies and adapter specs are files *)
(* that somebody replaces.  A close (loop.run, run_close) reads them one   *)
(* after the other, tests every rule's approval, matches, verifies and     *)
(* books.                                                                  *)
(*                                                                         *)
(* Which anchor is offered which group is Matching's subject; here an      *)
(* anchor has one group that may back it.  A rule's predicates are         *)
(* abstracted to the records they hold of, and the keys that other rules   *)
(* may have given those; a rule acts in one way.  Codes, owners' queues,   *)
(* dates and wording have no part in what is decided here.                 *)
(***************************************************************************)
EXTENDS Integers, FiniteSets, FiniteSetsExt, SequencesExt, TLC

CONSTANTS
    Codes,      \* exception codes that may ever be minted
    RuleIds,    \* rules that may ever be proposed, numbered as their ids sort
    Rule,       \* Rule[r]: how r acts and what it fires on
    Batches,    \* what a run may read: "history", and the current period as
    World,      \*   each version of the adapter specs reads it
    Roles,      \* AccountRole
    None,       \* no code, no role, no amount, no policy
    Latest,     \* policies are approved one after the other, up to this version
    Ceiling,    \* Ceiling[v]: policy.tolerance_ceiling
    MaxAdded,   \* policy.max_added_matches
    Breadth,    \* reference rows a rule may fire on (max_reference_selectivity)
    Tolerance,  \* the profile's own tolerance
    Deployments, \* the rule stores a deployment may start with
    Seeded,     \* Seeded[c]: the booking of a code it starts with, ratified
    MaxChanges  \* how often the files that govern a close may change

Kinds == {"suppress", "set_tolerance", "normalize_key", "raise_advisory", "book_to"}
Policies == 1..Latest
Specs == Batches \ {"history"}
Subjects(b) == World[b].anchors \cup World[b].groups

ASSUME WorldAssumption ==
    \A b \in Batches :
        LET w == World[b] IN
        /\ IsFiniteSet(w.rows) /\ IsFiniteSet(w.anchors) /\ w.rows \cap w.anchors = {}
        /\ w.amount \in [w.rows \cup w.anchors -> Int]
        /\ w.backs \in [w.anchors -> w.groups] /\ w.group \in [w.rows -> w.groups]
        /\ DOMAIN w.key = w.rows \cup w.anchors
        /\ w.names \in [Subjects(b) -> SUBSET (w.rows \cup w.anchors)]
        /\ w.code \in [Subjects(b) -> DOMAIN Seeded]
        /\ w.proven \subseteq Subjects(b)

ASSUME PolicyAssumption ==
    /\ Latest \in Nat \ {0}
    /\ Ceiling \in [Policies -> Nat]
    /\ MaxAdded \in Nat /\ Breadth \in Nat
    /\ Tolerance \in Nat /\ \A v \in Policies : Tolerance <= Ceiling[v]
    /\ "suspense" \in Roles /\ None \notin Roles \cup Codes \cup Nat
    /\ DOMAIN Seeded \subseteq Codes /\ Seeded \in [DOMAIN Seeded -> Roles \cup {None}]
    /\ MaxChanges \in Nat

ASSUME RuleAssumption ==
    /\ RuleIds \subseteq Nat /\ IsFiniteSet(RuleIds)
    /\ \A r \in RuleIds :
         /\ Rule[r].kind \in Kinds /\ Rule[r].amount \in Nat
         /\ Rule[r].induced \in Nat /\ Rule[r].reference \in Nat
         /\ \A b \in Batches :
              /\ Rule[r].fires[b] \subseteq World[b].rows \cup World[b].anchors
              /\ \A p \in Rule[r].again[b] : p[1] \in World[b].rows
    /\ "history" \in Batches
    /\ Deployments \subseteq Seq(RuleIds)
    /\ \A shipped \in Deployments : \A i \in DOMAIN shipped :
         Rule[shipped[i]].kind = "set_tolerance" => Rule[shipped[i]].amount <= Ceiling[1]

VARIABLES
    codes,      \* the registry: status and claimed booking of every code
    policy,     \* the version of the policy in force
    rules,      \* every rule's status, evidence and approval
    store,      \* data/rules/<profile>.json: the promoted rules, in order
    saving,     \* the rule being added while the store file is cut off, or None
    spec,       \* the version of the adapter specs on disk
    close,      \* the close under way or just done: what it was given, what it did
    changes     \* changes of what governs a close, so far

governed == <<codes, policy, rules, store, saving, spec, changes>>
vars == <<codes, policy, rules, store, saving, spec, close, changes>>
-----------------------------------------------------------------------------
(* The ladder of codes. *)

Statuses == {"absent", "proposed", "provisional", "promoted", "retired"}

\* The AUTHORITY matrix: what a status lets a code do.
MayFireRule == {"promoted"}
MayDirectPosting == {"promoted"}

Definitions == [status : Statuses, booking : Roles \cup {None}]

\* Mutant: the booking a code asks for is read without its authority.
BookingAsClaimed(reg, c) == reg[c].booking

\* `booking_for`: a booking counts only once the code is ratified.
BookingFor(reg, c) ==
    IF reg[c].status \in MayDirectPosting THEN reg[c].booking ELSE None
-----------------------------------------------------------------------------
(* What rules do to a batch.  rs is the sequence of them, or those of it that act. *)

Fires(r, b) == Rule[r].fires[b]
OfKind(rs, k) == {i \in DOMAIN rs : Rule[rs[i]].kind = k}

GroupRows(b, g) == {x \in World[b].rows : World[b].group[x] = g}

\* `Applied.scope`: the rows suppressed.  Only group rows are offered to a rule.
Suppressed(rs, b) ==
    UNION {Fires(rs[i], b) \cap World[b].rows : i \in OfKind(rs, "suppress")}

Touching(rs, b, g) ==
    {i \in OfKind(rs, "suppress") : Fires(rs[i], b) \cap GroupRows(b, g) # {}}

\* `ruled_groups`: the rule that reshaped a group, the last one that touched it.
Ruler(rs, b, g) ==
    IF Touching(rs, b, g) = {} THEN None ELSE rs[Max(Touching(rs, b, g))]

\* `tolerance_for`: the widest asked for replaces the profile's own.
ToleranceUnder(rs) ==
    LET asked == {Rule[rs[i]].amount : i \in OfKind(rs, "set_tolerance")}
    IN  IF asked = {} THEN Tolerance ELSE Max(asked)

\* Does r fire on x when x's key reads k?  On a record as it was read, or rewritten.
FiresOn(r, b, x, k) ==
    IF k = World[b].key[x] THEN x \in Fires(r, b) ELSE <<x, k>> \in Rule[r].again[b]

\* `normalize`: each rewrite in turn, tried on what the ones before it have made.
Rewrite(r, b, x, k) ==
    IF Rule[r].kind = "normalize_key" /\ FiresOn(r, b, x, k) THEN Rule[r].target ELSE k
KeyUnder(rs, b, x) ==
    FoldLeft(LAMBDA k, r : Rewrite(r, b, x, k), World[b].key[x], rs)

Kept(rs, b, g) == GroupRows(b, g) \ Suppressed(rs, b)
Total(b, S) == MapThenSumSet(LAMBDA x : World[b].amount[x], S)
Magnitude(d) == IF d < 0 THEN -d ELSE d
Residual(b, a, kept) == Magnitude(World[b].amount[a] - Total(b, kept))

\* The anchors a tier run matches.
Pairs(rs, b, a, kept, tolerance) ==
    /\ kept # {}
    /\ \A x \in kept : KeyUnder(rs, b, x) = World[b].key[a]
    /\ Residual(b, a, kept) \in 0..tolerance
Matched(rs, b) ==
    {a \in World[b].anchors :
        Pairs(rs, b, a, Kept(rs, b, World[b].backs[a]), ToleranceUnder(rs))}

\* `_rule_dependency`: rows gone from the group are exactly those that the one
\* rule the proof cites removes.
RuleAccounts(rs, b, g) ==
    GroupRows(b, g) \ Kept(rs, b, g) =
        UNION {Fires(r, b) \cap GroupRows(b, g) : r \in {Ruler(rs, b, g)} \ {None}}

\* `verify` under policy v, with the bundle that matched.
Proven(rs, b, v, matched) ==
    {a \in matched :
        /\ Residual(b, a, Kept(rs, b, World[b].backs[a])) \in 0..Ceiling[v]
        /\ RuleAccounts(rs, b, World[b].backs[a])}
Verified(rs, b, v) == Proven(rs, b, v, Matched(rs, b))

\* What a run raises: an anchor it left unmatched, a group that nothing claimed.
Raised(rs, b, matched) ==
    (World[b].anchors \ matched)
      \cup {g \in World[b].groups \ {World[b].backs[a] : a \in matched} :
               Kept(rs, b, g) # {}}

Drafted(rs, b, matched) ==
    [e \in Raised(rs, b, matched) |->
       [code |-> World[b].code[e],
        by |-> IF e \in World[b].proven THEN "proof" ELSE "default"]]

Advisers(rs, b, e) ==
    {rs[i] : i \in {j \in OfKind(rs, "raise_advisory") :
                      World[b].names[e] \cap Fires(rs[j], b) \cap World[b].rows # {}}}

Said(advisers, exception) ==
    IF advisers = {} THEN exception
    ELSE [code |-> Rule[Min(advisers)].target, by |-> "rule"]

\* `_advise`: a code the engine proved stands; of two advisories the lower id wins.
Advise(rs, b, raised) ==
    [e \in DOMAIN raised |->
       IF raised[e].by = "proof" THEN raised[e] ELSE Said(Advisers(rs, b, e), raised[e])]

Exceptions(rs, b, matched) == Advise(rs, b, Drafted(rs, b, matched))

\* `booking_overrides`: the last rule that fires on a record the exception names.
Override(rs, b, e) ==
    LET firing == {i \in OfKind(rs, "book_to") :
                     /\ Rule[rs[i]].target \in Roles
                     /\ World[b].names[e] \cap Fires(rs[i], b) # {}}
    IN  IF firing = {} THEN None ELSE Rule[rs[Max(firing)]].target

\* `entries_for`: only an exception on an anchor whose cash is not posted yet is.
Posted(b, raised, verified) ==
    {e \in raised :
        LET on == World[b].names[e] \cap World[b].anchors
        IN  on # {} /\ on \cap verified = {}}

First(x, y, z) == IF x # None THEN x ELSE IF y # None THEN y ELSE z
Destination(offered, b, e, code, reg) ==
    First(Override(offered, b, e), BookingFor(reg, code), "suspense")

\* Mutant: only an anchor that no rule run matches at all counts as broken.
BrokenNowhere(rs, b, v) == Verified(<<>>, b, v) \ Matched(rs, b)

\* `broken_by_rules`: proved without the bundle, not proved with it.
Broken(rs, b, v) == Verified(<<>>, b, v) \ Verified(rs, b, v)
-----------------------------------------------------------------------------
(* Measuring a rule against history, and judging what was measured.  The      *)
(* history is a close that ran without rules under policy v.                  *)

\* `regress`: the tiers run again with the rule and the two results are compared.
\* The run has advised by then, and `regress` advises what it raised once more.
Recoded(rs, raised) ==
    {e \in DOMAIN raised : Advise(rs, "history", raised)[e].code # raised[e].code}
Compared(rs, v, before, after) ==
    [broken |-> before \ after,
     added |-> after \ before,
     unverifiable |-> after \ (before \cup Proven(rs, "history", v, after)),
     advised |-> Recoded(rs, Exceptions(rs, "history", after)),
     suppressed |-> Total("history", Suppressed(rs, "history"))]
Measured(r, v) == Compared(<<r>>, v, Verified(<<>>, "history", v), Matched(<<r>>, "history"))

\* What a measurement of each rule says under each policy; the history is fixed.
Evidence == [r \in RuleIds |-> [v \in Policies |-> Measured(r, v)]]

HoldsUp(m) == m.broken = {} /\ m.unverifiable = {}

\* Mutant: the tolerance a rule asks for is not held against the ceiling.
AllowedAnyTolerance(r, m, v, reg) ==
    /\ HoldsUp(m)
    /\ Cardinality(m.added) <= MaxAdded
    /\ m.suppressed = 0

\* `evaluate`: every objection is a conjunct.  Breadth is measured on rows the
\* rule has never seen, and a rule that fires on none of them is a correction.
Allowed(r, m, v, reg) ==
    /\ Rule[r].kind = "set_tolerance" => Rule[r].amount <= Ceiling[v]
    /\ HoldsUp(m)
    /\ Cardinality(m.added) <= MaxAdded
    /\ Rule[r].kind = "book_to" => Rule[r].target \in Roles
    /\ Rule[r].kind = "raise_advisory" =>
         /\ m.advised # {}
         /\ Rule[r].target \in Codes
         /\ reg[Rule[r].target].status \in MayFireRule
    /\ m.suppressed = 0
    /\ Rule[r].induced > 0
    /\ Rule[r].reference \in 1..Breadth

RuleRecords ==
    [status : {"draft", "promoted"}, revoked : BOOLEAN,
     evidence : Policies \cup {None}, under : Policies \cup {None}]

\* Mutant: an approval is never held against the policy in force.
AdmissibleAnyPolicy(r, rec, v) == rec.status = "promoted" /\ ~rec.revoked

\* `admissible`: approved, not revoked, and under the policy of this close.
Admissible(r, rec, v) ==
    /\ rec.status = "promoted" /\ ~rec.revoked
    /\ rec.under = v

-----------------------------------------------------------------------------
(* The store of promoted rules and the other authority a close reads. *)

NoClose == [stage |-> "none"]

Fresh == [status |-> "draft", revoked |-> FALSE, evidence |-> None, under |-> None]
ApprovedAtStart == [status |-> "promoted", revoked |-> FALSE, evidence |-> 1, under |-> 1]

Init ==
    /\ codes = [c \in Codes |->
                  IF c \in DOMAIN Seeded
                  THEN [status |-> "promoted", booking |-> Seeded[c]]
                  ELSE [status |-> "absent", booking |-> None]]
    /\ policy = 1
    /\ store \in Deployments /\ saving = None
    /\ rules = [r \in RuleIds |-> IF Contains(store, r) THEN ApprovedAtStart ELSE Fresh]
    /\ spec \in Specs
    /\ close = NoClose
    /\ changes = 0

\* Somebody changes what governs the closes to come; the last one is history.
Change ==
    /\ changes < MaxChanges
    /\ changes' = changes + 1
    /\ close' = IF close.stage = "closed" THEN NoClose ELSE close

Become(c, status, booking) ==
    /\ Change
    /\ codes' = [codes EXCEPT ![c] = [status |-> status, booking |-> booking]]
    /\ UNCHANGED <<policy, rules, store, saving, spec>>

\* `propose`: whatever status it claims, a new code has none but this.
ProposeCode(c, claim) ==
    /\ codes[c].status = "absent"
    /\ Become(c, "proposed", claim)

AcceptCode(c) ==
    /\ codes[c].status = "proposed"
    /\ Become(c, "provisional", codes[c].booking)

\* `promote` of a code: only from provisional, under a name and a definition.
PromoteCode(c, claim) ==
    /\ codes[c].status = "provisional"
    /\ Become(c, "promoted", IF claim = None THEN codes[c].booking ELSE claim)

\* `retire`: from any status; rules that name the code are not looked at.
RetireCode(c) ==
    /\ codes[c].status \notin {"absent", "retired"}
    /\ Become(c, "retired", codes[c].booking)

ApprovePolicy ==
    /\ policy + 1 \in Policies
    /\ Change
    /\ policy' = policy + 1
    /\ UNCHANGED <<codes, rules, store, saving, spec>>

ReplaceSpec(s) ==
    /\ s # spec
    /\ Change
    /\ spec' = s
    /\ UNCHANGED <<codes, policy, rules, store, saving>>
-----------------------------------------------------------------------------
Rerecord(r, rec) ==
    /\ Change
    /\ rules' = [rules EXCEPT ![r] = rec]
    /\ UNCHANGED <<codes, policy, store, saving, spec>>

\* `regress`, some time before anybody decides on the rule.
MeasureRule(r) ==
    /\ rules[r].status = "draft" /\ rules[r].evidence # policy
    /\ Rerecord(r, [rules[r] EXCEPT !.evidence = policy])

\* `promote`: the outcome handed in is judged against the policy handed in.
PromoteRule(r) ==
    /\ rules[r].status = "draft" /\ rules[r].evidence # None
    /\ Allowed(r, Evidence[r][rules[r].evidence], policy, codes)
    /\ Rerecord(r, [rules[r] EXCEPT !.status = "promoted", !.under = policy])

\* An approval is withdrawn; the rule stays in the store.
RevokeRule(r) ==
    /\ rules[r].status = "promoted" /\ ~rules[r].revoked
    /\ Rerecord(r, [rules[r] EXCEPT !.revoked = TRUE])

\* `save` overwrites the file: first it is empty, then it is written.  Whoever
\* dies in between leaves it cut off.
BeginSave(r) ==
    /\ saving = None
    /\ rules[r].status = "promoted" /\ ~Contains(store, r)
    /\ Change
    /\ saving' = r
    /\ UNCHANGED <<codes, policy, rules, store, spec>>

EndSave ==
    /\ saving # None
    /\ store' = Append(store, saving)
    /\ saving' = None
    /\ UNCHANGED <<codes, policy, rules, spec, close, changes>>
-----------------------------------------------------------------------------
(* A close. *)

Idle == close.stage \in {"none", "closed"}

Identified(offered) ==
    [stage |-> "identified", batch |-> spec, offered |-> offered,
     approvals |-> [r \in Range(offered) |-> rules[r]]]

\* Mutant: a store file that does not parse is a store without rules.
ReadWhateverIsThere ==
    /\ Idle
    /\ close' = Identified(IF saving = None THEN store ELSE <<>>)
    /\ UNCHANGED governed

\* loop.run: the sources are read as the specs say, and the rules are loaded with
\* their approvals.  A file cut off by `save` is no JSON: there is no close.
BeginClose ==
    /\ Idle
    /\ saving = None
    /\ close' = Identified(store)
    /\ UNCHANGED governed

\* The rules that act, at the places they have in the store.
Acting(q) ==
    Restrict(q.offered, {i \in DOMAIN q.offered :
        Admissible(q.offered[i], q.approvals[q.offered[i]], q.policy)})

\* `run_close`: the bookings are redirected by all the rules it was handed.
Settled(q, rs, matched, verified, raised, broken) ==
    [matched |-> verified, refused |-> matched \ verified, code |-> raised,
     booked |-> [e \in Posted(q.batch, DOMAIN raised, verified) |->
                   Destination(q.offered, q.batch, e, raised[e].code, q.codes)],
     tolerance |-> ToleranceUnder(rs), broken |-> broken, ok |-> broken = {}]
Verify(q, rs, matched) ==
    Settled(q, rs, matched, Proven(rs, q.batch, q.policy, matched),
            Exceptions(rs, q.batch, matched),
            IF q.offered = <<>> THEN {} ELSE Broken(rs, q.batch, q.policy))
Match(q, rs) == Verify(q, rs, Matched(rs, q.batch))
Decided(q) == Match(q, Acting(q))

\* `worklist.build`, whose ranks are wording here, looks up every raised code.
Resolvable(did) == \A e \in DOMAIN did.code : codes[did.code[e].code].status # "absent"

\* The policy and the taxonomy are read, some time after the rules, and the close
\* acts on them.  A code that the registry does not know stops it before its record.
RunClose ==
    /\ close.stage = "identified"
    /\ LET q == [stage |-> "closed", batch |-> close.batch, offered |-> close.offered,
                  approvals |-> close.approvals, policy |-> policy, codes |-> codes,
                  did |-> None]
       IN  \E did \in {Decided(q)} :
             /\ Resolvable(did)
             /\ close' = [q EXCEPT !.did = did]
    /\ UNCHANGED governed

\* The process dies, or the close ends in an error, before it has decided.
AbandonClose ==
    /\ close.stage = "identified"
    /\ close' = NoClose
    /\ UNCHANGED governed

Next ==
    \/ \E c \in Codes :
         \/ \E claim \in Roles \cup {None} : ProposeCode(c, claim) \/ PromoteCode(c, claim)
         \/ AcceptCode(c) \/ RetireCode(c)
    \/ ApprovePolicy
    \/ \E s \in Specs : ReplaceSpec(s)
    \/ \E r \in RuleIds : MeasureRule(r) \/ PromoteRule(r) \/ RevokeRule(r) \/ BeginSave(r)
    \/ EndSave
    \/ BeginClose \/ RunClose \/ AbandonClose

Spec == Init /\ [][Next]_vars
-----------------------------------------------------------------------------
(* Properties. *)

Done == close.stage = "closed"

\* Type correctness, and what the close holds of the files it has read.
TypeOK ==
    /\ codes \in [Codes -> Definitions]
    /\ policy \in Policies
    /\ rules \in [RuleIds -> RuleRecords]
    /\ store \in Seq(RuleIds) /\ saving \in RuleIds \cup {None}
    /\ spec \in Specs
    /\ changes \in 0..MaxChanges
    /\ close.stage \in {"none", "identified", "closed"}
    /\ close.stage # "none" =>
         /\ close.batch \in Specs /\ close.offered \in Seq(RuleIds)
         /\ close.approvals \in [Range(close.offered) -> RuleRecords]
    /\ close.stage = "closed" =>
         close.policy \in Policies /\ close.codes \in [Codes -> Definitions]

\* No close matches with more tolerance than the policy it ran under allows, over
\* any sequence of approvals, policies and saves (policy.permits_tolerance,
\* promotion.admissible, rulestore.tolerance_for).
ToleranceWithinCeiling == Done => close.did.tolerance <= Ceiling[close.policy]

\* Money goes anywhere but suspense only on the word of a ratified code of the
\* registry the close loaded, or of a rule it was handed (booking_for,
\* booking_overrides): no claim of a proposed or retired code is booked on.
UnratifiedNeverBooks ==
    Done => \A e \in DOMAIN close.did.booked :
        \/ close.did.booked[e] = "suspense"
        \/ \E i \in DOMAIN close.offered : Rule[close.offered[i]].kind = "book_to"
        \/ close.codes[close.did.code[e].code].status = "promoted"

\* A close that reports ok has lost no match to its rules, neither to their effect
\* nor to a proof that the rules spoilt (close.run_close, broken_by_rules).
LostMatchBlocks ==
    Done /\ close.did.ok /\ close.offered # <<>> =>
        Verified(<<>>, close.batch, close.policy) \subseteq close.did.matched

\* Evidence outlives the policy it was taken under: a rule approved on an earlier
\* measurement breaks nothing of the history, and adds nothing the verifier would
\* refuse, under the policy that it is approved for (promotion.promote, evaluate).
ApprovedEvidenceHolds ==
    \A r \in RuleIds :
        rules[r].status = "promoted" /\ rules[r].evidence # rules[r].under =>
            HoldsUp(Evidence[r][rules[r].under])

\* A rule that is in the store when a close begins is handed to that close, also
\* when the store is being rewritten at the time (rulestore.save, rulestore.load).
RulesAreNotForgotten ==
    [][\A r \in RuleIds : Contains(store, r) /\ Idle /\ close'.stage = "identified"
          => Contains(close'.offered, r)]_vars
=============================================================================
