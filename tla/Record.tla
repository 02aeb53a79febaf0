------------------------------- MODULE Record -------------------------------
(***************************************************************************)
(* The record of one close and the people who work from it.                *)
(*                                                                         *)
(* run_close hands what it decided to `entries_for`, which writes journal  *)
(* entries, and to `derive`, which turns the decisions into the events of  *)
(* the decision log.  Everything a person sees afterwards, the view, the   *)
(* queue of exceptions, what blocks a signature and the exported journal,  *)
(* is rebuilt from those events by `replay`, while acknowledgements,       *)
(* dispositions and the signature go to a second log.  The writer may die  *)
(* between two events, and the period may be closed again under the same   *)
(* run id at any time.                                                     *)
(*                                                                         *)
(* How the matches came about is in Matching and Governance, how the two   *)
(* files behave under concurrent use in DecisionLog and Review: here a     *)
(* close starts from what match_and_verify hands over and has the log to   *)
(* itself while it writes.                                                 *)
(***************************************************************************)
EXTENDS Integers, FiniteSets, SequencesExt, FiniteSetsExt, Functions

CONSTANTS
    Anchors,      \* bank lines
    Others,       \* rows of the other side
    External,     \* the source's own id of each record, not always its alone
    Amount,       \* anchor -> its amount, positive inside a loop's scope
    Decisions,    \* what match_and_verify and the ledger may hand to a close
    Endings,      \* what a person may do with an exception
    Bookable,     \* exceptions whose code is promoted and names an account
    Ceiling,      \* policy: write-off ceiling per item
    BudgetRatio,  \* policy: percent of the tail one close may write off
    Key,          \* the key that bundles are verified with, given from outside
    MaxReview,    \* bound: entries of the review log before a signature
    None

VARIABLES
    log,          \* the decision log of the run id
    todo,         \* what the running close has yet to write
    close,        \* what the last close of this run id decided
    acknowledged, \* review log: exceptions a person has taken
    disposed,     \* review log: exception -> how a person ended it
    signature     \* review log: the close somebody accepted

recordVars == <<log, todo, close, acknowledged, disposed, signature>>

Records == Anchors \cup Others

\* One match: the anchor, the group it is matched with.
MatchedAnchors(ms) == {ms[i].anchor : i \in DOMAIN ms}
InMatches(ms) == UNION {{ms[i].anchor} \cup ms[i].group : i \in DOMAIN ms}
Explained(xs) ==
    UNION {Range(xs[i].on) \cup UNION xs[i].alternatives : i \in DOMAIN xs}

\* Where an exception names bank lines, and the first that it names.
AnchorsAt(x) == {i \in DOMAIN x.on : x.on[i] \in Anchors}
AnchorOf(x) == x.on[Min(AnchorsAt(x))]

\* The items of s at the places in I, in their order.
Nth(I, n) == CHOOSE i \in I : Cardinality({k \in I : k <= i}) = n
ItemsAt(s, I) == [n \in 1..Cardinality(I) |-> s[Nth(I, n)]]

\* The lists of a close are lists, and its records are on the side they are on.
Listed(s) == s \in Seq(Range(s))
ASSUME DecisionsAreTyped ==
    /\ Anchors \cap Others = {} /\ Amount \in [Anchors -> Int]
    /\ \A d \in Decisions :
        /\ Listed(d.sources) /\ Listed(d.scope) /\ Listed(d.kept) /\ Listed(d.refused)
        /\ Listed(d.raised) /\ Listed(d.bundles) /\ Listed(d.inadmissible) /\ Listed(d.applied)
        /\ \A i \in DOMAIN d.kept : d.kept[i].anchor \in Anchors /\ d.kept[i].group \subseteq Others
        /\ \A i \in DOMAIN d.refused : d.refused[i].group \subseteq Others
        /\ \A i \in DOMAIN d.raised : Listed(d.raised[i].on)
        /\ InMatches(d.kept) \cup Explained(d.raised) \subseteq d.read

\* What the tiers guarantee of a close (Matching): exceptions are numbered, and not
\* as proofs are; each names at most one anchor, no two name the same one, and an
\* excluded record is neither matched nor excepted.
ASSUME DecisionsKeepFatesApart ==
    \A d \in Decisions :
        /\ \A i, k \in DOMAIN d.raised : d.raised[i].id = d.raised[k].id => i = k
        /\ \A i \in DOMAIN d.raised : \A k \in DOMAIN d.kept : d.raised[i].id # d.kept[k].id
        /\ \A i \in DOMAIN d.raised : \A m, n \in AnchorsAt(d.raised[i]) : m = n
        /\ \A i, k \in DOMAIN d.raised :
             /\ AnchorsAt(d.raised[i]) # {} /\ AnchorsAt(d.raised[k]) # {}
             /\ AnchorOf(d.raised[i]) = AnchorOf(d.raised[k])
             => i = k
        /\ \A i, k \in DOMAIN d.kept : d.kept[i].anchor = d.kept[k].anchor => i = k
        /\ \A i \in DOMAIN d.raised : Anchors \cap UNION d.raised[i].alternatives = {}
        /\ \A i \in DOMAIN d.scope : d.scope[i] \notin InMatches(d.kept) \cup Explained(d.raised)
-----------------------------------------------------------------------------
(* The completeness audit.                                                 *)

\* `audit`: the tiers' matches count before the checker has seen them.
Disposition(d, r) ==
    IF r \in InMatches(d.kept) \cup InMatches(d.refused) THEN "matched"
    ELSE IF r \in Explained(d.raised) THEN "excepted"
    ELSE IF r \in Range(d.scope) THEN "out_of_scope"
    ELSE "undisposed"

FailedSources(d) == {i \in DOMAIN d.sources : d.sources[i].strength = "failed"}

Complete(d) ==
    /\ \A r \in d.read : Disposition(d, r) # "undisposed"
    /\ FailedSources(d) = {}
-----------------------------------------------------------------------------
(* Postings.                                                               *)

\* Mutant: a matched anchor's shortfall is posted too.
PostableAlways(d, x) == AnchorsAt(x) # {}

\* An exception without a bank line, or about an anchor whose cash is already
\* posted, is declined.
Postable(d, x) ==
    /\ AnchorsAt(x) # {}
    /\ AnchorOf(x) \notin MatchedAnchors(d.kept)

MatchEntry(m) ==
    [about |-> m.anchor, debit |-> "bank", credit |-> "clearing",
     value |-> Amount[m.anchor], origin |-> m.id]

\* Booked where a rule or a promoted code directs it, else held in suspense.
ExceptionEntry(d, x) ==
    [about |-> AnchorOf(x), debit |-> "bank",
     credit |-> IF d.directed[x.id] = None THEN "suspense" ELSE d.directed[x.id],
     value |-> Amount[AnchorOf(x)], origin |-> x.id]

EntriesFor(d) ==
    [i \in DOMAIN d.kept |-> MatchEntry(d.kept[i])]
      \o LET xs == ItemsAt(d.raised, {i \in DOMAIN d.raised : Postable(d, d.raised[i])})
         IN  [i \in DOMAIN xs |-> ExceptionEntry(d, xs[i])]
-----------------------------------------------------------------------------
(* The events, by kind; `names` is the payload's record_ids().             *)

CloseStarted(d) ==
    [kind |-> "CloseStarted", names |-> {},
     anchors |-> Cardinality((d.read \cap Anchors) \ Range(d.scope)),
     others |-> Cardinality(d.read \cap Others)]
Ingested(s) ==
    [kind |-> IF s.strength = "verified" THEN "SourceIngested" ELSE "IntakeUnverified",
     names |-> {}, source |-> s.source, strength |-> s.strength]
OutOfScope(r) == [kind |-> "OutOfScope", names |-> {r}]
MatchProven(m) ==
    [kind |-> "MatchProven", names |-> {m.anchor} \cup m.group, anchor |-> m.anchor]
MatchRejected(m) == [kind |-> "MatchRejected", names |-> {m.anchor} \cup m.group]
ExceptionRaised(x) ==
    [kind |-> "ExceptionRaised", names |-> Range(x.on) \cup UNION x.alternatives,
     id |-> x.id, value |-> x.value, blocks |-> x.blocks]
PostingWritten(e) == [kind |-> "PostingWritten", names |-> {}, entry |-> e]
CloseBlocked(reasons, blocking) ==
    [kind |-> "CloseBlocked", names |-> {}, reasons |-> reasons, blocking |-> blocking]

\* `trust.verify`: the manifest lists the files that are there, byte for byte, no more
\* and no fewer, and its signature is that of the holder of the key.
Trusted(b) ==
    /\ b.manifest # None /\ Key # None
    /\ b.manifest.files = b.files
    /\ b.manifest.key = Key
AuthorityVerified(b) ==
    [kind |-> "AuthorityVerified", names |-> {}, bundle |-> b.bundle, trusted |-> Trusted(b)]
ProposalRefused(r) == [kind |-> "ProposalRefused", names |-> {}, rule |-> r]
RuleApplied(r) == [kind |-> "RuleApplied", names |-> {}, rule |-> r]

\* The line that says how many exceptions block a signature.
SignoffLine(blocking) == <<"exceptions block sign-off", Cardinality(blocking)>>
SignoffLines(blocking) == IF blocking = {} THEN {} ELSE {SignoffLine(blocking)}

Blocking(xs) == {xs[i].id : i \in {k \in DOMAIN xs : xs[k].blocks}}

\* Mutant: a match lost to a rule turns the close red and reaches the log nowhere.
ReasonsWithoutLost(d) == {<<"ledger", e>> : e \in d.errors}

BlockedReasons(d) ==
    {<<"ledger", e>> : e \in d.errors} \cup {<<"rule_broke_match", a>> : a \in d.lost}

Blocked(d) ==
    LET reasons == BlockedReasons(d) \cup SignoffLines(Blocking(d.raised))
    IN  IF reasons = {} THEN <<>> ELSE <<CloseBlocked(reasons, Blocking(d.raised))>>

Derived(d) ==
    <<CloseStarted(d)>>
      \o [i \in DOMAIN d.sources |-> Ingested(d.sources[i])]
      \o [i \in DOMAIN d.scope |-> OutOfScope(d.scope[i])]
      \o [i \in DOMAIN d.kept |-> MatchProven(d.kept[i])]
      \o [i \in DOMAIN d.refused |-> MatchRejected(d.refused[i])]
      \o [i \in DOMAIN d.raised |-> ExceptionRaised(d.raised[i])]
      \o [i \in DOMAIN EntriesFor(d) |-> PostingWritten(EntriesFor(d)[i])]
      \o Blocked(d)

\* `unlogged`: what the audit disposed of and no event names.
Unlogged(d, events) ==
    {r \in d.read : Disposition(d, r) # "undisposed"}
      \ UNION {events[i].names : i \in DOMAIN events}

CloseCompleted(d) ==
    [kind |-> "CloseCompleted", names |-> {},
     matches |-> Len(d.kept), rejected |-> Len(d.refused), exceptions |-> Len(d.raised),
     postings |-> Len(EntriesFor(d)), out_of_scope |-> Len(d.scope),
     complete |-> Complete(d)]

\* Everything run_close appends, in order.
EventsOf(d) ==
    Derived(d)
      \o [i \in DOMAIN d.bundles |-> AuthorityVerified(d.bundles[i])]
      \o [i \in DOMAIN d.inadmissible |-> ProposalRefused(d.inadmissible[i])]
      \o [i \in DOMAIN d.applied |-> RuleApplied(d.applied[i])]
      \o <<CloseCompleted(d)>>

\* The verdict that run_close returns to its caller.
Ok(d) == Complete(d) /\ d.errors = {} /\ d.lost = {}
-----------------------------------------------------------------------------
(* replay and the view.                                                    *)

OfKind(s, k) == {i \in DOMAIN s : s[i].kind = k}
Readable(s) == OfKind(s, "CloseStarted") # {}
Terminated(s) == OfKind(s, "CloseCompleted") # {}

\* `pairs` is keyed by the anchor's external id, so two anchors that share one
\* are one entry.
Pairs(s) == {External[s[i].anchor] : i \in OfKind(s, "MatchProven")}

Terminator(s) == s[CHOOSE i \in OfKind(s, "CloseCompleted") : TRUE]

\* The terminator's counts against what the stream holds.
Disagrees(s) ==
    \/ ~Terminated(s)
    \/ Terminator(s).matches # Cardinality(Pairs(s))
    \/ Terminator(s).rejected # Cardinality(OfKind(s, "MatchRejected"))
    \/ Terminator(s).exceptions # Cardinality(OfKind(s, "ExceptionRaised"))
    \/ Terminator(s).postings # Cardinality(OfKind(s, "PostingWritten"))
    \/ Terminator(s).out_of_scope # Cardinality(OfKind(s, "OutOfScope"))

BlockingIn(s) == UNION {s[i].blocking : i \in OfKind(s, "CloseBlocked")}

\* Mutant: the queue's line takes the place of the other reasons.
HardBlockersOrQueue(s) ==
    IF BlockingIn(s) # {} THEN {}
    ELSE UNION {s[i].reasons : i \in OfKind(s, "CloseBlocked")}

\* `_hard_blockers`: what stands against the close besides its queue.
HardBlockers(s) ==
    (UNION {s[i].reasons : i \in OfKind(s, "CloseBlocked")}) \ SignoffLines(BlockingIn(s))

CompleteIn(s) == \E i \in OfKind(s, "CloseCompleted") : s[i].complete

RaisedIn(s) ==
    {[id |-> s[i].id, value |-> s[i].value, blocks |-> s[i].blocks] :
        i \in OfKind(s, "ExceptionRaised")}

\* `disagreements` and verify_chain report to `chain_problems`; nobody edits the
\* file here.
View(s) ==
    [complete |-> CompleteIn(s),
     blocked |-> HardBlockers(s),
     blocking |-> BlockingIn(s),
     exceptions |-> RaisedIn(s),
     postings |-> {s[i].entry : i \in OfKind(s, "PostingWritten")},
     ok |-> CompleteIn(s) /\ HardBlockers(s) = {} /\ ~Disagrees(s)]
-----------------------------------------------------------------------------
RecordInit ==
    /\ log = <<>> /\ todo = <<>> /\ close = None
    /\ acknowledged = {} /\ signature = None
    /\ disposed = <<>>

\* A close takes the log over: the file is removed, then the events are derived.
\* The run id pins the sources, the policy, the vocabulary and the rules, not the
\* chart, the adapter specs or the program, so a later close of the same id need
\* not decide the same.  A derivation that leaves an input unnamed is an error,
\* raised when the old record is gone.
RunClose(d) ==
    /\ todo = <<>>
    /\ close' = d
    /\ log' = <<>>
    /\ todo' = IF Unlogged(d, Derived(d)) = {} THEN EventsOf(d) ELSE <<>>
    /\ UNCHANGED <<acknowledged, disposed, signature>>

WriteNext ==
    /\ todo # <<>>
    /\ log' = Append(log, Head(todo))
    /\ todo' = Tail(todo)
    /\ UNCHANGED <<close, acknowledged, disposed, signature>>

\* The process dies between two events; what it wrote stays.
WriterDies ==
    /\ todo # <<>>
    /\ todo' = <<>>
    /\ UNCHANGED <<log, close, acknowledged, disposed, signature>>

\* The logs can be worked on: nobody is writing the first, the second is unsigned.
\* A log without its header belongs to no loop and is not served.
Open ==
    /\ todo = <<>>
    /\ Readable(log)
    /\ signature = None

\* The bound: the code limits neither.
More == Cardinality(acknowledged) + Len(disposed) < MaxReview

Acknowledge(x) ==
    /\ Open /\ More
    /\ x \in RaisedIn(log)
    /\ acknowledged' = acknowledged \cup {x.id}
    /\ UNCHANGED <<log, todo, close, disposed, signature>>

Value(xs) == MapThenSumSet(LAMBDA x : x.value, xs)
Budget(xs) == (Value(xs) * BudgetRatio) \div 100
WrittenOff ==
    MapThenSumSet(LAMBDA i : disposed[i].value,
                  {i \in DOMAIN disposed : disposed[i].ending = "write_off"})

\* A disposition draws on the clearing account, whatever account the close had
\* put the exception's money in: no caller passes `source`.
Destination(x, ending) == IF ending = "book" THEN "fees" ELSE ending

WithinLimits(x) ==
    x.value <= Ceiling /\ x.value <= Budget(RaisedIn(log)) - WrittenOff

DisposedOf == {disposed[i].id : i \in DOMAIN disposed}

\* `decide`, for an item nobody has ended yet.
MayDispose(x, ending) ==
    /\ x.id \notin DisposedOf
    /\ x.value > 0
    /\ ending = "book" => x.id \in Bookable
    /\ ending = "write_off" => WithinLimits(x)

Dispose(x, ending) ==
    /\ Open /\ More
    /\ x \in RaisedIn(log)
    /\ MayDispose(x, ending)
    /\ disposed' = Append(disposed, [id |-> x.id, ending |-> ending, value |-> x.value,
                                     debit |-> Destination(x, ending), credit |-> "clearing"])
    /\ UNCHANGED <<log, todo, close, acknowledged, signature>>

Taken == acknowledged \cup DisposedOf

\* `blockers`: what has to be taken before anyone may sign.
BlockersLeft == {x.id : x \in {y \in RaisedIn(log) : y.blocks}} \ Taken

\* Mutant: the queue blocks nothing.
SignOffUnseen ==
    /\ Open
    /\ View(log).blocked = {}
    /\ signature' = [of |-> close, whole |-> Terminated(log)]
    /\ UNCHANGED <<log, todo, close, acknowledged, disposed>>

\* Refused while the books do not balance or an item that blocks has not been
\* taken, as the record tells it; whether the record is whole is not asked.
SignOff ==
    /\ Open
    /\ View(log).blocked = {}
    /\ BlockersLeft = {}
    /\ signature' = [of |-> close, whole |-> Terminated(log)]
    /\ UNCHANGED <<log, todo, close, acknowledged, disposed>>

RecordNext ==
    \/ \E d \in Decisions : RunClose(d)
    \/ WriteNext
    \/ WriterDies
    \/ \E x \in RaisedIn(log) : Acknowledge(x) \/ \E e \in Endings : Dispose(x, e)
    \/ SignOff

RecordSpec == RecordInit /\ [][RecordNext]_recordVars
-----------------------------------------------------------------------------
(* Properties.                                                             *)

DistinctReferences(d) ==
    \A i, k \in DOMAIN d.kept :
        External[d.kept[i].anchor] = External[d.kept[k].anchor] => i = k

\* What a reader of the whole record sees is what the close decided, and the
\* view's verdict is the one run_close returned in memory: no exception, blocker
\* or posting is dropped or added on the way through `derive`, `replay` and
\* `_view_of`.  Where two matched anchors share the source's reference the
\* verdict may be red, and only the verdict.
RecordSaysWhatWasDecided ==
    Terminated(log) =>
        /\ View(log).complete = Complete(close)
        /\ View(log).blocked = BlockedReasons(close)
        /\ View(log).blocking = Blocking(close.raised)
        /\ View(log).postings = Range(EntriesFor(close))
        /\ Cardinality(View(log).exceptions) = Len(close.raised)
        /\ DistinctReferences(close) => View(log).ok = Ok(close)

\* However little of a log a dead writer left behind, the view calls it a good
\* close only when the close it belongs to was one (`_view_of`).
ViewNeverFlatters == View(log).ok => Ok(close) /\ Terminated(log)

Postings(a) == {i \in OfKind(log, "PostingWritten") : log[i].entry.about = a}

\* No bank line is posted twice, matched, short or unexplained; and in a complete
\* record every line in scope is posted, except one whose match the checker refused
\* (`entries_for`, `audit`).
CashIsPostedOnce ==
    /\ \A a \in Anchors : Cardinality(Postings(a)) <= 1
    /\ CompleteIn(log) =>
         \A a \in close.read \cap Anchors :
            Postings(a) = {}
              => a \in Range(close.scope) \cup MatchedAnchors(close.refused)

\* A signature over a whole record never covers books that do not balance, a match
\* lost to a rule, or a blocking exception that nobody took (`sign_off`), although
\* it sees the close through its record only.
SignatureCoversClose ==
    signature # None /\ signature.whole =>
        /\ BlockedReasons(signature.of) = {}
        /\ Blocking(signature.of.raised) \subseteq Taken

=============================================================================
