------------------------------- MODULE Triage -------------------------------
(***************************************************************************)
(* What a model may say about the exceptions of a close, and what becomes  *)
(* of it.  classify asks for a code for each of a list of exceptions, the  *)
(* edge posts and retries, check_proposal judges the reply, and a person   *)
(* attests (attest, apply_attested) or accepts: in the browser, from the   *)
(* page that shows the reading (classify_item, accept_item), or over MCP   *)
(* (accept_classification), both through review.accept_classification.     *)
(*                                                                         *)
(* The same edge is asked for a rule that would handle a resolved          *)
(* exception (induce) and for a spec that reads an unknown export           *)
(* (author_spec); either only writes down a proposal.                      *)
(*                                                                         *)
(* A reply to classify is which exception it names, its code, the codes it *)
(* says it cannot separate, whether it has a hypothesis and whose records  *)
(* it cites.  A draft of a rule or spec is the shape of its parts, and who *)
(* it says wrote it.  Any other reply is not one usable tool call          *)
(* (RefuseGarbled).                                                        *)
(***************************************************************************)
EXTENDS Naturals, Sequences, FiniteSets

CONSTANTS
    Exceptions, \* the exceptions of the close
    Derived,    \* those whose label the engine derived: not `reclassifiable`
    Label,      \* Label[e]: the code the engine gave e
    Ambiguous,  \* Ambiguous[e]: the codes it derived that the files cannot separate
    Codes,      \* codes a reply or a caller may name
    Assignable, \* the codes that resolve and may be assigned
    NoCode,     \* the empty code
    Replies,    \* the proposals the model may make
    Batch,      \* the exceptions given to classify, in order
    Resolutions, \* what people did about exceptions, each given to induce
    Exports,    \* the unknown files given to author_spec
    Drafts,     \* the rules and specs the model may write
    Model,      \* the model's name
    People,     \* those who may sign a decision
    Nobody,     \* a blank name
    Retries,    \* attempts per call (RETRIES)
    MaxRuns,    \* bound: calls of classify, induce and author_spec
    MaxAccepted \* bound: codes accepted

ASSUME TriageAssumption ==
    /\ Derived \subseteq Exceptions /\ Assignable \subseteq Codes
    /\ Label \in [Exceptions -> Codes]
    /\ Ambiguous \in [Exceptions -> SUBSET Codes]
    /\ NoCode \notin Codes /\ Nobody \notin People
    /\ \A p \in Replies :
         /\ p.code \in Codes \cup {NoCode} /\ p.separate \in Seq(Codes)
         /\ p.hypothesis \in BOOLEAN /\ p.cites \subseteq Exceptions
    /\ Resolutions \cap (Exceptions \cup Exports) = {} /\ Exports \cap Exceptions = {}
    /\ \A d \in Drafts : d.kind \in {"rule", "spec"}
    /\ Model \notin People \cup {Nobody, "human"}
    /\ Batch \in Seq(Exceptions)
    /\ \A i, j \in DOMAIN Batch : Batch[i] = Batch[j] => i = j
    /\ Retries \in Nat \ {0} /\ MaxRuns \in Nat /\ MaxAccepted \in Nat

VARIABLES
    run,        \* the call that is running: [asker, list, out, attempts]
    runs,       \* calls made, against MaxRuns
    journal,    \* the events the last batch appended: [exc, kind]
    results,    \* the classifications of the last batch: [exc, code, ok, by]
    codes,      \* the codes after apply_attested
    written,    \* the events of the last induce or author_spec: [exc, kind]
    offers,     \* the rules and specs they returned: [kind, of, author, approver]
    page,       \* the reading on a browser's item page: [exc, code, ok], or none
    accepted,   \* the review log's accepted codes: [exc, code, by]
    signed,     \* is the close signed off?
    posts,      \* posts[e]: history, requests sent for e by this call
    replies,    \* replies[e]: history, replies received for e in this call
    granted     \* history: what was attested, and whether it had been refused

edge == <<run, runs, posts, replies>>
batch == <<journal, results, codes, granted>>
review == <<accepted, signed>>
authoring == <<written, offers>>
vars == <<edge, batch, authoring, page, review>>

Subjects == Exceptions \cup Resolutions \cup Exports

Idle == [asker |-> "none", list |-> <<>>, out |-> <<>>, attempts |-> 0]
NoPage == [exc |-> "none", code |-> NoCode, ok |-> FALSE]

Init ==
    /\ run = Idle /\ runs = 0
    /\ journal = <<>> /\ results = <<>> /\ codes = Label
    /\ written = <<>> /\ offers = {}
    /\ page = NoPage
    /\ accepted = {} /\ signed = FALSE
    /\ posts = [e \in Subjects |-> 0] /\ replies = posts
    /\ granted = {}
-----------------------------------------------------------------------------
(* check_proposal. *)

\* Whether a proposal may speak about e at all.
Reclassifiable(e) == e \notin Derived

\* A reply that declines: two codes or more, all of them assignable.
Declines(p) == p.code = NoCode /\ p.separate # <<>>
DeclinesWell(p) == Len(p.separate) > 1 /\ \A i \in DOMAIN p.separate : p.separate[i] \in Assignable

\* A reply that names one code, and what a code needs beside it.
Supported(p) == p.code \in Assignable /\ p.hypothesis /\ p.names \in p.cites

\* Judged against the exceptions asked about, by the one that the reply names.
Admissible(p, asked) ==
    /\ p.names \in asked
    /\ Reclassifiable(p.names)
    /\ p.code \notin Ambiguous[p.names]
    /\ IF Declines(p) THEN DeclinesWell(p) ELSE Supported(p)
-----------------------------------------------------------------------------
(* classify, and the edge under it. *)

Asked == {run.list[i] : i \in DOMAIN run.list}
Current == run.list[Len(run.out) + 1]
More == run.asker # "none" /\ Len(run.out) < Len(run.list)
Authoring == run.asker \in {"rule", "spec"}
Event(e, kind) == [exc |-> e, kind |-> kind]
Log(event) == IF run.asker = "batch" THEN journal' = Append(journal, event) ELSE UNCHANGED journal

Start(asker, list) ==
    /\ run = Idle /\ runs < MaxRuns
    /\ runs' = runs + 1
    /\ run' = [asker |-> asker, list |-> list, out |-> <<>>, attempts |-> 0]
    /\ posts' = [e \in Subjects |-> 0] /\ replies' = posts'

StartBatch ==
    /\ Start("batch", Batch)
    /\ journal' = <<>> /\ results' = <<>>
    /\ UNCHANGED <<codes, granted, authoring, page, review>>

\* classify_item.  Its proposal will be in the URL, and nothing in any journal.
AskReading(e) ==
    /\ Start("page", <<e>>)
    /\ UNCHANGED <<batch, authoring, page, review>>

\* The answer for the exception in hand is put down and the next one taken up.
Answer(code, ok) ==
    run' = [run EXCEPT !.out = Append(@, [exc |-> Current, code |-> code, ok |-> ok, by |-> Nobody]),
                       !.attempts = 0]

\* Not offered to the model at all, and recorded as such.
Skip ==
    /\ More /\ ~Reclassifiable(Current)
    /\ Answer(Label[Current], FALSE)
    /\ Log(Event(Current, "refused"))
    /\ UNCHANGED <<runs, posts, replies, results, codes, granted, authoring, page, review>>

Post ==
    /\ More /\ Reclassifiable(Current) /\ run.attempts < Retries
    /\ posts' = [posts EXCEPT ![Current] = @ + 1]

\* A status worth trying again, while an attempt is left.
Transient ==
    /\ Post
    /\ run.attempts + 1 < Retries
    /\ run' = [run EXCEPT !.attempts = @ + 1]
    /\ UNCHANGED <<runs, replies, batch, authoring, page, review>>

\* The last attempt failed, or the first with any other status: ModelUnavailable
\* leaves classify, whose results are lost.  The journal keeps its events.
Unavailable ==
    /\ Post
    /\ run' = Idle
    /\ UNCHANGED <<runs, replies, batch, authoring, page, review>>

\* A proposal: judged, put down under the exception that was asked about, recorded.
Propose(p) ==
    LET ok == Admissible(p, Asked) IN
    /\ Post /\ ~Authoring
    /\ replies' = [replies EXCEPT ![Current] = @ + 1]
    /\ Answer(p.code, ok)
    /\ Log(Event(Current, IF ok THEN "proposed" ELSE "refused"))
    /\ UNCHANGED <<runs, results, codes, granted, authoring, page, review>>

\* Mutant: asked again until it complies.
RefuseGarbledRetrying ==
    /\ Post /\ ~Authoring
    /\ replies' = [replies EXCEPT ![Current] = @ + 1]
    /\ run' = IF run.attempts + 1 < Retries THEN [run EXCEPT !.attempts = @ + 1] ELSE Idle
    /\ UNCHANGED <<runs, batch, authoring, page, review>>

\* ProposalRefused: not a tool call, or one that does not parse.  Never retried.
RefuseGarbled ==
    /\ Post /\ ~Authoring
    /\ replies' = [replies EXCEPT ![Current] = @ + 1]
    /\ Answer(NoCode, FALSE)
    /\ Log(Event(Current, "refused"))
    /\ UNCHANGED <<runs, results, codes, granted, authoring, page, review>>

\* The list is done: a batch returns its results, a page shows its one.
Return ==
    /\ run.asker # "none" /\ ~More
    /\ run' = Idle
    /\ IF run.asker = "batch"
         THEN results' = run.out /\ UNCHANGED page
         ELSE /\ page' = [exc |-> run.out[1].exc, code |-> run.out[1].code, ok |-> run.out[1].ok]
              /\ UNCHANGED results
    /\ UNCHANGED <<runs, posts, replies, journal, codes, granted, authoring, review>>
-----------------------------------------------------------------------------
(* induce and author_spec: one call, one proposal. *)

\* What the contracts ask of each part of a draft, by its kind; a pattern is one short
\* enough.
ActionNeeds ==
    [suppress |-> {"reason"}, book_to |-> {"target"}, raise_advisory |-> {"target"},
     normalize_key |-> {"target", "value"}, set_tolerance |-> {}]
VerbNeeds ==
    [constant |-> {"value"}, date |-> {"source", "fmt"}, regex |-> {"source", "pattern"},
     sign_from_column |-> {"source", "sign_column"}, decimal |-> {"source"},
     decimal_minor |-> {"source"}, text |-> {"source"}, integer |-> {"source"},
     lower |-> {"source"}, unmappable |-> {"source"}]
Signable == {"decimal", "decimal_minor"}

Operators == {"eq", "neq", "gt", "gte", "lt", "lte", "in", "matches"}

\* A predicate's value is a list exactly where its operator is `in`.  Which field it
\* names is not asked before the rule is measured.
ValidRule(d) ==
    /\ d.when # {} /\ d.then # {}
    /\ \A p \in d.when : p.op \in Operators /\ p.list = (p.op = "in")
    /\ \A a \in d.then : a.kind \in DOMAIN ActionNeeds /\ ActionNeeds[a.kind] \subseteq a.has

\* A field map writes a canonical field with a verb; the record needs a date and an
\* amount, and no key is written twice.
ValidField(f) ==
    /\ f.verb \in DOMAIN VerbNeeds /\ VerbNeeds[f.verb] \subseteq f.has
    /\ "sign" \in f.has => f.verb \in Signable
    /\ f.to = "key" => f.name # ""
ValidSpec(d) ==
    /\ \A f \in d.fields : ValidField(f)
    /\ {"date", "amount"} \subseteq {f.to : f \in d.fields}
    /\ \A f, g \in d.fields : f.to = "key" /\ g.to = "key" /\ f.name = g.name => f = g

Valid(d) == IF d.kind = "rule" THEN ValidRule(d) ELSE ValidSpec(d)

StartAuthoring(asker, subject) ==
    /\ Start(asker, <<subject>>)
    /\ written' = <<>>
    /\ UNCHANGED <<batch, offers, page, review>>
Induce(r) == StartAuthoring("rule", r)
AuthorSpec(x) == StartAuthoring("spec", x)

\* `build_rule` and `build_spec` take authorship from nobody's word: a rule is a draft,
\* a spec is the model's, and neither is approved.
Built(d) == [kind |-> run.asker, of |-> Current, author |-> Model, approver |-> Nobody]

Conclude(kind, offered) ==
    /\ Post
    /\ replies' = [replies EXCEPT ![Current] = @ + 1]
    /\ run' = Idle
    /\ written' = Append(written, Event(Current, kind))
    /\ offers' = offers \cup offered
    /\ UNCHANGED <<runs, batch, page, review>>

\* A draft is returned, and said to be proposed, if its contract holds.
Draft(d) ==
    /\ run.asker = d.kind
    /\ IF Valid(d)
         THEN Conclude("proposed", {Built(d)})
         ELSE Conclude("refused", {})

\* `the edge refused the reply`.
RefuseDraft == Authoring /\ Conclude("refused", {})

\* AdapterSpec.needs_first_use_approval.
NeedsFirstUseApproval(o) == o.author # "human" /\ o.approver = Nobody
-----------------------------------------------------------------------------
(* A person decides. *)

\* `attest`: by name, and never what was refused.
Attest(i, who) ==
    /\ i \in DOMAIN results
    /\ who # Nobody /\ results[i].ok
    /\ results' = [results EXCEPT ![i].by = who]
    /\ granted' = granted \cup {[exc |-> results[i].exc, code |-> results[i].code]}
    /\ UNCHANGED <<edge, journal, codes, authoring, page, review>>

\* Mutant: a proposal that passed the checker is as good as attested.
TakenUnattested(r) == r.ok

Taken(r) == r.by # Nobody

\* `apply_attested`: the engine's labels, rewritten from attested proposals only.
Apply ==
    /\ results # <<>>
    /\ codes' = [e \in Exceptions |->
         LET of == {i \in DOMAIN results : results[i].exc = e /\ Taken(results[i])} IN
         IF of = {} THEN Label[e] ELSE results[CHOOSE i \in of : TRUE].code]
    /\ UNCHANGED <<edge, journal, results, granted, authoring, page, review>>

\* Mutant: whoever signs for it may move any code.
AcceptDerived(e, code, who) ==
    /\ who # Nobody /\ ~signed
    /\ Cardinality(accepted) < MaxAccepted
    /\ accepted' = accepted \cup {[exc |-> e, code |-> code, by |-> who]}
    /\ UNCHANGED <<edge, batch, authoring, page, signed>>

\* review.accept_classification: by name, not over a derived label, not once signed.
Accept(e, code, who) ==
    /\ who # Nobody /\ Reclassifiable(e) /\ ~signed
    /\ Cardinality(accepted) < MaxAccepted
    /\ accepted' = accepted \cup {[exc |-> e, code |-> code, by |-> who]}
    /\ UNCHANGED <<edge, batch, authoring, page, signed>>

\* The page has the button `Accept as` whenever its reading has a code.
AcceptOnPage(who) ==
    /\ page # NoPage /\ page.code # NoCode
    /\ Accept(page.exc, page.code, who)

\* accept_classification takes its code from the caller.
AcceptByAgent(e, code, who) == Accept(e, code, who)

SignOff ==
    /\ ~signed
    /\ signed' = TRUE
    /\ UNCHANGED <<edge, batch, authoring, page, accepted>>

Next ==
    \/ StartBatch \/ \E e \in Exceptions : AskReading(e)
    \/ Skip \/ Transient \/ Unavailable \/ RefuseGarbled \/ Return
    \/ \E p \in Replies : Propose(p)
    \/ \E r \in Resolutions : Induce(r)
    \/ \E x \in Exports : AuthorSpec(x)
    \/ \E d \in Drafts : Draft(d)
    \/ RefuseDraft
    \/ \E who \in People \cup {Nobody} :
         \/ \E i \in DOMAIN results : Attest(i, who)
         \/ AcceptOnPage(who)
         \/ \E e \in Exceptions, c \in Codes : AcceptByAgent(e, c, who)
    \/ Apply
    \/ SignOff

Spec == Init /\ [][Next]_vars
-----------------------------------------------------------------------------
\* A code moves only as far as a named person attested it: what no one attested, or
\* the checker refused, changes nothing (apply_attested, attest).  And a rule or spec
\* waits for a person, whoever it says wrote it (build_rule, build_spec).
NothingMovesUnattested ==
    /\ \A e \in Exceptions : codes[e] # Label[e] => [exc |-> e, code |-> codes[e]] \in granted
    /\ \A o \in offers : NeedsFirstUseApproval(o)

\* A label the engine derived stands, whichever way a proposal comes in and whatever
\* exception a reply claims to be about, and no call is spent on it (reclassifiable).
DerivedStands ==
    \A e \in Derived :
        /\ codes[e] = Label[e] /\ posts[e] = 0
        /\ \A a \in accepted : a.exc # e

\* In a batch every exception has one event, which says what its classification
\* says, an answered induce or author_spec has one event, which says whether there
\* was a proposal, and a model that answered is not asked again (ModelEdge._post): at
\* most one reply each, never more than RETRIES requests.
AnsweredOnceAndRecorded ==
    /\ \A e \in Subjects : replies[e] < 2 /\ posts[e] <= Retries
    /\ run.asker = "batch" => Len(journal) = Len(run.out)
    /\ \A i \in DOMAIN journal :
         /\ journal[i].exc = Batch[i]
         /\ i \in DOMAIN results => (journal[i].kind = "proposed") = results[i].ok
    /\ results # <<>> => Len(journal) = Len(results)
    /\ \A e \in Resolutions \cup Exports :
         replies[e] = 1 => Len(written) = 1 /\ written[1].exc = e
    /\ \A i \in DOMAIN written :
         written[i].kind = "proposed" => \E o \in offers : o.of = written[i].exc

\* The claim of accept_classification: "Same checker, same refusals".
RefusedIsNotAccepted ==
    \A a \in accepted : a.code \in Assignable /\ a.code \notin Ambiguous[a.exc]
=============================================================================
