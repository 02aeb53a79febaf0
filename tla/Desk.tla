-------------------------------- MODULE Desk --------------------------------
(***************************************************************************)
(* What people do at the screens, over the record of a close (Record).     *)
(*                                                                         *)
(* A page is rendered from the decision log and the review log as they are *)
(* at that moment and stays on somebody's screen while others work: its    *)
(* buttons, verdicts and figures are promises about a state that moves.    *)
(* Whatever is pressed on it goes through the same operations as any other *)
(* request, which decide again.  The long collections (the log, the        *)
(* decisions of the audit export) leave a budget of bytes at a time, and   *)
(* the reader comes back with the offset it was told.                      *)
(*                                                                         *)
(* The pages abstract their wording and layout: what is kept is what they  *)
(* offer, what they claim and the figures an auditor would compare.        *)
(***************************************************************************)
EXTENDS Record

CONSTANTS
    Weight,        \* kind of event -> what it weighs on a page
    ResultBudget,  \* what one page may weigh
    Limits         \* limits a caller asks for, None for no limit

ASSUME LimitsAreNumbers == None \notin Nat /\ Limits \subseteq Nat \cup {None}

VARIABLES
    page,          \* the page somebody has open
    reader         \* a reader of a long collection, and what it has so far

deskVars == <<log, todo, close, acknowledged, disposed, signature, page, reader>>

\* A surface reads under the shared lock, so never while a close is writing, and a
\* log without its header belongs to no loop.
Served == todo = <<>> /\ Readable(log)
-----------------------------------------------------------------------------
(* A page of a collection.                                                 *)

WeightOf(s) == FoldLeft(LAMBDA sum, e : sum + Weight[e.kind], 0, s)

\* How many items after the first `from` fit: the first always does, however
\* heavy, and none does where the limit is zero.
Fitting(s, from, limit) ==
    LET most == IF limit = None THEN Len(s) - from ELSE Min({limit, Len(s) - from})
    IN  Max({n \in 0..most : n <= 1 \/ WeightOf(SubSeq(s, from + 1, from + n)) <= ResultBudget})

\* Mutant: the cursor moves by what was asked for, not by what was returned.
PaginateByLimit(s, from, limit) ==
    LET n == Fitting(s, from, limit)
        step == IF limit = None THEN n ELSE limit
    IN  [items |-> SubSeq(s, from + 1, from + n),
         next |-> IF from + step < Len(s) THEN from + step ELSE None]

\* `paginate`.
Paginate(s, from, limit) ==
    LET consumed == from + Fitting(s, from, limit)
    IN  [items |-> SubSeq(s, from + 1, consumed),
         next |-> IF consumed < Len(s) THEN consumed ELSE None]

\* The decisions of the audit bundle, by time: the order of the log.
Decided(s) ==
    ItemsAt(s, {i \in DOMAIN s : s[i].kind \in {"MatchProven", "MatchRejected",
                                              "RuleApplied", "ProposalRefused"}})

Collection(what) == IF what = "events" THEN log ELSE Decided(log)

\* `audit`: what an outsider needs to check the close; `holds` is the verdict on
\* the chain and the terminator's counts.
Audit ==
    [decisions |-> Len(Decided(log)), exceptions |-> RaisedIn(log),
     postings |-> Cardinality(OfKind(log, "PostingWritten")), holds |-> ~Disagrees(log)]
-----------------------------------------------------------------------------
(* The exported journal: postings from the decision log, then what people   *)
(* decided from the review log.                                            *)

Journal ==
    LET posted == {log[i].entry : i \in OfKind(log, "PostingWritten")}
    IN  [posted |-> posted,
         decided |-> Range(disposed),
         balanced |-> HardBlockers(log) = {},
         unposted |-> {x.id : x \in RaisedIn(log)} \ {e.origin : e \in posted}]

BankTotal(journal) ==
    SumFunction([e \in {x \in journal.posted : x.debit = "bank"} |-> e.value])
-----------------------------------------------------------------------------
(* The pages.                                                              *)

\* Mutant: the budget shown is the whole one, whatever has been written off.
EnabledWhateverSpent(x) ==
    IF x.id \in DisposedOf THEN {}
    ELSE {e \in Endings : e = "write_off"
                            => x.value <= Ceiling /\ x.value <= Budget(RaisedIn(log))}

\* The endings whose button works: a resolved item has none, and the write-off is
\* disabled beyond its ceiling or what is left of the budget.
Enabled(x) ==
    IF x.id \in DisposedOf THEN {}
    ELSE {e \in Endings : e = "write_off" => WithinLimits(x)}

ItemPage(x) ==
    [kind |-> "item", item |-> x, enabled |-> Enabled(x), taken |-> x.id \in acknowledged]

\* What stands where the signature goes.
SignOffPanel ==
    IF signature # None THEN "signed"
    ELSE IF View(log).blocked # {} THEN "blocked"
    ELSE IF BlockersLeft # {} THEN "waiting"
    ELSE "offered"

\* Refused for a close that is not served; its problems are on the page.
ClosePage ==
    [kind |-> "close", panel |-> SignOffPanel, disposed |-> View(log).complete,
     balanced |-> View(log).blocked = {}, problems |-> Disagrees(log),
     waiting |-> BlockersLeft]

OpenItems == {x \in RaisedIn(log) : x.id \notin DisposedOf}

\* Four things an empty worklist can mean; a log that cannot be read is passed
\* over, as if it had not been closed.
Greeting ==
    IF ~Readable(log) THEN "nothing here yet"
    ELSE IF OpenItems # {} THEN "work"
    ELSE IF signature = None THEN "sign"
    ELSE "done"

WorklistPage == [kind |-> "worklist", rows |-> OpenItems, says |-> Greeting]

ClosePack ==
    [kind |-> "pack", signed |-> signature # None, journal |-> Journal, audit |-> Audit]
-----------------------------------------------------------------------------
DeskInit ==
    /\ RecordInit
    /\ page = None
    /\ reader = None

Unmoved == UNCHANGED <<log, todo, close, acknowledged, disposed, signature>>

\* The bounds: one page or one reader at a time, and of a signed close the pages
\* of the close that was signed.
Show(p) ==
    /\ signature # None => signature.of = close
    /\ page' = p /\ reader' = None
    /\ Unmoved

OpenItem(x) == Served /\ x \in RaisedIn(log) /\ Show(ItemPage(x))
OpenClose == Served /\ Show(ClosePage)
OpenWorklist == todo = <<>> /\ Show(WorklistPage)
OpenPack == Served /\ Show(ClosePack)

\* The timeline, or the audit export: a page of it, from where the last one ended.
\* The bound: only while the review log, which neither shows, is empty.
ReadPage(what, limit) ==
    /\ Served
    /\ page = None /\ Taken = {} /\ signature = None
    /\ reader # None => reader.what = what /\ reader.next # None
    /\ LET from == IF reader = None THEN 0 ELSE reader.next
           part == Paginate(Collection(what), from, limit)
       IN  reader' = [what |-> what, next |-> part.next,
                      items |-> IF reader = None THEN part.items
                                ELSE reader.items \o part.items]
    /\ UNCHANGED page
    /\ Unmoved

\* A form of the page is sent: a request like any other, after which the page
\* is rendered anew.
PressTake ==
    /\ page # None /\ page.kind = "item"
    /\ Acknowledge(page.item)
    /\ page' = None /\ UNCHANGED reader

PressDispose(ending) ==
    /\ page # None /\ page.kind = "item" /\ ending \in page.enabled
    /\ Dispose(page.item, ending)
    /\ page' = None /\ UNCHANGED reader

PressSignOff ==
    /\ page # None /\ page.kind = "close" /\ page.panel = "offered"
    /\ SignOff
    /\ page' = None /\ UNCHANGED reader

\* What may happen elsewhere before a page's promises lapse: on an item's, anything
\* but a close, a signature, a write-off or the end of that item; on the others,
\* anything but a close or a signature, and for the pack a disposition.
Stands ==
    /\ log' = log
    /\ signature' = signature
    /\ page.kind = "item" =>
         /\ WrittenOff' = WrittenOff
         /\ page.item.id \notin DisposedOf' \ DisposedOf
    /\ page.kind = "pack" => disposed' = disposed

\* Somebody else works: another browser, or an agent through its tools, which call
\* the same operations under the name on its credential.  A page or a reader whose ground has moved is forgotten:
\* what it asks for next is only another request.
Elsewhere ==
    /\ RecordNext
    /\ page' = IF page # None /\ Stands THEN page ELSE None
    /\ reader' = IF log' = log /\ Taken' = {} /\ signature' = None THEN reader ELSE None

DeskNext ==
    \/ Elsewhere
    \/ \E x \in RaisedIn(log) : OpenItem(x)
    \/ OpenClose
    \/ OpenWorklist
    \/ OpenPack
    \/ \E what \in {"events", "decisions"}, limit \in Limits : ReadPage(what, limit)
    \/ PressTake
    \/ \E e \in Endings : PressDispose(e)
    \/ PressSignOff

DeskSpec == DeskInit /\ [][DeskNext]_deskVars
-----------------------------------------------------------------------------
(* Properties.                                                             *)

\* A reader that follows the offsets it is told has, after each page and whatever
\* limits it asks for, exactly the front of the collection, and the whole of it
\* once it is told that nothing is left (`paginate`, `event_page`, `audit`).
PagesTileTheRecord ==
    reader # None =>
        LET all == Collection(reader.what)
            upto == IF reader.next = None THEN Len(all) ELSE reader.next
        IN  reader.items = SubSeq(all, 1, upto)

\* The lines of a whole record that must have reached the bank's account: all in
\* scope, except where the match was refused and nothing else is said of the line.
InScope ==
    (close.read \cap Anchors)
      \ (Range(close.scope)
           \cup (MatchedAnchors(close.refused)
                   \ (MatchedAnchors(close.kept) \cup Explained(close.raised))))

\* What a page showed stays true while others work, for as long as nothing happens
\* that it could not have known of.  An item's page never offers an ending that
\* dispose would refuse, except the booking of a code that names no account, an
\* item without value, and a close that is signed; the sign-off button works; a
\* worklist that says all is done hides no exception of the close; a pack's journal
\* balances when the books did, books every line in scope to the bank once and
\* names each exception that raised no entry, and its audit says that the chain
\* holds of whole records only (`item_page`, `_disposition_panel`, `close_page`,
\* `worklist_page`, `close_pack`, `journal`, `audit`).
PageKeepsItsWord ==
    page # None =>
        /\ page.kind = "item" /\ signature = None /\ page.item.value > 0 =>
             \A e \in page.enabled \ {"book"} : MayDispose(page.item, e)
        /\ page.kind = "close" /\ page.panel = "offered" =>
             signature = None /\ View(log).blocked = {} /\ BlockersLeft = {}
        /\ page.kind = "worklist" /\ page.says \in {"sign", "done"} /\ Terminated(log) =>
             \A i \in DOMAIN close.raised : close.raised[i].id \in DisposedOf
        /\ page.kind = "pack" /\ page.audit.holds => Terminated(log)
        /\ page.kind = "pack" /\ Terminated(log) =>
             /\ page.journal.balanced <=> BlockedReasons(close) = {}
             /\ CompleteIn(log) =>
                  BankTotal(page.journal) = SumFunction([a \in InScope |-> Amount[a]])
             /\ page.journal.unposted =
                  {close.raised[i].id : i \in {k \in DOMAIN close.raised :
                                                 ~Postable(close, close.raised[k])}}
             /\ page.audit.decisions = Len(close.kept) + Len(close.refused)
                                         + Len(close.applied) + Len(close.inadmissible)

=============================================================================
