# FinCon in TLA+

FinCon reconciles payouts, bank lines and orders, or tax returns and books ("a
close"), writes every decision of a close into a hash-chained log, and lets
named people finish what the engine could not: acknowledge an item, accept a
code for it, dispose of it with a journal entry, and sign the close. This
directory models the parts of `src/src/recon` where the order of steps decides
whether that record can be trusted, checks them with TLC on small instances and
proves the most important results with TLAPS for every instance.

Paths below are relative to `src/src/recon` unless they start with `src/`.

## 1. The system

### Components, their state and their operations

| Component | Source | State | Operations | Modelled in |
|---|---|---|---|---|
| log lock | `journal/__init__.py` (`_Gate`, `_locked`, `_take_file_lock`) | per process and log: a condition variable, a reader count, a writer flag, a file handle; in the kernel: one POSIX record lock on a sidecar file | `exclusive`, `shared`; give up with `JournalBusy` after 30 s | `RWLock`, `JournalLock` |
| decision log | `journal/__init__.py` (`Journal`, `read`, `verify_chain`), `close.py`, `service.py` | `decisions.jsonl` of a run: chained events from `CloseStarted` to `CloseCompleted` | delete and rewrite (a close), read and verify (everything else) | `AtomicRecord`, `DecisionLog` |
| derive, replay, ledger | `journal/derive.py`, `journal/replay.py`, `ledger/*` | none | project a close onto events and back; build entries | `Record` |
| review log, dispositions | `review.py`, `disposition.py`, `service.py` | `review.jsonl` of a run: an append-only chained log | acknowledge, accept a code, dispose (book, carry forward, chase, write off), sign | `Review`, and over the record `Record`, `Desk` |
| matching pipeline | `engine/tiers.py`, `strategies.py`, `subsetsum.py`, `blocking.py`, `tolerance.py`, `completeness.py` | the anchors still unmatched, the groups still unclaimed | offer anchors to one strategy after another, search subsets, raise the rest, audit that nothing was lost | `Matching`, `MatchingOrder` |
| verifier and diagnosis | `engine/verifier.py`, `nearmiss.py`, `diagnose.py`, `fingerprint.py` | none | recompute a proof; find a code for an exception; pair the sides of a break and name it | `Matching`, `Governance`, `Breaks` |
| intake | `intake/*` | none | read, interpret and prove source files | `Intake`, `Breaks`, `Period` |
| rules, codes, policy, trust | `engine/rules.py`, `rulestore.py`, `promotion.py`, `taxonomy.py`, `trust.py`, `profiles/*` | the rule store, the registry of codes, policy and spec files | propose, measure, judge, promote and revoke a rule; ratify and retire a code; approve a policy; apply what is admissible in a close | `Governance`, `Record` |
| close orchestration, progress | `close.py`, `loop.py`, `progress.py`, `api/ui.py` | the period's directory, one job file per background close | upload, load a sample, close in the background, poll, re-verify | `Period` |
| service read side, pages | `service.py`, `api/ui.py` | what a browser has open | views, pages of long collections, the journal, the audit export, the close pack | `Desk` |
| triage | `triage/*`, `contracts/rule.py`, `contracts/adapter.py` | none of its own | ask a model for codes, rules and adapter specs; guard its replies; attest, accept | `Triage` |
| accounts, sessions, throttle | `api/auth.py`, `api/throttle.py`, `api/app.py` | `accounts.json` or a user pool, cookies, token buckets | sign up, confirm, sign in and out, limit attempts, set and test form tokens | `Access` |
| MCP surface | `mcp/*` | none | the same service functions for an agent | as requests in `Triage`, `Desk` |

### How they interact

A close runs on a request thread, or on a background thread that a page polls.
It reads its sources first, each twice (for its rows and for its hash), then the
rule store, and then the policy and the registry of codes. It matches without touching any log, then takes
the lock of its run's decision log, deletes the log that is there, and writes its
own. The run id is derived from the inputs, so two closes of one period meet on
one file. Every view, and every review action, reads that file under the shared
lock after testing, without it, that the file exists. A review action then reads
the review log, decides, and appends to it under that log's exclusive lock. The
two logs have separate locks and nothing holds both. Several server processes may
share the directory over NFS. Pages are rendered from both logs and pressed
later; an agent's tools call the same service functions.

### What is hard, and what must be true

  - **The lock** is two locks, one of which (`lockf`) belongs to the process and
    is lost when any descriptor of the file is closed, and a thread polls for it
    while it holds the guard that everybody needs to get out. It must exclude
    across threads and processes, never lose a wakeup, never refuse a caller
    beside an empty log, and answer everyone.
  - **The decision log** is not replaced atomically: it is unlinked and rewritten
    event by event. A reader must see one close's record and never a mixture; and
    what it sees of a record cut short must never look better than the close was.
  - **The record** is a projection: an exception, a posting or a blocker dropped
    or added on the way to the log and back falsifies it, and a signature sees
    the close through it only.
  - **The review log** is appended to under a lock, but what to append is decided
    from earlier, unlocked reads, and from pages shown earlier still.
  - **The matching pipeline** must give every anchor exactly one fate, back no two
    anchors with one group, and not take the first subset for the only one.
  - **Breaks** must be raised once, with a code only where the evidence decides,
    and under a name that survives the next export of the files.
  - **Authority** is read file by file while people change it: tolerances, codes
    and rules act in a close only within what was approved for it.
  - **A period** is a directory that is uploaded to while it is read; a run id
    must stand for the rows closed, and a job must not say "running" for ever.
  - **A model's reply** is untrusted input that must move nothing by itself.
  - **Accounts** live in a file that is rewritten whole; **a bucket** must bound
    the attempts in a window; **a form** must not be dead for good.

`PROJECT.json` lists each hazard at its line with the properties that cover it.

## 2. Plan

The modules were written in this order, and all steps are done.

 1. `RWLock`, `JournalLock`: the lock under everything, its abstract promise and
    the refinement.
 2. `Review`: people acting concurrently on one close.
 3. `AtomicRecord`, `DecisionLog`: the rewritten log, composed with `RWLock`.
 4. `Matching`, `MatchingOrder`: strategies, claims, the subset pass, the audit.
 5. `Record`: what a close decided, the log it writes, what is read back, what is
    posted and signed; `Desk`, the pages over it.
 6. `Governance`: codes, rules, policy and specs, and what a close makes of them.
 7. `Access`, `Period`, `Triage`: getting in, the files of a period, the model.
 8. `Intake`, `Breaks`: reading the sources, and naming what is left over.
 9. Proofs: `JournalLockProofs`, `PeopleProofs` (of `Review` and `Access`),
    `LogProofs` (of `DecisionLog`, `Record` and `Desk`), `MatchingProofs` (of
    `Matching` and `MatchingOrder`), `GovernanceProofs`, `PeriodProofs`,
    `DiagnosisProofs` (of `Breaks` and `Triage`); and `Sums`, the lemmas on least
    elements and finite sums that four of them rest on.

What could follow: one module that runs `Governance`, `Matching` and `Record` as the
stages of one close.

## 3. The modules

### RWLock and JournalLock

`RWLock` is the abstract lock: `holding[t]` is how thread `t` is inside. `Acquire`
lets in a writer alone or a reader beside readers; `Release(S)` lets a set out at
once, because the threads of a dying process leave together.

`JournalLock` is one log with several processes of several threads each. A
location of `pc` is a place in `_locked` where another thread may run:

| `pc` | in `_locked` |
|---|---|
| `entering`, `notified` | about to take the gate's guard, on entry or back from `wait` |
| `waiting` | asleep in `guard.wait` |
| `polling` | in `_take_file_lock`, about to call `lockf`, holding the guard |
| `refused` | there too, `lockf` has raised and the clock is still to be read |
| `inside` | in the body of the `with` |
| `leaving` | in the `finally`, about to take the guard |
| `busy` | `JournalBusy` is on its way to the caller |

What is done under the guard without a wait is one action. `guard[p]` is held
across actions only by a poller. `gate[p]` has the fields of `_Gate`. `fileLock`
is the kernel's record lock, with POSIX semantics: it never conflicts with its own
process and is dropped by any `close` of the sidecar in that process
(`CloseHandle`). `lockf` and the reading of the deadline are two steps
(`LockRefused`, then `PollBusy` or `PollAgain`): the holder may have gone in
between. Opening the sidecar may fail instead (`OpenFails`), which ends the request
with an `OSError` and touches nothing. Any `OSError` of `lockf` is taken for the
lock being held, as the code does; that the system call fails for another reason
is left out. `Expire` lets the 30-second deadline of one thread pass at any
time. `Crash(p)` kills a process in any state. Left out: the registry that hands
the threads of a process the same gate, message texts, NFS as opposed to POSIX.

### DecisionLog and AtomicRecord

`Closers` are threads that close one period again and again; `Readers` ask for a
view of it. A close matches and posts (`StartClose`), takes the write lock from
`RWLock`, unlinks the log (`OpenFresh`), calls `derive`, which may raise and then
leaves the run with no log (`DeriveFails`), and appends its events one at a time
(`WriteEvent`); then it leaves the lock and views its own run, like every reader:
`Lookup` (`_log_path`, unlocked), `EnterRead`, `ReadLog`, `LeaveRead`. `Crash`
kills any thread anywhere. An event carries what the chain binds: the close that
wrote it, `seq`, `kind` and `prev`. Two closes never produce equal hashes because
the event's timestamp is hashed.

`AtomicRecord` is what a reader may count on: the record changes in one step and
a reader takes all of it. The refinement maps `record` to the history variable
`published`, the file as the last holder of the write lock left it. It allows what
the code allows: a reader that finds no record because a close failed in `derive`
or died before its first event, and so a close that has succeeded and is then told
that its run has no log, because a later one has unlinked it.

### Record

What a close decided (`close`) is data: rows read, sources with their strength,
matches kept and refused, exceptions raised, lines out of scope, ledger errors,
matches lost to rules, bundles of authority, rules refused and applied.
`EventsOf(close)` is what `run_close` appends of it; `EntriesFor` what
`entries_for` posts; `Disposition` the audit's verdict on every row. `RunClose`
begins a record in place of the one that is there, `WriteNext` appends one event
and `WriterDies` stops it anywhere, so a log of any length is read by `View`
(`replay`, `disagreements`, `_view_of`). `Acknowledge`, `Dispose` and `SignOff` act
on that view. `Trusted` is `trust.verify`.

What people decide goes to clearing's account and not to suspense, whatever the
exception was posted to: `service.dispose` never passes `disposition.decide` a
`source`, so the credit of an unattributed receipt stays in suspense
(`disposition.py:88`, `service.py:1750`). `Dispose` does the same.

### Desk

The pages over `Record`: the item page with its buttons, the close page with its
signature panel, the worklist and what it says when it is empty, the close pack
with its journal and audit. `OpenItem`, `OpenClose`, `OpenWorklist` and `OpenPack`
render one, `Press...` sends its form, `Elsewhere` is anybody else's step. `page`
remembers what was shown until something happens that it could not have known of
(`Stands`). `ReadPage` follows `paginate` through the timeline or the audit export.
An agent's tools are `Elsewhere` and `ReadPage`.

What the code does and the properties therefore except: a button of an item
without value, or in a signed close, is enabled and every press refused; a record
whose writer died before `CloseBlocked` reads as balanced (`service.py:1217`); a
limit of zero returns the offset it was given (`service.py:166`), so that only a
caller that never asks for nothing gets to the end; the pack of an unsigned close
counts the items already taken among those that still need a human
(`ui.py:2168`); after a re-close of the same inputs the pack shows the signature
of the earlier record over the later figures; and a worklist passes over a log it
cannot read.

### Review

`log` is `review.jsonl`. `_append` re-reads the log and tests for a signature
under the exclusive lock, so `Record` is one step; `JournalLock` is why it may
be. What a request decides before is read outside that lock, and each such read
is a step: `DecideDisposition` (the service reads the running total and calls
`decide`), `CheckDisposed` (`review.dispose` looks for an earlier disposition),
`RecordDisposition`; and `DecideSignOff`, `RecordSignOff`. `GiveUp` is a request
that ends with nothing recorded: refused by the signature, refused by a busy
lock, or dead. A caller may always ask again, also after a success whose answer
it lost. `job[a].left` is the `budget_remaining` of the disposition. Refusals that
only look at the arguments leave no trace and are not actions.

### Matching and MatchingOrder

One call of `tiers.run`. `at` counts the strategies begun, `queue` holds the
anchors the current pass has still to try and `unmatched` those it has left.
The loop of `run` is `BeginPass` and one `Turn` per anchor, in the order of the
statement's lines: `Attempt` for `exact`, `tolerant` and `partial_payment`, and
`PoolIsEmpty`, `CommitSubset` or `RefuseSubset` for `subset_sum`. `Dispose` is the
rest of `run`: the leftovers, paired or alone, the groups nobody claimed, the
declared gaps and the off-relation rows become exceptions. `Fate` is
`completeness.audit`, `Verified` what `verifier.verify` makes of a match.

`Pending` keeps the code's `unmatched if unmatched else list(in_scope_anchors)`
and so the case in which a strategy that matched everybody hands everybody to
the next one. The solver is its contract: `Solutions` are the non-empty, cohesive
subsets within the tolerance, `Searches` what the collector may hold when the
search completes, reaches `MaxSolutions` or runs out of time, and `Reading` how
`solve` words that; a pool of more than `MaxCandidates` rows is not searched
(`Outcomes`). Which leftovers are each other's closest is an open choice
here (`Pairings`) and `Breaks`' subject. Records are data; signs are those of the
two shipped profiles; no promoted rule is active; a group has one counterparty;
the date windows of blocking and of the profile are one set. `MatchingOrder` runs a
month twice, the second time with the lines reversed.

### Intake and Breaks

`Intake` is the reading of one source as a function of a spec and a document:
which rows are kept, what identity each gets (`Identity`: its natural key and how
often it came before, or its position), and what can be proved (`ControlTotal`,
`RollForward`, `Strength`). A row's `worth`, what it really moved, is known to the
property only; that the figures a document states are true is an assumption
(`FiguresAreTrue`).

`Breaks` closes two files of the TDS loop: `LeftOver` is what the exact and the
tolerant strategy do not claim, `Candidates` and `Closest` are `nearmiss.compare`,
`Diagnosis` and `Reading` are `diagnose`, `OneBreak` pairs the two sides of a break,
`Fingerprint` names it. `Reorder` and `Extend` export a file again between closes.

What the code does and the properties except:

  - With an empty other side a row is given E14, not the code of its absence
    (`tiers.py:609`); an equally good rival beyond `MAX_CANDIDATES` is not compared
    (`nearmiss.py:42`).
  - Of two anchors with one pairing key the first in the file is matched and the
    other is left over. `fingerprint.py:16` says that "a break should stay the same
    break when a source is re-exported with different row numbering"; two lines of
    one amount that differ in their certificate only, exported in the other order,
    leave the other line over, under another name. `BreaksKeepTheirNames` is
    therefore about files in which no two different rows contend for one group
    (`Uncontested`), and in which rows that repeat a natural key agree on what is
    compared (`AlikeByKey`), because a new order swaps their identities.
  - A running balance does not see every row (`Unseen`). The roll-forward goes from
    one balance read to the next and adds the amount of the row at its end
    (`proofs.py:199`): where that one did not parse, it is passed over, and where a
    row between them has an amount and no balance, that amount is not added. What
    lies before the first balance and after the last is not seen either.
  - Amounts are compared as printed, so 100.5 differs from 100.50 (`nearmiss.py:112`).
    The fingerprint leaves the amount out, but a natural key may name it. A source
    that failed does not stop a close: its rows turn up as absences on the other side.

### Governance

`codes` climb the ladder of `engine/taxonomy.py`; `rules` are measured
(`Measured` is `regress`), judged (`Allowed` is `evaluate`), promoted and revoked;
`store` is the rule file, cut off while `saving` is not `None`; `policy` and `spec`
are versions of files that somebody replaces. A close reads its sources as the
specs say and its rules with their approvals first (`BeginClose`), the policy and
the registry some time later (`RunClose`), and may end in between (`AbandonClose`).
It tests every approval (`Admissible`), matches, verifies and books. A rule is the
records it fires on and the one way it acts; where it fires on a key that an earlier
rewrite has made is part of it too (`again`, `FiresOn`), because `normalize` tries
each rewrite on what the ones before it left. An anchor has one group that may back
it.

What the code does and no property forbids: `booking_overrides` is given every rule
of the request, also the inadmissible ones, although `close.py:492` says that such a
rule did not act; `value_suppressed` is a net sum, so rows of opposite sign cancel
(`promotion.py:440`); a code that does not resolve stops the close before its
record; a bundle that is unsigned or edited is reported and does not stop a close,
because nothing sets `require_signed`; the run id leaves out adapter specs and the
chart of accounts (`loop.py:273`).

### Period

The files of a period: whose bytes each holds, whose bytes may follow where those
end, and whether it is being written, was left as half of a file, or is whole.
`upload_period` is `BeginUpload`, then `OpenFile` and `FillFile` for every file, and
`EndUpload`; `write_bytes` does not await, so the event loop has one file open at a
time (`LoopIsFree`), and when it raises the request ends with half a file behind it
(`BreakFile`). `load_sample` copies the shipped example on a thread of its own, each
file opened and filled in two steps (`BeginSample`, `OpenSample`, `FillSample`,
`EndSample`); a file that both have open ends as a mixture of the two (`Fill`).

`DoClose` starts a background thread, which enters stages in its job file, reads
each source for its rows and again for its digest (`ReadRows`, `ReadDigest`), and
opens and seals the record of its run id. Any write of the job file may raise:
`FailEntering` and `FailFinishing` are the ones of `enter` and `finish`, `Fail` is any
other exception of the thread, that of a `report` included. All end in `do_close`'s
`except`, which marks the job failed and writes the file once more (`FailAs`); if
that write raises as well, the exception leaves the handler, the thread is gone and
the file stays as it was. `unsaid` remembers these closes and `died` the ones that a
death of the process (`Die`) cut short. `BeginReverify` to `EndReverify` is
`service.reverify`. `disturbed` and `calm` remember whether a file changed, or was
being written, while somebody read it.

### Triage

`run` is the one call in progress: who asked, about which list, what has been
answered, how often the request in hand was sent. `Propose`, `RefuseGarbled`,
`Transient` and `Unavailable` are the ways `ModelEdge` ends; `Admissible` is
`check_proposal`, `Valid` what the contracts ask of a rule or a spec. A proposal of
a batch is attested (`Attest`, `Apply`); one on an item's page travels in the URL
and is accepted by `AcceptOnPage`; an agent accepts any code it names
(`AcceptByAgent`). Model-authored specs leave `author_spec` unapproved, but no
path that loads or ingests with a spec reads `needs_first_use_approval`: the
property says what leaves `author_spec`, not that ingestion waits.

### Access

One browser with several tabs and a server that answers on threads. A request
carries the cookies and the form token of the moment it is sent; its answer comes
in at any later time. `CheckForm` tests the token and dates the attempt, `Check`
enters the throttle (`Admit`, `Refuse`), `Load`, `Truncate` and `Write` are the
local store's sign-up, `SignUpManaged` and `Confirm` the user pool's. `Tick` ages
cookies, `ClearCookie` loses one, `Restart` is a death of the server. Bucket levels
are in units of 1/window of a token, so that refills are whole numbers.

## 4. The runs

| Run | Instance | States | Shows |
|---|---|---|---|
| `lock` | 2 threads of one process and 1 of another, 2 requests each, 1 death, with fairness | 211 000 | no lost wakeup; truthful refusals; refinement of `RWLock`; every request answered |
| `decision_log` | 2 closers, 1 reader, 3 closes in all, 1 death, closes with 3 and 4 events | 198 000 | refinement of `AtomicRecord` |
| `record` | 9 outcomes of a close over 3 lines and 3 rows, closed again at any time, cut short anywhere; 2 review entries and a signature; one page or one reader at a time | 348 000 | what is read is what was decided; a half record never flatters; cash is posted once; a signature over a whole record covers the close; pages tile the record; a page keeps its word |
| `review` | 2 requests at once, 3 items (one blocking, one without value), 3 endings, 4 events | 566 000 | the signature is final, covers the blockers and never understates; one handler disposes once and keeps to the budget |
| `review_disposed_twice` | the same, 2 endings | stops | *violation*: an item ends twice |
| `matching` | 2 credits with anything known of them, 8 rows in 2 groups and a pool of 2 to 5 rows, 5 surroundings, each month in both orders of its lines | 564 000 | no row backs two matches; every input has a fate; fates stay apart while one credit is unmatched; a subset is the only one; order matters only in contest |
| `governance` | 3 codes, 7 rules, one of each kind, a second suppression and a second rewrite, 2 policies, 2 readings of the current period, 6 stores to start from, 3 changes | 32 000 | tolerance within the ceiling; unratified codes never book; a match lost to rules blocks; evidence outlives its policy; rules are not forgotten |
| `period` | 2 files, 1 upload, the sample, 2 background closes one after the other, 1 audit, 1 death, 3 stages, any write failing | 1 230 000 | the job page tells the truth; run ids stand for rows; a re-verification is of the rows closed; every job ends, unless the process died or the failure could not be written |
| `breaks` | pairs of TDS files of up to 2 rows, and statements of up to 3 rows that state a total, both ends, the balance of every row or of all but the second, read by specs that fit and by one that does not; closed, exported once more, closed again | 94 000 | leftovers are raised once; a verdict is decisive; breaks keep their names; a verified source misses no money |
| `triage` | 2 calls in all, a batch of 3 exceptions or one page, 10 replies, 11 drafts, 3 attempts per call, 1 accepted code | 1 240 000 | nothing moves unattested; derived labels stand; every answer is asked for once and recorded |
| `triage_refused` | the same | stops | *violation*: a code that the checker refuses is accepted |
| `access` | 1 browser with 2 tabs, 2 addresses, both stores, 4 requests, 3 units of time, 1 restart | 2 640 000 | accounts are kept; a reload heals every form; attempts are bounded |

The two violations are `findings` in `PROJECT.json`, each with the words of the
repository it contradicts.

**Bounds.**

  - *Lock.* Two processes, two of whose threads compete, reach every pair of
    (waiting, polling, inside, leaving) in one process and between processes. Two
    requests per thread let one come back to a gate that the other has changed.
  - *Decision log.* Three closes let a second close overtake a first between any
    two of its steps and a third overtake the reader.
  - *Record.* The nine outcomes are a clean close, one with open items that block,
    a refused match, a match refused after its shortfall was raised, a match lost to a rule, two lines that share a reference, a
    source that failed, a ledger that does not load and a row nobody mentions:
    each way `complete`, `ok` and `blocked` can come apart. A page holds three plain
    events and a match fills it alone. Pages of a signed close are shown only of the
    close that was signed, and pages of a collection are read only before the
    review begins: the first is what a reader can compare, the second shows
    neither log.
  - *Review.* Four events are enough for the longest violation (acknowledge a
    blocker, two stale dispositions, sign).
  - *Matching.* Credits of 10 and 11 meet a group's 10 exactly and within the
    tolerance of 1, 7 is short of it by exactly the repeated row and, in the other
    surroundings, by an unexplained 3. Two credits contest every group. Of the pool's
    five rows a pair is worth 10, one is worth 9, one 11 and one 20, and the
    surroundings leave some of them out of scope. With the pair and the 9 a credit of
    10 is ambiguous and one of 11 is not; with the 11 as well a 10 has three
    explanations, which is `MaxSolutions`, and an 11 has two; with the 20 there are
    more rows than `MaxCandidates`, which is four; and with the pair alone the pool is
    empty once it is taken. In one surrounding a search may run out of time.
  - *Governance.* The second policy lowers the ceiling from 2 to 1, between the two
    amounts that matter; a rule that is harmless alone and harmful with another one,
    one that widens, one that advises and one that books are there once each, and two
    that rewrite: the second fires only on what the first has made. Three changes are enough to measure, promote and store a rule, or to
    promote one under a policy and replace that policy under it.
  - *Period.* One thread closes twice, so a run id can be met again, also after a
    death; two closes at once are `decision_log`'s subject. The audit does not overlap
    a close (`AuditedApart`): it takes its record in its first step and reads files
    only, and a close never looks at it, so no order of their steps tells either
    anything. Nothing follows an audit, whose verdict no later step reads
    (`AuditIsLast`). What the properties say nothing of is not followed further: an
    audit that was disturbed, or of a record that was (`AuditedCalm`), and a second
    close after one that was disturbed or sealed nothing (`SecondIsCalm`). The first
    close meets everything.
  - *Breaks.* The rows of the TDS files differ from one another on each part alone,
    by rounding, on an undeclared part and altogether; two rows per file make an
    ambiguous pair of candidates. Three rows of a statement are a balance chain with
    a lost row, or one without a balance, in the middle. A row moves 2 or -1.
  - *Triage.* The replies speak of the exception asked or of another, of a code that
    is ambiguous there or retired, cite what they name or not, and decline well or
    badly; each draft breaks its contract in one way or none. A second call sees
    what a first one left.
  - *Access.* Cookies live one unit (session) and two (form), the window is two
    units and the clock goes to three, so each expires within a run. One token per
    window is the limit where off-by-one shows at once; the proof covers the others.

**What the properties leave out.** Some hold only because they except what the code does
not give. Each exception is a condition in the property, so that what it costs can
be read there:

  - `JobEnds`: a close whose process died, and one whose `failed` could not be
    written. The comment at `ui.py:909` says that "every failure is a state the page
    must show"; when the disk that failed the close also refuses the job file
    (`progress.py:110`), this one is not, and the page says running for ever although
    the process is alive. Without `unsaid` in the property TLC finds that run.
  - `SubsetIsUnique`: searches that may run out of time (section 5).
  - `SameRunSameRows`, `HoldsOnTheRowsClosed`: closes and audits that read a file while it
    was written. An upload between the two reads of a file gives rows of one upload the
    digest, and so the run id, of another (`csv_reader.py:53`); a re-verification then
    compares with files that were never closed.
  - `ActorsKeepToBudget`: it bounds what one handler writes off. Two handlers that read
    the running total before either appends can exceed the close's budget together
    (`service.py:1748`).
  - `SignatureCoversClose`: records that lost their tail. `sign_off` does not ask whether
    the record is whole (`service.py:1872`), so one whose writer died can be signed as if
    nothing blocked it.
  - `PageKeepsItsWord`: pages whose close somebody else has touched since. A stale button
    may be pressed; what is then recorded is `Review`'s subject.
  - `VerdictIsDecisive`: lists of candidates that were cut (`nearmiss.py:42`).
    `VerifiedMissesNothing`: rows a roll-forward does not see. `BreaksKeepTheirNames`:
    contested groups. All three are described under Breaks.
  - `AccountsAreKept`: two sign-ups at once, of which the later save forgets the earlier
    account, and a death after the file was emptied (`auth.py:128`).
  - `DerivedStands`, `NothingMovesUnattested`: they do not say that a reply which was
    attested was judged for the exception it ended up on. It is judged by the exception
    it names and put down under the one in hand (`classify.py:387`).

Deadlock is not checked: each of these systems stops where its bound on requests,
closes, calls or exports is reached, and a matching run stops because it is done.

**Fairness.** `lock` and `period` state some, the others none. `FairSpec` of
`JournalLock` is weak fairness of what a thread does on its own (the operating
system schedules it; a poller retries every few milliseconds) and of its deadline
passing (the clock is monotonic). None is assumed of `Leave`: a holder may stay
inside for ever, and everyone else is still answered. Requests are bounded, so a
thread that wants the guard is not overtaken for ever; with an endless stream of
competitors the guard's own fairness, which Python does not promise, would be
needed. `FairSpec` of `Period` is weak fairness of a close's thread: nothing in it
waits without a timeout. None is assumed of uploads, audits or deaths.

## 5. The proofs

Eight modules prove, for every value of the constants that satisfies the named
assumptions, what the runs show on an instance. The assumptions say that sets of
threads, items or records are finite where a cardinality is taken, that constants
have the right kind, and what is named below.

**JournalLockProofs.** None of the safety properties is inductive. `IInv` is `TypeOK`
with: the reader count is the number of readers inside and the writer flag says
that a writer is (`GateCounts`); a writer is alone in its process (`WriterAlone`);
the handle is open exactly while the process owns the record lock
(`HandleIsLock`); the owner is the process with threads inside
(`FileLockFollowsHolders`); and the guard is kept only by a poller, for whose request
the gate is admissible and empty (`GuardIsPoller`). The last is what the code's
comments do not say and everything rests on: because nobody is inside while a
thread polls, a refused poll closes no handle anybody needs, and a writer let in
finds the gate as it left it. From it: `TypeCorrectness`, `Exclusion`,
`LockOwnership`, `PollOnlyWhenEmpty`, `WakeupNeverLost`, `BusyIsTruthful`, and
`Refinement` of `RWLock` (an admission maps to `Acquire`, a way out or a death to
`Release`, everything else to a stutter).

**LogProofs**, the file. `LogIsAtomic`: the log implements `AtomicRecord`. A thread is
where it is because of what it holds (`Held`), a writer is alone (`Exclusive`), a
close that is writing has put down nothing but its own events, as many as it
counted (`Written`), and while nobody writes the file is what was last left
(`AsLeft`). A reader's step maps to taking the record, a close's way out or death
to replacing it.

**LogProofs**, the record. `RInv`: what is in the log is the beginning of the events
of the last close, and what is still to be written is the rest of them. A log with
its terminator is therefore all of them, and what remains is about one sequence of
any length, `EventsOf(d)`: which of its events are of a kind and in which order
(`EventsAreSorted`, over the eleven parts it is concatenated from), what the
terminator says of the others (`TerminatorIs`), what `replay` makes of them
(`RecordIs`, `BlockersAre`). From it `RecordIsFaithful`, `NoFlattery` and
`LinesArePostedOnce`; the assumption that the tiers keep fates apart is where a line
that is matched and one that is excepted differ, and `Matching` proves its half of
it (`FatesStayApart`). `SignaturesHold` is part of `RInv`: an acknowledgement stands,
and a signature closes the review.

**LogProofs**, the screens. `DeskKeepsTheRecord`: every press is a step of the record.
`PagesTile` rests on `Tiled`, what a reader has is the collection up to his next
offset, and on `PageFits`, which bounds what one page takes without knowing what
the weights add up to. `PagesKeepTheirWord` rests on `PageHolds`: what was shown was
so when it was shown, and stays so until a step that the page could not have known
of closes it. Its deepest part is the sum: the bank entries of the exported journal
come to the amounts of the lines in scope, because entries and lines correspond
one to one (`BankIsTotal`, by `SumsAgree`).

**Sums.** A fold takes the elements of a set in an order of its own. `SumExists` and
`AnyOrder` show what it computes, on a smallest set for which it would fail:
the library's induction theorems take an operator as a parameter, but a
well-founded order on the finite subsets does not. On them rest `SumSplits`,
`SumsAgree` (sums correspond if terms do), `SumUnion`, `SumWithin` and `PartOfSum`.

**PeopleProofs**, the review. `IInv` adds to the three properties of the log what a
request under way knows: a signer's blockers are all taken and its count is no less
than what is open (`SignersKnow`; items are only ever taken, so an old read stays
true), and a disposer that has checked has no disposition of that item by itself in
the log (`DisposersKnow`). From it: `SignaturesCover`, `SignaturesAdmit`,
`RetriesAreSafe`; and directly `TypeCorrect` and `SignatureEnds`.
`HandlersKeepToBudget` has an invariant of its own (`BInv`): whoever has decided on a
write-off and not yet recorded it has room for it beside its own earlier ones
(`PlansWithin`). The others' write-offs only make the total it read larger, so
what one handler spends is bounded although the total of all is not.

**MatchingProofs.** `BacksOneAnchor` is not inductive because two sets keep rows
apart: `claimed` (here the groups of the matches) and, inside a subset pass only,
`consumed`. `IInv` therefore tells the two kinds of match apart (`Kinds`): one that
stands for a whole group of its own (`GroupsDiffer`), and one that holds pool rows
(`PoolRowsDiffer`), which the subset pass has consumed and nothing else has
(`ConsumedKnown`). That a profile names `subset_sum` once is what keeps a second pass
from starting with an empty `consumed`; it is an assumption on the constants, met
by both profiles and enforced nowhere. From it: `MatchingTypeCorrect`,
`GroupsBackOneAnchor`, `MatchesVerify` (each proposal's residual is nil, tolerated or
declared in full), and `CommittedSubsetsAreUnique`, under the hypothesis that a
search cannot run out of time. Otherwise `solve` may take the first subset found for
the only one: it answers `UNIQUE` for one subset whenever the collector's limit was
not reached (`subsetsum.py:212`), also when the status says that the time was up.
`subsetsum.py:11` promises the opposite, "UNPROVEN one subset found, but a bound
stopped the enumeration", and goes on: "Reporting "unique" after a search that
stopped early would be a confident wrong answer". `NothingDisappears`: a run that has ended has given every anchor
and every row a fate, in whatever order strategies claimed and excluded.
`FatesStayApart` has a hypothesis, `SubsetPassLast`: a strategy after the subset pass
would see an empty `unmatched` as everybody, and could match what was left over.

`OrderMatters` has the same hypothesis: which anchors a subset search leaves is open,
so a strategy after it need not meet the same ones in both runs. Where anchors
compete for no group, what an anchor takes depends on no claim outside its own reach
(`OnlyReachMatters`). A pass therefore makes of what the one before it left, its
leftovers and its pairs, something no order of turns enters (`After`), and there is
one such sequence of passes (`TracesAgree`). Between two turns a run has taken and
left what `After` says of the anchors whose turn is over (`Midway`); `BothFollow` says
this of both runs. The second run's operators, on the reversed statement, are
the first run's on the same month (`SameRecords`).

**GovernanceProofs.** A close tests an approval, not an amount. What makes the test
enough is that no rule is ever approved for more than the ceiling of the policy
named in its approval (`Approved`), and that a close holds the approvals as they were
when it loaded the rules (`Following`): `CeilingHolds`. `EvidenceKeeps` holds because
a run without rules proves the same matches under every policy, the profile's own
tolerance being within every ceiling, which is an assumption. `BookingsAreRatified`
and `OkLosesNothing` follow from what a close read and from `Following`. `RulesAreKept`
needs no invariant: of the steps while no close runs only the one that finds the
store whole begins a close (`OnlyLoadingBegins`).

**PeriodProofs.** What was sealed says nothing of a thread that still reads, so the
invariant does: whoever has not been disturbed holds of every file the bytes that
it has digested, or has read its rows and not yet its digest, and the file is still
the same (`Alike`). From it `RunIdsStandForRows` and, through what a holding verdict
compared (`Compared`), `VerdictsAreOfTheRows`. A file that was opened under a reader
disturbs it, and so does every later write to it (`Opened`, `Filled`). `JobsTellTheTruth` has an invariant of
its own: a close has performed what comes before the stage it is in. A failing write of the job file
leaves an earlier state of it, which is still true (`JobFails`).

**DiagnosisProofs**, the breaks. The state is little more than what the last close was
of (`BreaksInv`: its files are rows of the scene, in some order, and late ones); the
work is in the operators. `Closer` is an order (`CloserIsOrder`), so of finitely many
candidates one has none before it (`ClosestExists`, on a smallest set of
predecessors) and the closest one is among those shown, whatever the limit. A row
therefore has one counterpart at most, partners are each other's and of two sides
(`PartnersArePairs`), and groups of one pairing are disjoint: `OneExceptionEach`. For
`VerdictsAreDecisive`: where the list was not cut, every near row is shown and the
closest one is near too (`ClosestIsOnePartAway`); and the other row of a pair has the
same diagnosis, because a code other than E14 is always a whole diagnosis
(`CodeIsDiagnosis`). That needs a profile that names no E14 among its own codes
(`CodesAreNamed`), which `data/profiles/tds_26as.json` meets and nothing enforces.
The other assumptions are about data: the amount of a row that parses is a number,
and so is a hash (`FilesAreRows`, `HashesAreNumbers`).

**DiagnosisProofs**, the sources. `VerifiedSourcesAddUp` assumes that a document states
true figures (`FiguresAreTrue`): between two balances it says what the rows between
them moved, whether or not they can be read. That a new order or a late row leaves
them true is `FiguresInv`. The roll-forward says that the row at the end of a gap was
read as what the gap moved. Of a gap whose rows are seen, that row is the only one
that was read; and the rows of a gap are all seen or none is (`GapsAreWhole`). So
what was read of a gap is what it moved (`GapsAddUp`), and up to every balance the
gaps before it add up: the first balance of which this failed would follow one of
which it holds (`ChainAddsUp`). With a total, or an opening and a closing balance,
the sum is over the file.

**DiagnosisProofs**, the names. `NamesAreKept` compares two closes of the same rows in
two orders, record by record: the n-th row of a natural key in one file goes to the
n-th row of that key in the other, which by `AlikeByKey` says the same
(`ClassesCarried`, `SideCorresponds`). Two rows of one key keep their order; two of
different keys are ordered by the hashes, which differ (`HashesDiffer`,
`IdsAreOrdered`). The correspondence therefore keeps everything that the engine looks
at, one operator after another: the totals of groups, who contends for one and, by
`Uncontested`, who gets it (`ClaimsCarried`); the leftovers; the candidates of a row,
their order and the closest one (`CandidatesCarried`); the readings, the partners and
the exceptions (`ExceptionsCarried`). An exception and its image have one name,
because a name counts keys. A late row that agrees with nothing is the same
argument with the identity for the correspondence: it is nobody's candidate, and that its side
had a leftover before is what keeps its arrival from giving the rows of the other
side something to be compared with for the first time (`LateRowsJoinNothing`).

**DiagnosisProofs**, triage. What the properties say of results and journal holds of
every prefix that a running call has put down (`Journaled`, `Judged`); no request is
sent for a derived label, and the request in hand is the only one on the list that
was sent and not answered (`Counted`). From it `OnlyPeopleMove`, `DerivedLabelsStand`
and `AnswersAreRecorded`.

**PeopleProofs**, the accounts. `AttemptsAreBounded` for every limit and window: each attempt since
the i-th cost a window's worth of tokens, and together with what is left that is at
most a full bucket and the refill from the i-th attempt's date to the bucket's
(`AllPaid`). No clock needs to be monotonic for it. The bound is just under twice
the stated rate, and that is what the code gives: a full bucket and what refills
meanwhile pass in one window, where `throttle.py:39` and `docs/12-AUTH.md:44` speak
of five attempts in five minutes. `AccountsStay`: a sign-up under way carries every
account it was told of, and as long as no two are inside the file, what it will
write is the file and one more (`KInv`). `ReloadingHeals`: the token of the page that
came in last is the cookie's, because every page sets the cookie it was made with
(`HInv`).

**A note on reading.** TLC reads `UNION S \cap T` as `(UNION S) \cap T`, the proof
manager as `UNION (S \cap T)`; the modules put the parentheses.

**Only model-checked.** `EveryRequestAnswered` and `JobEnds`, because liveness under
fairness is out of the prover's reach. Every other property of a passing run is
stated by a theorem, for all constants that satisfy the assumptions.

## 6. Not modelled

  - Decoding of text: CSV and camt syntax, dates and decimals (`Intake` starts from
    what a cell says), JSON, HTML, beancount's own grammar.
  - A line of a log torn by a failing disk, edits of a log by hand, and NFS locks.
  - Consistency checks and the external checks of proofs: arithmetic over one
    proof, which keeps no state and which unit tests reach.
  - Prompts, layout, wording, themes, the tour; the transport of the agent's
    protocol and its tool descriptions; ranking of the worklist.
  - The passwords' hashing and the cookies' signatures: equality and a key's
    generation stand for them.
  - The stages of one close in one module: each stage is whole in its own
    (`Period`, `Governance`, `Matching`, `Breaks`, `Record`, `DecisionLog`), and what one
    hands to the next is an input there.
  - The benchmark, tools, site and infrastructure, which are not part of the
    running program.
