------------------------------- MODULE Review -------------------------------
(***************************************************************************)
(* The human half of a close (review.py, and the service functions that    *)
(* drive it): a chained, append-only log beside the sealed decision log.   *)
(* A person acknowledges an item, accepts a code for it, disposes of it    *)
(* (an entry removes its value from the close), and finally signs.         *)
(*                                                                         *)
(* Every append holds the writers' lock while it re-reads the log and      *)
(* tests for a signature, so it is one step here (JournalLock shows what   *)
(* that lock gives).  Everything ELSE a request decides, it decides from   *)
(* a log read earlier and not held: those reads are steps of their own.    *)
(*                                                                         *)
(* The close is fixed: the exceptions of its decision log, which of them   *)
(* block it, and whether its books balance.  A call without a name, a      *)
(* rationale, or (to chase) an owner and a date is refused at the door and *)
(* changes nothing, so every request here carries them.                    *)
(***************************************************************************)
EXTENDS Integers, FiniteSets, SequencesExt

CONSTANTS
    Actors,         \* requests being served: browser sessions, agents, retries
    Items,          \* the exceptions of the close (its tail)
    Blocking,       \* those the engine marked blocks_close
    Reclassifiable, \* those whose code the engine did not derive
    Bookable,       \* those whose code is promoted and names an account
    Value,          \* |amount| of each item
    Ceiling,        \* policy.write_off_ceiling
    Budget,         \* budget_for(tail, policy): fixed for the close
    BooksBlocked,   \* the close-level blockers are not empty
    Endings,        \* the dispositions that callers ask for
    None,           \* no budget applies to this ending
    MaxEvents       \* bound: length of the log

ASSUME ReviewAssumption ==
    /\ IsFiniteSet(Items)
    /\ Blocking \subseteq Items
    /\ Reclassifiable \subseteq Items
    /\ Bookable \subseteq Items
    /\ Value \in [Items -> Nat]
    /\ Ceiling \in Nat /\ Budget \in Nat
    /\ BooksBlocked \in BOOLEAN
    /\ Endings \subseteq {"book", "carry_forward", "chase", "write_off"}
    /\ None \notin Nat
    /\ MaxEvents \in Nat

VARIABLES
    log,    \* review.jsonl
    pc,     \* where each request is
    job     \* what it has decided from what it read

vars == <<log, pc, job>>

Acknowledgement(x) == [kind |-> "acknowledged", item |-> x]
Acceptance(x) == [kind |-> "accepted", item |-> x]
Disposal(a, j) ==
    [kind |-> "disposed", item |-> j.item, ending |-> j.ending, left |-> j.left, by |-> a]
Signature(n) == [kind |-> "signed_off", open |-> n]

Events ==
    [kind : {"acknowledged", "accepted"}, item : Items]
    \cup [kind : {"disposed"}, item : Items, ending : Endings,
          left : Nat \cup {None}, by : Actors]
    \cup [kind : {"signed_off"}, open : Nat]

NoJob == [kind |-> "none"]
Jobs ==
    {NoJob}
    \cup [kind : {"dispose"}, item : Items, ending : Endings, left : Nat \cup {None}]
    \cup [kind : {"sign"}, open : Nat]

TypeOK ==
    /\ log \in Seq(Events)
    /\ pc \in [Actors -> {"idle", "decided", "checked", "signing"}]
    /\ job \in [Actors -> Jobs]
    /\ \A a \in Actors :
         /\ pc[a] \in {"decided", "checked"} => job[a].kind = "dispose"
         /\ pc[a] = "signing" => job[a].kind = "sign"

Init ==
    /\ log = <<>>
    /\ pc = [a \in Actors |-> "idle"]
    /\ job = [a \in Actors |-> NoJob]
-----------------------------------------------------------------------------
(* `fold`: what the log says. *)

ItemsWith(s, kinds) == {s[i].item : i \in {j \in DOMAIN s : s[j].kind \in kinds}}
Acknowledged(s) == ItemsWith(s, {"acknowledged"})
Disposed(s) == ItemsWith(s, {"disposed"})
Signed(s) == \E i \in DOMAIN s : s[i].kind = "signed_off"

\* The running total of what is written off, of the whole log or of a part of it.
WriteOffs(s) == {i \in DOMAIN s : s[i].kind = "disposed" /\ s[i].ending = "write_off"}
Spent(s, I) == SumFunction([i \in I |-> Value[s[i].item]])
WrittenOff(s) == Spent(s, WriteOffs(s))

\* Mutant: an accepted code is taken for an item somebody has opened.
BlockersAfterAcceptance(s) ==
    Blocking \ ItemsWith(s, {"acknowledged", "disposed", "accepted"})

Blockers(s) == Blocking \ (Acknowledged(s) \cup Disposed(s))

\* Mutant: disposed items come off the count as well, whoever acknowledged them.
ExceptionsOpenLessDisposed(s) ==
    LET left == Cardinality(Items) - Cardinality(Acknowledged(s))
                  - Cardinality(Disposed(s))
    IN  IF left < 0 THEN 0 ELSE left

\* `exceptions_open` of a signature.
ExceptionsOpen(s) == Cardinality(Items) - Cardinality(Acknowledged(s))
-----------------------------------------------------------------------------
Leave(a) ==
    /\ pc' = [pc EXCEPT ![a] = "idle"]
    /\ job' = [job EXCEPT ![a] = NoJob]

Decide(a, l, j) ==
    /\ pc' = [pc EXCEPT ![a] = l]
    /\ job' = [job EXCEPT ![a] = j]
    /\ UNCHANGED log

\* Mutant: the signature is tested before the lock is taken, not under it.
RecordUntested(e) ==
    /\ Len(log) < MaxEvents
    /\ log' = Append(log, e)

\* `_append`, under the writers' lock: a signed log takes nothing more.
Record(e) ==
    /\ Len(log) < MaxEvents
    /\ ~Signed(log)
    /\ log' = Append(log, e)

Acknowledge(a, x) ==
    /\ pc[a] = "idle"
    /\ Record(Acknowledgement(x))
    /\ UNCHANGED <<pc, job>>

\* Mutant: the budget left is the one before this write-off.
BudgetBefore(x, d, spent) == IF d = "write_off" THEN Budget - spent ELSE None

\* Refused where the engine derived the code.
AcceptClassification(a, x) ==
    /\ pc[a] = "idle"
    /\ x \in Reclassifiable
    /\ Record(Acceptance(x))
    /\ UNCHANGED <<pc, job>>
-----------------------------------------------------------------------------
\* `budget_left`, recorded with the disposition.
BudgetLeft(x, d, spent) == IF d = "write_off" THEN Budget - spent - Value[x] ELSE None

\* `decide`: a write-off keeps to the ceiling and leaves the budget at zero or
\* more; booking needs a code that names an account.
Admitted(x, d, spent) ==
    /\ Value[x] > 0
    /\ d = "write_off" => Value[x] <= Ceiling /\ BudgetLeft(x, d, spent) \in Nat
    /\ d = "book" => x \in Bookable

\* service.dispose: the running total is read and the decision made from it.
DecideDisposition(a, x, d) ==
    /\ pc[a] = "idle"
    /\ Admitted(x, d, WrittenOff(log))
    /\ Decide(a, "decided",
              [kind |-> "dispose", item |-> x, ending |-> d,
               left |-> BudgetLeft(x, d, WrittenOff(log))])

\* Mutant: the second disposition of an item is not looked for.
CheckNothing(a) ==
    /\ pc[a] = "decided"
    /\ pc' = [pc EXCEPT ![a] = "checked"]
    /\ UNCHANGED <<log, job>>

\* review.dispose reads the log without a lock: an item that is already disposed
\* of is refused.
CheckDisposed(a) ==
    /\ pc[a] = "decided"
    /\ IF job[a].item \in Disposed(log)
         THEN Leave(a)
         ELSE pc' = [pc EXCEPT ![a] = "checked"] /\ UNCHANGED job
    /\ UNCHANGED log

RecordDisposition(a) ==
    /\ pc[a] = "checked"
    /\ Record(Disposal(a, job[a]))
    /\ Leave(a)
-----------------------------------------------------------------------------
\* review.sign_off: refused while the books do not balance or a blocking item
\* has not been taken.  The counts of the signature are those of this read.
DecideSignOff(a) ==
    /\ pc[a] = "idle"
    /\ ~BooksBlocked
    /\ Blockers(log) = {}
    /\ Decide(a, "signing", [kind |-> "sign", open |-> ExceptionsOpen(log)])

RecordSignOff(a) ==
    /\ pc[a] = "signing"
    /\ Record(Signature(job[a].open))
    /\ Leave(a)

\* The request ends with nothing recorded: the log is signed by now, the lock was
\* busy, or the process died.  A caller that heard no answer may ask again.
GiveUp(a) ==
    /\ pc[a] # "idle"
    /\ Leave(a)
    /\ UNCHANGED log

Next ==
    \E a \in Actors :
        \/ \E x \in Items :
             \/ Acknowledge(a, x)
             \/ AcceptClassification(a, x)
             \/ \E d \in Endings : DecideDisposition(a, x, d)
        \/ CheckDisposed(a)
        \/ RecordDisposition(a)
        \/ DecideSignOff(a)
        \/ RecordSignOff(a)
        \/ GiveUp(a)

Spec == Init /\ [][Next]_vars
-----------------------------------------------------------------------------
Taken(x, i) ==
    \E k \in 1..(i - 1) : log[k].kind \in {"acknowledged", "disposed"} /\ log[k].item = x

\* A signed log never changes again, however many requests were under way when
\* the signature landed (`_append` tests under the lock).
SignedIsFinal == [][Signed(log) => log' = log]_vars

\* Nobody signs over a blocking item that no entry before the signature took,
\* although the blockers are read outside the lock that the signature is
\* written under (`sign_off`).
SignatureCoversBlockers ==
    \A i \in DOMAIN log :
        log[i].kind = "signed_off" => \A x \in Blocking : Taken(x, i)

\* A signature never claims fewer open items than the log before it leaves open,
\* even when its count is that of an earlier read.
SignatureNeverUnderstates ==
    \A i \in DOMAIN log :
        log[i].kind = "signed_off"
          => log[i].open >= Cardinality({x \in Items : ~Taken(x, i)})

\* One request handler, however often its caller retries, disposes of an item
\* at most once: each attempt reads what the one before it recorded.
NoActorDisposesTwice ==
    \A i, k \in DOMAIN log :
        /\ log[i].kind = "disposed" /\ log[k].kind = "disposed"
        /\ log[i].item = log[k].item /\ log[i].by = log[k].by
        => i = k

\* However stale the totals they decide from, what one handler writes off stays
\* within the budget of the close (`decide`).
ActorsKeepToBudget ==
    \A a \in Actors : Spent(log, {i \in WriteOffs(log) : log[i].by = a}) <= Budget

\* The docstring of `dispose`: "Refuses a second disposition on the same item".
DisposedOnce ==
    \A i, k \in DOMAIN log :
        /\ log[i].kind = "disposed" /\ log[k].kind = "disposed"
        /\ log[i].item = log[k].item
        => i = k

=============================================================================
