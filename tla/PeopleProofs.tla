----------------------------- MODULE PeopleProofs -----------------------------
(***************************************************************************)
(* What people do to the product, proved for any number of them: first     *)
(* what Review promises of a close's log of decisions, then what Access    *)
(* promises of the accounts, the forms and the attempts.                   *)
(***************************************************************************)
EXTENDS Review, Access, Sums

-----------------------------------------------------------------------------
(***************************************************************************)
(* Proofs about Review, for any number of requests, items and events.      *)
(*                                                                         *)
(* The inductive invariant adds to the properties what a request that has  *)
(* read the log, and not yet written, still knows of it: a log only grows  *)
(* and what has been taken stays taken.                                    *)
(***************************************************************************)

TakenNow(x) == Taken(x, Len(log) + 1)
OpenNow == {x \in Items : ~TakenNow(x)}

\* A request about to sign read a log in which every blocking item was taken,
\* and counted at least the items that are open now.
SignersKnow ==
    \A a \in Actors : pc[a] = "signing" =>
        /\ \A x \in Blocking : TakenNow(x)
        /\ job[a].open >= Cardinality(OpenNow)

\* A request about to record a disposition has recorded none of that item.
DisposersKnow ==
    \A a \in Actors : pc[a] = "checked" =>
        \A i \in DOMAIN log :
            log[i].kind = "disposed" /\ log[i].item = job[a].item => log[i].by # a

IInv ==
    /\ TypeOK
    /\ SignersKnow
    /\ DisposersKnow
    /\ SignatureCoversBlockers
    /\ SignatureNeverUnderstates
    /\ NoActorDisposesTwice
-----------------------------------------------------------------------------
(* What appending an event does to the log. *)

LEMMA RecordGrows ==
    ASSUME TypeOK, NEW e \in Events, Record(e)
    PROVE  /\ log' \in Seq(Events)
           /\ Len(log) \in Nat
           /\ Len(log') = Len(log) + 1
           /\ DOMAIN log = 1..Len(log)
           /\ DOMAIN log' = 1..(Len(log) + 1)
           /\ \A i \in 1..Len(log) : log'[i] = log[i]
           /\ log'[Len(log) + 1] = e
           /\ \A i \in 1..Len(log) : log[i].kind # "signed_off"
  BY DEF TypeOK, Record, Signed

\* Items stay taken: of an entry and of the log as a whole.
LEMMA TakenStays ==
    ASSUME TypeOK, NEW e \in Events, Record(e)
    PROVE  /\ \A x \in Items, i \in 1..(Len(log) + 1) : Taken(x, i)' <=> Taken(x, i)
           /\ \A x \in Items : TakenNow(x) => TakenNow(x)'
           /\ e.kind \in {"acknowledged", "disposed"} => TakenNow(e.item)'
  <1>1. /\ Len(log) \in Nat /\ Len(log') = Len(log) + 1
        /\ \A i \in 1..Len(log) : log'[i] = log[i]
        /\ log'[Len(log) + 1] = e
    BY RecordGrows
  <1>2. ASSUME NEW x \in Items, NEW i \in 1..(Len(log) + 1)
        PROVE  Taken(x, i)' <=> Taken(x, i)
    BY <1>1 DEF Taken
  <1>3. ASSUME NEW x \in Items, TakenNow(x)
        PROVE  TakenNow(x)'
    BY <1>1, <1>3 DEF Taken, TakenNow
  <1>4. e.kind \in {"acknowledged", "disposed"} => TakenNow(e.item)'
    BY <1>1 DEF Taken, TakenNow
  <1>. QED
    BY <1>2, <1>3, <1>4

\* The open items are finitely many, and their number never grows.
LEMMA OpenShrinks ==
    ASSUME TypeOK, NEW e \in Events, Record(e)
    PROVE  /\ Cardinality(OpenNow) \in Nat /\ Cardinality(OpenNow') \in Nat
           /\ Cardinality(OpenNow') <= Cardinality(OpenNow)
  <1>1. OpenNow' \subseteq OpenNow /\ OpenNow \subseteq Items
    BY TakenStays DEF OpenNow
  <1>2. IsFiniteSet(OpenNow)
    BY <1>1, ReviewAssumption, FS_Subset
  <1>. QED
    BY <1>1, <1>2, FS_Subset, FS_CardinalityType
-----------------------------------------------------------------------------
(* What the two reads of a request find. *)

LEMMA AcknowledgedAreItems ==
    ASSUME TypeOK
    PROVE  Acknowledged(log) \subseteq Items
  <1>1. ASSUME NEW i \in DOMAIN log, log[i].kind = "acknowledged"
        PROVE  log[i].item \in Items
    <2>1. log[i] \in Events
      BY DEF TypeOK
    <2>. QED
      BY <1>1, <2>1 DEF Events
  <1>. QED
    BY <1>1 DEF Acknowledged, ItemsWith

LEMMA SignerReads ==
    ASSUME TypeOK, Blockers(log) = {}
    PROVE  /\ \A x \in Blocking : TakenNow(x)
           /\ ExceptionsOpen(log) \in Nat
           /\ ExceptionsOpen(log) >= Cardinality(OpenNow)
  <1>1. DOMAIN log = 1..Len(log) /\ Len(log) \in Nat
    BY DEF TypeOK
  <1>2. \A x \in Acknowledged(log) \cup Disposed(log) : TakenNow(x)
    BY <1>1 DEF Acknowledged, Disposed, ItemsWith, TakenNow, Taken
  <1>3. \A x \in Blocking : TakenNow(x)
    BY <1>2 DEF Blockers
  <1>4. OpenNow \subseteq Items \ Acknowledged(log)
    BY <1>2 DEF OpenNow
  <1>5. /\ IsFiniteSet(Items \ Acknowledged(log))
        /\ Cardinality(Items \ Acknowledged(log))
             = Cardinality(Items) - Cardinality(Items \cap Acknowledged(log))
    BY ReviewAssumption, FS_Difference
  <1>6. Items \cap Acknowledged(log) = Acknowledged(log)
    BY AcknowledgedAreItems
  <1>7. /\ Cardinality(Items \ Acknowledged(log)) \in Nat
        /\ Cardinality(OpenNow) \in Nat
        /\ Cardinality(OpenNow) <= Cardinality(Items \ Acknowledged(log))
    BY <1>4, <1>5, FS_Subset, FS_CardinalityType
  <1>. QED
    BY <1>3, <1>5, <1>6, <1>7 DEF ExceptionsOpen
-----------------------------------------------------------------------------
(* Type correctness. *)

LEMMA RecordedAreEvents ==
    ASSUME TypeOK
    PROVE  /\ \A x \in Items : Acknowledgement(x) \in Events /\ Acceptance(x) \in Events
           /\ \A a \in Actors : pc[a] = "checked" => Disposal(a, job[a]) \in Events
           /\ \A a \in Actors : pc[a] = "signing" => Signature(job[a].open) \in Events
  <1>1. \A x \in Items : Acknowledgement(x) \in Events /\ Acceptance(x) \in Events
    BY DEF Acknowledgement, Acceptance, Events
  <1>2. ASSUME NEW a \in Actors, pc[a] = "checked"
        PROVE  Disposal(a, job[a]) \in Events
    <2>1. /\ job[a].item \in Items /\ job[a].ending \in Endings
          /\ job[a].left \in Nat \cup {None}
      BY <1>2 DEF TypeOK, Jobs, NoJob
    <2>. QED
      BY <2>1 DEF Disposal, Events
  <1>3. ASSUME NEW a \in Actors, pc[a] = "signing"
        PROVE  Signature(job[a].open) \in Events
    <2>1. job[a].open \in Nat
      BY <1>3 DEF TypeOK, Jobs, NoJob
    <2>. QED
      BY <2>1 DEF Signature, Events
  <1>. QED
    BY <1>1, <1>2, <1>3

LEMMA NextType == TypeOK /\ [Next]_vars => TypeOK'
  <1> SUFFICES ASSUME TypeOK, [Next]_vars
               PROVE  TypeOK'
    OBVIOUS
  <1>1. ASSUME NEW a \in Actors, Leave(a)
        PROVE  /\ pc' \in [Actors -> {"idle", "decided", "checked", "signing"}]
               /\ job' \in [Actors -> Jobs]
               /\ \A b \in Actors :
                    /\ pc'[b] \in {"decided", "checked"} => job'[b].kind = "dispose"
                    /\ pc'[b] = "signing" => job'[b].kind = "sign"
    BY <1>1 DEF TypeOK, Leave, Jobs
  <1>2. ASSUME NEW a \in Actors, NEW x \in Items,
               Acknowledge(a, x) \/ AcceptClassification(a, x)
        PROVE  TypeOK'
    <2>1. log' \in Seq(Events)
      BY <1>2, RecordedAreEvents, RecordGrows DEF Acknowledge, AcceptClassification
    <2>. QED
      BY <1>2, <2>1 DEF TypeOK, Acknowledge, AcceptClassification
  <1>3. ASSUME NEW a \in Actors, NEW x \in Items, NEW d \in Endings,
               DecideDisposition(a, x, d)
        PROVE  TypeOK'
    <2> DEFINE left == BudgetLeft(x, d, WrittenOff(log))
               j == [kind |-> "dispose", item |-> x, ending |-> d, left |-> left]
    <2>1. left \in Nat \cup {None}
      BY <1>3 DEF DecideDisposition, Admitted, BudgetLeft
    <2>2. j \in Jobs /\ j.kind = "dispose"
      BY <2>1 DEF Jobs
    <2>3. Decide(a, "decided", j)
      BY <1>3 DEF DecideDisposition
    <2>. QED
      BY <2>2, <2>3 DEF TypeOK, Decide
  <1>4. ASSUME NEW a \in Actors, CheckDisposed(a)
        PROVE  TypeOK'
    BY <1>1, <1>4 DEF TypeOK, CheckDisposed
  <1>5. ASSUME NEW a \in Actors, RecordDisposition(a) \/ RecordSignOff(a)
        PROVE  TypeOK'
    <2>1. log' \in Seq(Events)
      BY <1>5, RecordedAreEvents, RecordGrows DEF RecordDisposition, RecordSignOff
    <2>. QED
      BY <1>1, <1>5, <2>1 DEF TypeOK, RecordDisposition, RecordSignOff
  <1>6. ASSUME NEW a \in Actors, DecideSignOff(a)
        PROVE  TypeOK'
    <2> DEFINE j == [kind |-> "sign", open |-> ExceptionsOpen(log)]
    <2>1. j \in Jobs /\ j.kind = "sign"
      BY <1>6, SignerReads DEF DecideSignOff, Jobs
    <2>2. Decide(a, "signing", j)
      BY <1>6 DEF DecideSignOff
    <2>. QED
      BY <2>1, <2>2 DEF TypeOK, Decide
  <1>7. ASSUME NEW a \in Actors, GiveUp(a)
        PROVE  TypeOK'
    BY <1>1, <1>7 DEF TypeOK, GiveUp
  <1>8. CASE UNCHANGED vars
    BY <1>8 DEF TypeOK, vars
  <1>. QED
    BY <1>2, <1>3, <1>4, <1>5, <1>6, <1>7, <1>8 DEF Next

LEMMA InitType == Init => TypeOK
  BY DEF Init, TypeOK, Jobs, NoJob

\* Type correctness of the review: the budget a write-off leaves is never
\* negative, a signature's count never less than zero.
THEOREM TypeCorrect == Spec => []TypeOK
  BY InitType, NextType, PTL DEF Spec
-----------------------------------------------------------------------------
(* An event is recorded.  What each kind of event adds is said by the caller. *)

LEMMA EarlierEntriesStand ==
    ASSUME IInv, NEW e \in Events, Record(e), TypeOK'
    PROVE  /\ e.kind # "signed_off" => SignatureCoversBlockers' /\ SignatureNeverUnderstates'
           /\ e.kind # "disposed" => NoActorDisposesTwice'
  <1>1. /\ Len(log) \in Nat
        /\ DOMAIN log = 1..Len(log) /\ DOMAIN log' = 1..(Len(log) + 1)
        /\ \A i \in 1..Len(log) : log'[i] = log[i]
        /\ log'[Len(log) + 1] = e
        /\ \A i \in 1..Len(log) : log[i].kind # "signed_off"
    BY RecordGrows DEF IInv
  <1>2. e.kind # "signed_off" => \A i \in DOMAIN log' : log'[i].kind # "signed_off"
    BY <1>1
  <1>3. e.kind # "disposed" => NoActorDisposesTwice'
    BY <1>1 DEF IInv, NoActorDisposesTwice
  <1>. QED
    BY <1>2, <1>3 DEF SignatureCoversBlockers, SignatureNeverUnderstates

\* What the other requests know survives the event.
LEMMA KnowledgeStays ==
    ASSUME IInv, NEW e \in Events, Record(e), NEW a \in Actors, (pc' = pc /\ job' = job) \/ Leave(a),
           e.kind = "disposed" => e.by = a /\ pc'[a] = "idle"
    PROVE  SignersKnow' /\ DisposersKnow'
  <1>1. /\ Len(log) \in Nat
        /\ DOMAIN log = 1..Len(log) /\ DOMAIN log' = 1..(Len(log) + 1)
        /\ \A i \in 1..Len(log) : log'[i] = log[i]
        /\ log'[Len(log) + 1] = e
    BY RecordGrows DEF IInv
  <1>2. \A b \in Actors : pc'[b] # "idle" => pc[b] = pc'[b] /\ job'[b] = job[b]
    BY DEF IInv, TypeOK, Leave
  <1>3. SignersKnow'
    <2> SUFFICES ASSUME NEW b \in Actors, pc'[b] = "signing"
                 PROVE  /\ \A x \in Blocking : TakenNow(x)'
                        /\ job'[b].open >= Cardinality(OpenNow')
      BY DEF SignersKnow
    <2>1. /\ \A x \in Blocking : TakenNow(x)
          /\ job[b].open >= Cardinality(OpenNow)
          /\ job'[b] = job[b]
      BY <1>2 DEF IInv, SignersKnow
    <2>2. job[b].open \in Nat
      BY <1>2 DEF IInv, TypeOK, Jobs, NoJob
    <2>3. \A x \in Blocking : TakenNow(x)'
      BY <2>1, TakenStays, ReviewAssumption DEF IInv
    <2>. QED
      BY <2>1, <2>2, <2>3, OpenShrinks DEF IInv
  <1>4. DisposersKnow'
    BY <1>1, <1>2 DEF IInv, DisposersKnow
  <1>. QED
    BY <1>3, <1>4
-----------------------------------------------------------------------------
(* The inductive invariant, action by action. *)

LEMMA AcknowledgeStep ==
    ASSUME IInv, TypeOK', NEW a \in Actors, NEW x \in Items,
           Acknowledge(a, x) \/ AcceptClassification(a, x)
    PROVE  IInv'
  <1>1. PICK e \in Events : Record(e) /\ e.kind \in {"acknowledged", "accepted"}
    BY RecordedAreEvents DEF IInv, Acknowledge, AcceptClassification, Acknowledgement, Acceptance
  <1>2. pc' = pc /\ job' = job
    BY DEF Acknowledge, AcceptClassification
  <1>. QED
    BY <1>1, <1>2, EarlierEntriesStand, KnowledgeStays DEF IInv

LEMMA RecordDispositionStep ==
    ASSUME IInv, TypeOK', NEW a \in Actors, RecordDisposition(a)
    PROVE  IInv'
  <1> DEFINE e == Disposal(a, job[a])
  <1>1. e \in Events /\ Record(e) /\ Leave(a) /\ pc[a] = "checked"
    BY RecordedAreEvents DEF IInv, RecordDisposition
  <1>2. e.kind = "disposed" /\ e.item = job[a].item /\ e.by = a
    BY DEF Disposal
  <1>3. pc'[a] = "idle"
    BY <1>1 DEF IInv, TypeOK, Leave
  <1>4. NoActorDisposesTwice'
    <2>1. /\ DOMAIN log = 1..Len(log) /\ DOMAIN log' = 1..(Len(log) + 1)
          /\ Len(log) \in Nat
          /\ \A i \in 1..Len(log) : log'[i] = log[i]
          /\ log'[Len(log) + 1] = e
      BY <1>1, RecordGrows DEF IInv
    <2>2. \A i \in 1..Len(log) :
            log[i].kind = "disposed" /\ log[i].item = e.item => log[i].by # e.by
      BY <1>1, <1>2, <2>1 DEF IInv, DisposersKnow
    <2> HIDE DEF e
    <2>. QED
      BY <2>1, <2>2 DEF IInv, NoActorDisposesTwice
  <1> HIDE DEF e
  <1>. QED
    BY <1>1, <1>2, <1>3, <1>4, EarlierEntriesStand, KnowledgeStays DEF IInv

LEMMA RecordSignOffStep ==
    ASSUME IInv, TypeOK', NEW a \in Actors, RecordSignOff(a)
    PROVE  IInv'
  <1> DEFINE e == Signature(job[a].open)
  <1>1. e \in Events /\ Record(e) /\ Leave(a) /\ pc[a] = "signing"
    BY RecordedAreEvents DEF IInv, RecordSignOff
  <1>2. e.kind = "signed_off" /\ e.open = job[a].open
    BY DEF Signature
  <1>3. /\ DOMAIN log' = 1..(Len(log) + 1) /\ Len(log) \in Nat
        /\ \A i \in 1..Len(log) : log'[i] = log[i] /\ log[i].kind # "signed_off"
        /\ log'[Len(log) + 1] = e
    BY <1>1, RecordGrows DEF IInv
  <1>4. \A i : i = Len(log) + 1 => \A x \in Items : Taken(x, i)' <=> TakenNow(x)
    BY <1>1, <1>3, TakenStays DEF IInv, TakenNow
  <1>5. \A x \in Blocking : TakenNow(x)
    BY <1>1 DEF IInv, SignersKnow
  <1>6. e.open >= Cardinality(OpenNow)
    BY <1>1, <1>2 DEF IInv, SignersKnow
  <1> HIDE DEF e
  <1>7. SignatureCoversBlockers'
    BY <1>3, <1>4, <1>5, ReviewAssumption DEF SignatureCoversBlockers
  <1>8. SignatureNeverUnderstates'
    <2> SUFFICES ASSUME NEW i \in DOMAIN log', log'[i].kind = "signed_off"
                 PROVE  log'[i].open >= Cardinality({x \in Items : ~Taken(x, i)'})
      BY DEF SignatureNeverUnderstates
    <2>1. i = Len(log) + 1 /\ log'[i].open = e.open
      BY <1>3
    <2>2. {x \in Items : ~Taken(x, i)'} = OpenNow
      BY <1>4, <2>1 DEF OpenNow
    <2>. QED
      BY <1>6, <2>1, <2>2
  <1>. QED
    BY <1>1, <1>2, <1>7, <1>8, EarlierEntriesStand, KnowledgeStays DEF IInv

\* A step that records nothing: only what the request itself knows is new.
LEMMA QuietStep ==
    ASSUME IInv, TypeOK', NEW a \in Actors, log' = log,
           \A b \in Actors \ {a} : pc'[b] = pc[b] /\ job'[b] = job[b],
           pc'[a] = "signing" =>
               /\ \A x \in Blocking : TakenNow(x)
               /\ job'[a].open >= Cardinality(OpenNow),
           pc'[a] = "checked" =>
               \A i \in DOMAIN log :
                   log[i].kind = "disposed" /\ log[i].item = job'[a].item => log[i].by # a
    PROVE  IInv'
  <1>1. \A x, i : Taken(x, i)' <=> Taken(x, i)
    BY DEF Taken
  <1>2. OpenNow' = OpenNow /\ \A x \in Blocking : TakenNow(x)' <=> TakenNow(x)
    BY <1>1 DEF OpenNow, TakenNow
  <1>3. SignersKnow'
    BY <1>2 DEF IInv, SignersKnow
  <1>4. DisposersKnow'
    BY DEF IInv, DisposersKnow
  <1>5. SignatureCoversBlockers' /\ NoActorDisposesTwice'
    BY <1>1 DEF IInv, SignatureCoversBlockers, NoActorDisposesTwice
  <1>6. SignatureNeverUnderstates'
    <2>1. \A i : {x \in Items : ~Taken(x, i)'} = {x \in Items : ~Taken(x, i)}
      BY <1>1
    <2>. QED
      BY <2>1 DEF IInv, SignatureNeverUnderstates
  <1>. QED
    BY <1>3, <1>4, <1>5, <1>6 DEF IInv

LEMMA DecideStep ==
    ASSUME IInv, TypeOK', NEW a \in Actors,
           \/ \E x \in Items, d \in Endings : DecideDisposition(a, x, d)
           \/ DecideSignOff(a)
    PROVE  IInv'
  <1>1. CASE \E x \in Items, d \in Endings : DecideDisposition(a, x, d)
    <2>1. /\ log' = log
          /\ \A b \in Actors \ {a} : pc'[b] = pc[b] /\ job'[b] = job[b]
          /\ pc'[a] = "decided"
      BY <1>1 DEF DecideDisposition, Decide, IInv, TypeOK
    <2>. QED
      BY <2>1, QuietStep
  <1>2. CASE DecideSignOff(a)
    <2>1. /\ \A x \in Blocking : TakenNow(x)
          /\ ExceptionsOpen(log) >= Cardinality(OpenNow)
      BY <1>2, SignerReads DEF IInv, DecideSignOff
    <2>2. /\ log' = log
          /\ \A b \in Actors \ {a} : pc'[b] = pc[b] /\ job'[b] = job[b]
          /\ pc'[a] = "signing" /\ job'[a].open = ExceptionsOpen(log)
      BY <1>2 DEF DecideSignOff, Decide, IInv, TypeOK
    <2>. QED
      BY <2>1, <2>2, QuietStep
  <1>. QED
    BY <1>1, <1>2

LEMMA OtherStep ==
    ASSUME IInv, TypeOK', NEW a \in Actors, CheckDisposed(a) \/ GiveUp(a)
    PROVE  IInv'
  <1>1. /\ log' = log
        /\ \A b \in Actors \ {a} : pc'[b] = pc[b] /\ job'[b] = job[b]
        /\ pc'[a] # "signing"
    BY DEF IInv, TypeOK, CheckDisposed, GiveUp, Leave
  <1>2. ASSUME pc'[a] = "checked"
        PROVE  job'[a] = job[a] /\ job[a].item \notin Disposed(log)
    BY <1>2 DEF IInv, TypeOK, CheckDisposed, GiveUp, Leave
  <1>3. ASSUME pc'[a] = "checked", NEW i \in DOMAIN log,
               log[i].kind = "disposed", log[i].item = job'[a].item
        PROVE  FALSE
    BY <1>2, <1>3 DEF Disposed, ItemsWith
  <1>. QED
    BY <1>1, <1>3, QuietStep

LEMMA StutterStep ==
    ASSUME IInv, TypeOK', UNCHANGED vars
    PROVE  IInv'
  <1>1. \A x, i : Taken(x, i)' <=> Taken(x, i)
    BY DEF Taken, vars
  <1>2. \A i : {x \in Items : ~Taken(x, i)'} = {x \in Items : ~Taken(x, i)}
    BY <1>1
  <1>3. OpenNow' = OpenNow /\ \A x \in Blocking : TakenNow(x)' <=> TakenNow(x)
    BY <1>1 DEF OpenNow, TakenNow, vars
  <1>4. SignatureNeverUnderstates'
    BY <1>2 DEF vars, IInv, SignatureNeverUnderstates
  <1>5. SignatureCoversBlockers'
    BY <1>1 DEF vars, IInv, SignatureCoversBlockers
  <1>. QED
    BY <1>3, <1>4, <1>5 DEF vars, IInv, SignersKnow, DisposersKnow, NoActorDisposesTwice

LEMMA InitInv == Init => IInv
  BY InitType DEF Init, IInv, SignersKnow, DisposersKnow, SignatureCoversBlockers,
                  SignatureNeverUnderstates, NoActorDisposesTwice

LEMMA StepInv == IInv /\ [Next]_vars => IInv'
  <1> SUFFICES ASSUME IInv, [Next]_vars
               PROVE  IInv'
    OBVIOUS
  <1>1. TypeOK'
    BY NextType DEF IInv
  <1>2. CASE UNCHANGED vars
    BY <1>1, <1>2, StutterStep
  <1>3. CASE Next
    <2>1. PICK a \in Actors :
            \/ \E x \in Items : Acknowledge(a, x) \/ AcceptClassification(a, x)
            \/ \E x \in Items, d \in Endings : DecideDisposition(a, x, d)
            \/ CheckDisposed(a) \/ RecordDisposition(a)
            \/ DecideSignOff(a) \/ RecordSignOff(a) \/ GiveUp(a)
      BY <1>3 DEF Next
    <2>. QED
      BY <1>1, <2>1, AcknowledgeStep, DecideStep, OtherStep, RecordDispositionStep,
         RecordSignOffStep
  <1>. QED
    BY <1>2, <1>3

THEOREM Invariance == Spec => []IInv
  BY InitInv, StepInv, PTL DEF Spec
-----------------------------------------------------------------------------
\* Every blocking item of a signed close was acknowledged or disposed of before
\* the signature, although `sign_off` reads the blockers outside the lock.
THEOREM SignaturesCover == Spec => []SignatureCoversBlockers
  BY Invariance, PTL DEF IInv

\* The count in a signature is never below what the log leaves open.
THEOREM SignaturesAdmit == Spec => []SignatureNeverUnderstates
  BY Invariance, PTL DEF IInv

\* A request handler that retries never disposes of an item twice.
THEOREM RetriesAreSafe == Spec => []NoActorDisposesTwice
  BY Invariance, PTL DEF IInv

\* Nothing is ever added to a signed log, by any interleaving of requests.
THEOREM SignatureEnds == Spec => SignedIsFinal
  <1>1. [Next]_vars => [Signed(log) => log' = log]_vars
    BY DEF Next, vars, Acknowledge, AcceptClassification, DecideDisposition, Decide,
           CheckDisposed, RecordDisposition, DecideSignOff, RecordSignOff, GiveUp, Record
  <1>. QED
    BY <1>1, PTL DEF Spec, SignedIsFinal
-----------------------------------------------------------------------------
(* The budget.  Each request decides from a total that may be stale, but it  *)
(* has seen everything that it recorded itself.                              *)

Own(a) == {i \in WriteOffs(log) : log[i].by = a}

OwnWithin == \A a \in Actors : Spent(log, Own(a)) <= Budget
PlansWithin ==
    \A a \in Actors :
        pc[a] \in {"decided", "checked"} /\ job[a].ending = "write_off"
          => Spent(log, Own(a)) + Value[job[a].item] <= Budget
BInv == OwnWithin /\ PlansWithin

LEMMA WriteOffsAre ==
    ASSUME TypeOK
    PROVE  /\ IsFiniteSet(WriteOffs(log)) /\ WriteOffs(log) \subseteq 1..Len(log)
           /\ \A i \in WriteOffs(log) : Value[log[i].item] \in Nat
  <1>1. DOMAIN log = 1..Len(log) /\ Len(log) \in Nat /\ \A i \in DOMAIN log : log[i] \in Events
    BY DEF TypeOK
  <1>2. \A e \in Events : e.kind = "disposed" => e.item \in Items
    BY DEF Events
  <1>3. \A i \in WriteOffs(log) : Value[log[i].item] \in Nat
    BY <1>1, <1>2, ReviewAssumption DEF WriteOffs
  <1>4. IsFiniteSet(1..Len(log)) /\ WriteOffs(log) \subseteq 1..Len(log)
    BY <1>1, FS_Interval DEF WriteOffs
  <1>. QED
    BY <1>3, <1>4, FS_Subset

\* A total is a sum, and that of a part is no more than the whole.
LEMMA SpentIs ==
    ASSUME TypeOK, NEW J \in SUBSET WriteOffs(log)
    PROVE  /\ IsFiniteSet(J) /\ Spent(log, J) \in Nat /\ WrittenOff(log) \in Nat
           /\ Spent(log, J) <= WrittenOff(log)
  <1> DEFINE T == WriteOffs(log)
             f == [i \in T |-> Value[log[i].item]]
             h == [i \in J |-> Value[log[i].item]]
  <1>1. IsFiniteSet(T) /\ IsFiniteSet(J) /\ \A i \in T : f[i] \in Nat
    BY WriteOffsAre, FS_Subset
  <1>2. WrittenOff(log) = SumFunctionOnSet(f, T) /\ Spent(log, J) = SumFunctionOnSet(h, J)
    BY DEF WrittenOff, Spent, SumFunction
  <1>3. \A i \in J : f[i] \in Int /\ h[i] = f[i]
    BY <1>1
  <1> HIDE DEF T, f, h
  <1>4. SumFunctionOnSet(f, J) = SumFunctionOnSet(h, J)
    BY <1>1, <1>3, SameTerms
  <1>5. J \in SUBSET T
    BY DEF T
  <1>6. /\ SumFunctionOnSet(f, J) \in Nat /\ SumFunctionOnSet(f, T) \in Nat
        /\ SumFunctionOnSet(f, J) <= SumFunctionOnSet(f, T)
    BY <1>1, <1>5, PartOfSum
  <1>. QED
    BY <1>1, <1>2, <1>4, <1>6

\* What a request has spent changes only when it records a write-off.
LEMMA SpentAfter ==
    ASSUME TypeOK, NEW e \in Events, Record(e), NEW a \in Actors
    PROVE  Spent(log, Own(a))' =
             IF e.kind = "disposed" /\ e.ending = "write_off" /\ e.by = a
               THEN Spent(log, Own(a)) + Value[e.item]
               ELSE Spent(log, Own(a))
  <1> DEFINE n == Len(log) + 1
             J == Own(a)
             K == Own(a)'
             f == [i \in J |-> Value[log[i].item]]
             h == [i \in K |-> Value[log'[i].item]]
             mine == e.kind = "disposed" /\ e.ending = "write_off" /\ e.by = a
  <1>1. /\ Len(log) \in Nat /\ DOMAIN log = 1..Len(log) /\ DOMAIN log' = 1..n
        /\ \A i \in 1..Len(log) : log'[i] = log[i]
        /\ log'[n] = e
    BY RecordGrows
  <1>2. n \notin 1..Len(log) /\ \A i \in 1..n : i \in 1..Len(log) \/ i = n
    BY <1>1
  <1>3. J \in SUBSET WriteOffs(log) /\ J \subseteq 1..Len(log) /\ n \notin J
    BY <1>1, <1>2 DEF Own, WriteOffs
  <1>4. /\ IsFiniteSet(J) /\ \A i \in J : Value[log[i].item] \in Nat
    BY <1>3, SpentIs, WriteOffsAre
  <1>5. K = IF mine THEN J \cup {n} ELSE J
    BY <1>1, <1>2 DEF Own, WriteOffs
  <1>6. Spent(log, J) = SumFunctionOnSet(f, J)
    BY DEF Spent, SumFunction
  <1>7. Spent(log, Own(a))' = SumFunctionOnSet(h, K)
    BY DEF Spent, SumFunction
  <1>8. \A i \in J : i \in K /\ f[i] \in Int /\ h[i] = f[i]
    BY <1>1, <1>3, <1>4, <1>5
  <1>9. mine => n \in K /\ h[n] = Value[e.item] /\ Value[e.item] \in Int
    <2>1. mine => e.item \in Items
      BY DEF Events
    <2>. QED
      BY <1>1, <1>5, <2>1, ReviewAssumption
  <1> HIDE DEF n, J, K, f, h
  <1>10. SumFunctionOnSet(f, J) = SumFunctionOnSet(h, J)
    BY <1>4, <1>8, SameTerms
  <1>11. CASE mine
    <2>1. K = J \cup {n} /\ K \ {n} = J
      BY <1>3, <1>5, <1>11
    <2>2. IsFiniteSet(K)
      BY <1>4, <2>1, FS_AddElement
    <2>3. \A i \in K : h[i] \in Int
      BY <1>8, <1>9, <1>11, <2>1
    <2>4. n \in K /\ SumFunctionOnSet(h, K) = h[n] + SumFunctionOnSet(h, K \ {n})
      BY <2>1, <2>2, <2>3, SumSplits
    <2>5. SumFunctionOnSet(h, J) \in Int
      BY <1>4, <1>8, SumSplits
    <2>6. Spent(log, Own(a))' = Value[e.item] + SumFunctionOnSet(h, J)
      BY <1>7, <1>9, <1>11, <2>1, <2>4
    <2>7. Spent(log, Own(a)) = SumFunctionOnSet(h, J)
      BY <1>6, <1>10 DEF J
    <2>8. Spent(log, Own(a))' = Spent(log, Own(a)) + Value[e.item]
      BY <1>9, <1>11, <2>5, <2>6, <2>7
    <2>. QED
      BY <1>11, <2>8
  <1>12. CASE ~mine
    BY <1>5, <1>6, <1>7, <1>10, <1>12 DEF J
  <1>. QED
    BY <1>11, <1>12

LEMMA BudgetRecorded ==
    ASSUME TypeOK, BInv, NEW a \in Actors, NEW e \in Events, Record(e),
           (pc' = pc /\ job' = job) \/ Leave(a),
           e.kind = "disposed" =>
             /\ e.by = a /\ pc[a] = "checked" /\ Leave(a)
             /\ e.item = job[a].item /\ e.ending = job[a].ending
    PROVE  BInv'
  <1> SUFFICES ASSUME NEW b \in Actors
               PROVE  /\ Spent(log, Own(b))' <= Budget
                      /\ pc'[b] \in {"decided", "checked"} /\ job'[b].ending = "write_off"
                           => Spent(log, Own(b))' + Value[job'[b].item] <= Budget
    BY DEF BInv, OwnWithin, PlansWithin
  <1>1. /\ Spent(log, Own(b)) <= Budget
        /\ pc[b] \in {"decided", "checked"} /\ job[b].ending = "write_off"
             => Spent(log, Own(b)) + Value[job[b].item] <= Budget
    BY DEF BInv, OwnWithin, PlansWithin
  <1>2. pc'[b] # "idle" => pc'[b] = pc[b] /\ job'[b] = job[b]
    BY DEF TypeOK, Leave
  <1>3. CASE e.kind = "disposed" /\ e.ending = "write_off" /\ e.by = b
    <2>1. b = a /\ pc'[b] = "idle"
      BY <1>3 DEF TypeOK, Leave
    <2>2. Spent(log, Own(b))' = Spent(log, Own(b)) + Value[job[b].item]
      BY <1>3, <2>1, SpentAfter
    <2>. QED
      BY <1>1, <1>3, <2>1, <2>2
  <1>4. CASE ~(e.kind = "disposed" /\ e.ending = "write_off" /\ e.by = b)
    <2>1. Spent(log, Own(b))' = Spent(log, Own(b))
      BY <1>4, SpentAfter
    <2>. QED
      BY <1>1, <1>2, <2>1
  <1>. QED
    BY <1>3, <1>4

\* A step that records nothing, and plans no write-off beyond the budget.
LEMMA BudgetQuiet ==
    ASSUME BInv, log' = log,
           \A b \in Actors :
             pc'[b] \in {"decided", "checked"} /\ job'[b].ending = "write_off" =>
               \/ pc[b] \in {"decided", "checked"} /\ job'[b] = job[b]
               \/ Spent(log, Own(b)) + Value[job'[b].item] <= Budget
    PROVE  BInv'
  <1>1. \A b : Own(b)' = Own(b)
    BY DEF Own, WriteOffs
  <1>2. \A b : Spent(log, Own(b))' = Spent(log, Own(b))
    BY <1>1 DEF Spent
  <1>. QED
    BY <1>2 DEF BInv, OwnWithin, PlansWithin

LEMMA BudgetStep == TypeOK /\ BInv /\ [Next]_vars => BInv'
  <1> SUFFICES ASSUME TypeOK, BInv, [Next]_vars
               PROVE  BInv'
    OBVIOUS
  <1>1. CASE UNCHANGED vars
    BY <1>1, BudgetQuiet DEF vars
  <1>2. ASSUME NEW a \in Actors, NEW x \in Items, Acknowledge(a, x) \/ AcceptClassification(a, x)
        PROVE  BInv'
    <2>1. PICK e \in Events : Record(e) /\ e.kind \in {"acknowledged", "accepted"}
      BY <1>2, RecordedAreEvents DEF Acknowledge, AcceptClassification, Acknowledgement, Acceptance
    <2>2. pc' = pc /\ job' = job
      BY <1>2 DEF Acknowledge, AcceptClassification
    <2>. QED
      BY <2>1, <2>2, BudgetRecorded
  <1>3. ASSUME NEW a \in Actors, NEW x \in Items, NEW d \in Endings, DecideDisposition(a, x, d)
        PROVE  BInv'
    <2>1. /\ log' = log
          /\ \A b \in Actors \ {a} : pc'[b] = pc[b] /\ job'[b] = job[b]
          /\ job'[a].item = x /\ job'[a].ending = d
      BY <1>3 DEF DecideDisposition, Decide, TypeOK
    <2>2. d = "write_off" => Spent(log, Own(a)) + Value[x] <= Budget
      <3>1. Own(a) \in SUBSET WriteOffs(log)
        BY DEF Own
      <3>2. Spent(log, Own(a)) \in Nat /\ WrittenOff(log) \in Nat
            /\ Spent(log, Own(a)) <= WrittenOff(log)
        BY <3>1, SpentIs
      <3>3. Value[x] \in Nat /\ Budget \in Nat
        BY ReviewAssumption
      <3>4. d = "write_off" => Budget - WrittenOff(log) - Value[x] \in Nat
        BY <1>3 DEF DecideDisposition, Admitted, BudgetLeft
      <3>5. \A p, q, v, w \in Nat : p <= q /\ w - q - v \in Nat => p + v <= w
        OBVIOUS
      <3>. QED
        BY <3>2, <3>3, <3>4, <3>5
    <2>. QED
      BY <2>1, <2>2, BudgetQuiet
  <1>4. ASSUME NEW a \in Actors, CheckDisposed(a) \/ GiveUp(a) \/ DecideSignOff(a)
        PROVE  BInv'
    <2>1. /\ log' = log
          /\ \A b \in Actors \ {a} : pc'[b] = pc[b] /\ job'[b] = job[b]
          /\ pc'[a] \in {"decided", "checked"} => pc[a] = "decided" /\ job'[a] = job[a]
      BY <1>4 DEF CheckDisposed, GiveUp, DecideSignOff, Decide, Leave, TypeOK
    <2>. QED
      BY <2>1, BudgetQuiet
  <1>5. ASSUME NEW a \in Actors, RecordDisposition(a)
        PROVE  BInv'
    <2> DEFINE e == Disposal(a, job[a])
    <2>1. e \in Events /\ Record(e) /\ Leave(a) /\ pc[a] = "checked"
      BY <1>5, RecordedAreEvents DEF RecordDisposition
    <2>2. e.kind = "disposed" /\ e.item = job[a].item /\ e.ending = job[a].ending /\ e.by = a
      BY DEF Disposal
    <2> HIDE DEF e
    <2>. QED
      BY <2>1, <2>2, BudgetRecorded
  <1>6. ASSUME NEW a \in Actors, RecordSignOff(a)
        PROVE  BInv'
    <2> DEFINE e == Signature(job[a].open)
    <2>1. e \in Events /\ Record(e) /\ Leave(a)
      BY <1>6, RecordedAreEvents DEF RecordSignOff
    <2>2. e.kind = "signed_off"
      BY DEF Signature
    <2> HIDE DEF e
    <2>. QED
      BY <2>1, <2>2, BudgetRecorded
  <1>. QED
    BY <1>1, <1>2, <1>3, <1>4, <1>5, <1>6 DEF Next

LEMMA BudgetInit == Init => BInv
  <1> SUFFICES ASSUME Init
               PROVE  BInv
    OBVIOUS
  <1>1. \A a : Own(a) = {}
    BY DEF Init, Own, WriteOffs
  <1>2. Spent(log, {}) = 0
    <2> DEFINE f == [i \in {} |-> Value[log[i].item]]
    <2>1. Spent(log, {}) = SumFunctionOnSet(f, {})
      BY DEF Spent, SumFunction
    <2> HIDE DEF f
    <2>. QED
      BY <2>1, FS_EmptySet, SumSplits
  <1>3. 0 <= Budget
    BY ReviewAssumption
  <1>4. \A a : Spent(log, Own(a)) <= Budget
    BY <1>1, <1>2, <1>3
  <1>5. \A a \in Actors : pc[a] = "idle"
    BY DEF Init
  <1>. QED
    BY <1>4, <1>5 DEF BInv, OwnWithin, PlansWithin

\* However stale the total that a write-off is decided from, and however often it
\* is retried, what one request handler writes off stays within the budget.
THEOREM HandlersKeepToBudget == Spec => []ActorsKeepToBudget
  <1>1. Spec => []TypeOK
    BY TypeCorrect
  <1>2. Spec => []BInv
    BY <1>1, BudgetInit, BudgetStep, PTL DEF Spec
  <1>3. BInv => ActorsKeepToBudget
    BY DEF BInv, OwnWithin, Own, ActorsKeepToBudget
  <1>. QED
    BY <1>2, <1>3, PTL

-----------------------------------------------------------------------------
(***************************************************************************)
(* Three things hold however many requests are served at once, whenever    *)
(* the server dies: attempts are bounded, accounts are kept unless two     *)
(* sign-ups met inside the file, and a page that was just loaded has a     *)
(* form that will be taken.                                                *)
(*                                                                         *)
(* The bound holds for every limit, in whatever order dates enter the      *)
(* throttle.  It is not inductive: it does not say what the bucket holds.  *)
(* Paid does.  Every attempt since the i-th cost `window`; together with   *)
(* the tokens left, that is at most a full bucket and the refill from the  *)
(* i-th attempt's date to the bucket's.  No clock needs to be monotonic    *)
(* for it: a date in the past takes back as much refill as it later gives. *)
(***************************************************************************)

\* The requests that are about to enter the throttle have a date.
Dated ==
    /\ clock \in Nat
    /\ DOMAIN wire = Tabs
    /\ \A t \in Tabs :
        /\ "stage" \in DOMAIN wire[t]
        /\ wire[t].stage = "dated" => wire[t].moment \in Int

\* What n attempts cost and what a stretch of time refills, in units of a token.
Cost(n, b) == n * Limit[b].window
Refill(d, b) == d * Limit[b].tokens

\* What the attempts p cost, up to the last and between any two.
Paid(b, k, p) ==
    /\ p \in Seq(Int)
    /\ k = Absent => p = <<>>
    /\ k # Absent =>
        /\ k \in [tokens : Int, last : Int]
        /\ k.tokens <= Full(b)
        /\ \A i \in 1..Len(p) :
            Cost(Len(p) - i + 1, b) + k.tokens <= Full(b) + Refill(k.last - p[i], b)
    /\ \A i, j \in 1..Len(p) : i <= j =>
        Cost(j - i + 1, b) <= Full(b) + Refill(p[j] - p[i], b)

AllPaid ==
    /\ DOMAIN bucket = Buckets
    /\ DOMAIN passed = Buckets
    /\ \A b \in Buckets : Paid(b, bucket[b], passed[b])

TInv == Dated /\ AllPaid

-----------------------------------------------------------------------------
(* Arithmetic: the only place where two unknowns are multiplied.             *)

LEMMA LimitType ==
    ASSUME NEW b \in Buckets
    PROVE  Limit[b].tokens \in Nat \ {0} /\ Limit[b].window \in Nat \ {0}
BY AccessAssumption

LEMMA Distribute ==
    ASSUME NEW x \in Int, NEW y \in Int, NEW z \in Int
    PROVE  x * z \in Int /\ y * z \in Int /\ (x + y) * z = x * z + y * z
OBVIOUS

LEMMA Costs ==
    ASSUME NEW b \in Buckets, NEW n \in Int
    PROVE  /\ Cost(n, b) \in Int
           /\ Cost(n + 1, b) = Cost(n, b) + Limit[b].window
           /\ Cost(1, b) = Limit[b].window
<1> DEFINE W == Limit[b].window
<1>1. W \in Int
    BY LimitType
<1> HIDE DEF W
<1>2. n * W \in Int /\ (n + 1) * W = n * W + W /\ 1 * W = W
    BY <1>1
<1> QED BY <1>2 DEF Cost, W

LEMMA Refills ==
    ASSUME NEW b \in Buckets, NEW d \in Int, NEW e \in Int
    PROVE  /\ Refill(d, b) \in Int
           /\ Refill(d + e, b) = Refill(d, b) + Refill(e, b)
           /\ Refill(0, b) = 0
<1> DEFINE P == Limit[b].tokens
<1>1. P \in Int
    BY LimitType
<1> HIDE DEF P
<1>2. d * P \in Int /\ (d + e) * P = d * P + e * P /\ 0 * P = 0
    BY <1>1, Distribute
<1> QED BY <1>2 DEF Refill, P

LEMMA FullType ==
    ASSUME NEW b \in Buckets
    PROVE  Full(b) \in Int /\ Limit[b].window <= Full(b)
<1> DEFINE P == Limit[b].tokens
           W == Limit[b].window
           x == P - 1
<1>1. x \in Nat /\ W \in Nat /\ P = x + 1
    BY LimitType
<1> HIDE DEF P, W, x
<1>2. x * W \in Nat
    BY <1>1
<1>3. (x + 1) * W = x * W + W
    BY <1>1
<1>4. P * W \in Int /\ W <= P * W
    BY <1>1, <1>2, <1>3
<1> QED BY <1>4 DEF Full, P, W

\* A window's worth of refill is less than a full bucket.
LEMMA InWindow ==
    ASSUME NEW P \in Nat \ {0}, NEW W \in Nat \ {0}, NEW d \in Int, NEW n \in Int,
           d < W, n * W <= P * W + d * P
    PROVE  n < 2 * P
<1>1. d * P < W * P
    <2> DEFINE x == W - d - 1
    <2>1. x \in Nat /\ W = d + (x + 1)
        OBVIOUS
    <2> HIDE DEF x
    <2>2. x * P \in Nat
        BY <2>1
    <2>3. (d + (x + 1)) * P = d * P + x * P + P
        BY <2>1
    <2>4. d * P \in Int /\ W * P = d * P + x * P + P
        BY <2>1, <2>3
    <2> QED BY <2>2, <2>4
<1>2. SUFFICES ASSUME n >= 2 * P PROVE FALSE
    OBVIOUS
<1>3. n * W >= 2 * (P * W)
    <2> DEFINE y == n - 2 * P
    <2>1. y \in Nat /\ n = 2 * P + y
        BY <1>2
    <2> HIDE DEF y
    <2>2. y * W \in Nat
        BY <2>1
    <2>3. (2 * P + y) * W = 2 * (P * W) + y * W
        BY <2>1
    <2>4. n * W = 2 * (P * W) + y * W /\ P * W \in Int
        BY <2>1, <2>3
    <2> QED BY <2>2, <2>4
<1>4. W * P = P * W /\ P * W \in Int /\ d * P \in Int /\ n * W \in Int
    OBVIOUS
<1> QED BY <1>1, <1>3, <1>4

-----------------------------------------------------------------------------
(* The steps of the throttle.                                                *)

\* A bucket that is refilled, up to its size, has as much paid for as before.
LEMMA Refilling ==
    ASSUME NEW b \in Buckets, NEW moment \in Int, Paid(b, bucket[b], passed[b]),
           bucket[b] # Absent
    PROVE  /\ Refilled(b, moment) \in Int
           /\ Refilled(b, moment) <= Full(b)
           /\ \A i \in 1..Len(passed[b]) :
                Cost(Len(passed[b]) - i + 1, b) + Refilled(b, moment)
                    <= Full(b) + Refill(moment - passed[b][i], b)
<1> DEFINE p == passed[b]
           last == bucket[b].last
           tokens == bucket[b].tokens
           n == tokens + Refill(moment - last, b)
<1>1. p \in Seq(Int) /\ last \in Int /\ tokens \in Int
    BY DEF Paid
<1>2. Refill(moment - last, b) \in Int /\ Full(b) \in Int
    BY <1>1, Refills, FullType
<1>3. n \in Int
    BY <1>1, <1>2
<1>4. Refilled(b, moment) = IF n > Full(b) THEN Full(b) ELSE n
    BY DEF Refilled, Capped, Refill
<1>5. Refilled(b, moment) \in Int /\ Refilled(b, moment) <= Full(b) /\ Refilled(b, moment) <= n
    BY <1>2, <1>3, <1>4
<1>6. ASSUME NEW i \in 1..Len(p)
      PROVE  Cost(Len(p) - i + 1, b) + Refilled(b, moment) <= Full(b) + Refill(moment - p[i], b)
    <2>1. p[i] \in Int /\ Len(p) - i + 1 \in Int
        BY <1>1
    <2>2. Cost(Len(p) - i + 1, b) + tokens <= Full(b) + Refill(last - p[i], b)
        BY DEF Paid
    <2>3. /\ Refill(last - p[i], b) \in Int
          /\ Refill((last - p[i]) + (moment - last), b)
                = Refill(last - p[i], b) + Refill(moment - last, b)
        <3> DEFINE x == last - p[i]
                   y == moment - last
        <3>1. x \in Int /\ y \in Int
            BY <1>1, <2>1
        <3> HIDE DEF x, y
        <3>2. Refill(x, b) \in Int /\ Refill(x + y, b) = Refill(x, b) + Refill(y, b)
            BY <3>1, Refills
        <3> QED BY <3>2 DEF x, y
    <2>4. (last - p[i]) + (moment - last) = moment - p[i]
        BY <1>1, <2>1
    <2>5. Cost(Len(p) - i + 1, b) \in Int
        BY <2>1, Costs
    <2> HIDE DEF p, last, tokens
    <2> QED BY <1>1, <1>2, <1>5, <2>2, <2>3, <2>4, <2>5
<1> QED BY <1>5, <1>6

\* Spending leaves everything paid for.
LEMMA Spending ==
    ASSUME NEW b \in Buckets, NEW moment \in Int, NEW tokens \in Int,
           NEW p \in Seq(Int),
           Limit[b].window <= tokens, tokens <= Full(b),
           \A i, j \in 1..Len(p) : i <= j =>
                Cost(j - i + 1, b) <= Full(b) + Refill(p[j] - p[i], b),
           \A i \in 1..Len(p) :
                Cost(Len(p) - i + 1, b) + tokens <= Full(b) + Refill(moment - p[i], b)
    PROVE  Paid(b, [tokens |-> tokens - Limit[b].window, last |-> moment], Append(p, moment))
<1> DEFINE W == Limit[b].window
           q == Append(p, moment)
           k == [tokens |-> tokens - W, last |-> moment]
<1>1. W \in Nat /\ Full(b) \in Int
    BY LimitType, FullType
<1>2. /\ q \in Seq(Int) /\ Len(q) = Len(p) + 1 /\ Len(p) \in Nat
      /\ q[Len(q)] = moment
      /\ \A i \in 1..Len(p) : q[i] = p[i]
    OBVIOUS
<1>3. /\ k \in [tokens : Int, last : Int] /\ k.tokens = tokens - W /\ k.last = moment
      /\ k.tokens >= 0 /\ k.tokens <= Full(b)
    BY <1>1
<1> HIDE DEF k, q, W
<1>4. ASSUME NEW i \in 1..Len(q)
      PROVE  Cost(Len(q) - i + 1, b) + k.tokens <= Full(b) + Refill(moment - q[i], b)
    <2>1. CASE i \in 1..Len(p)
        <3>1. Cost(Len(p) - i + 1, b) + tokens <= Full(b) + Refill(moment - p[i], b)
            BY <2>1
        <3>2. /\ Len(p) - i + 1 \in Int /\ moment - p[i] \in Int
              /\ Len(q) - i + 1 = (Len(p) - i + 1) + 1
            <4>1. i \in Int /\ Len(p) \in Nat /\ Len(q) = Len(p) + 1 /\ moment \in Int
                BY <1>2, <2>1
            <4>2. p[i] \in Int
                BY <2>1
            <4> QED BY ONLY <4>1, <4>2
        <3>3. /\ Cost(Len(p) - i + 1, b) \in Int
              /\ Cost(Len(q) - i + 1, b) = Cost(Len(p) - i + 1, b) + W
              /\ Refill(moment - p[i], b) \in Int
            BY <3>2, Costs, Refills DEF W
        <3>4. q[i] = p[i]
            BY <1>2, <2>1
        <3> QED BY <1>1, <1>3, <3>1, <3>3, <3>4
    <2>2. CASE i = Len(q)
        <3>1. Len(q) - i + 1 = 1 /\ moment - q[i] = 0
            BY <1>2, <2>2
        <3>2. Cost(1, b) = W /\ Refill(0, b) = 0
            BY Costs, Refills DEF W
        <3> QED BY <1>1, <1>3, <3>1, <3>2
    <2> QED BY <1>2, <2>1, <2>2
<1>5. ASSUME NEW i \in 1..Len(q), NEW j \in 1..Len(q), i <= j
      PROVE  Cost(j - i + 1, b) <= Full(b) + Refill(q[j] - q[i], b)
    <2>1. CASE j \in 1..Len(p)
        <3>1. i \in Int /\ j \in Int /\ 1 <= i /\ i <= j /\ j <= Len(p)
            BY <1>2, <1>5, <2>1
        <3>2. i \in 1..Len(p)
            BY <1>2, <3>1
        <3>3. q[i] = p[i] /\ q[j] = p[j]
            BY <1>2, <2>1, <3>2
        <3> QED BY <1>5, <2>1, <3>2, <3>3
    <2>2. CASE j = Len(q)
        <3>1. Cost(j - i + 1, b) + k.tokens <= Full(b) + Refill(q[j] - q[i], b)
            BY <1>2, <1>4, <2>2
        <3>2. j - i + 1 \in Int /\ q[j] - q[i] \in Int
            BY <1>2
        <3>3. Cost(j - i + 1, b) \in Int /\ Refill(q[j] - q[i], b) \in Int
            BY <3>2, Costs, Refills
        <3> QED BY <1>1, <1>3, <3>1, <3>3
    <2> QED BY <1>2, <2>1, <2>2
<1>6. k # Absent
    BY <1>3, AccessAssumption
<1>7. Paid(b, k, q)
    BY <1>2, <1>3, <1>4, <1>5, <1>6 DEF Paid
<1> QED BY <1>7 DEF k, q, W

LEMMA Admitting ==
    ASSUME NEW b \in Buckets, NEW moment \in Int, AllPaid, Admit(b, moment)
    PROVE  AllPaid'
<1> DEFINE p == passed[b]
<1>1. /\ Paid(b, bucket[b], p) /\ p \in Seq(Int)
      /\ \A i, j \in 1..Len(p) : i <= j =>
            Cost(j - i + 1, b) <= Full(b) + Refill(p[j] - p[i], b)
    BY DEF AllPaid, Paid
<1>2. ASSUME NEW tokens \in Int, Spend(b, moment, tokens),
             Paid(b, [tokens |-> tokens - Limit[b].window, last |-> moment], Append(p, moment))
      PROVE  AllPaid'
    BY <1>2 DEF AllPaid, Spend
<1>3. CASE bucket[b] = Absent /\ Spend(b, moment, Full(b))
    <2> DEFINE tokens == Full(b)
    <2>1. tokens \in Int /\ tokens <= Full(b) /\ Limit[b].window <= tokens
        BY FullType
    <2>2. p = <<>>
        BY <1>1, <1>3 DEF Paid
    <2>3. \A i \in 1..Len(p) :
            Cost(Len(p) - i + 1, b) + tokens <= Full(b) + Refill(moment - p[i], b)
        BY <2>2
    <2>4. Spend(b, moment, tokens)
        BY <1>3
    <2> HIDE DEF p, tokens
    <2>5. Paid(b, [tokens |-> tokens - Limit[b].window, last |-> moment], Append(p, moment))
        BY <1>1, <2>1, <2>3, Spending
    <2> QED BY <1>2, <2>1, <2>4, <2>5
<1>4. CASE /\ bucket[b] # Absent
           /\ Refilled(b, moment) >= Limit[b].window
           /\ Spend(b, moment, Refilled(b, moment))
    <2> DEFINE tokens == Refilled(b, moment)
    <2>1. /\ tokens \in Int /\ tokens <= Full(b)
          /\ \A i \in 1..Len(p) :
                Cost(Len(p) - i + 1, b) + tokens <= Full(b) + Refill(moment - p[i], b)
        BY <1>1, <1>4, Refilling
    <2>2. Limit[b].window <= tokens
        BY <1>4, <2>1, LimitType
    <2>3. Spend(b, moment, tokens)
        BY <1>4
    <2> HIDE DEF p, tokens
    <2>4. Paid(b, [tokens |-> tokens - Limit[b].window, last |-> moment], Append(p, moment))
        BY <1>1, <2>1, <2>2, Spending
    <2> QED BY <1>2, <2>1, <2>3, <2>4
<1> QED BY <1>3, <1>4 DEF Admit

LEMMA Refusing ==
    ASSUME NEW b \in Buckets, NEW moment \in Int, AllPaid, Refuse(b, moment)
    PROVE  AllPaid'
<1> DEFINE k == [tokens |-> Refilled(b, moment), last |-> moment]
<1>1. Paid(b, bucket[b], passed[b]) /\ bucket[b] # Absent
    BY DEF AllPaid, Refuse
<1>2. k \in [tokens : Int, last : Int] /\ k.tokens = Refilled(b, moment) /\ k.last = moment
    BY <1>1, Refilling
<1>3. /\ k.tokens <= Full(b)
      /\ \A i \in 1..Len(passed[b]) :
            Cost(Len(passed[b]) - i + 1, b) + k.tokens
                <= Full(b) + Refill(k.last - passed[b][i], b)
    BY <1>1, <1>2, Refilling
<1>4. k # Absent
    BY <1>2, AccessAssumption
<1>5. bucket' = [bucket EXCEPT ![b] = k] /\ UNCHANGED passed
    BY DEF Refuse
<1> HIDE DEF k
<1>6. Paid(b, k, passed[b])
    BY <1>1, <1>2, <1>3, <1>4 DEF Paid
<1> QED BY <1>5, <1>6 DEF AllPaid

\* A dropped bucket forgets its attempts.
LEMMA NothingPaid ==
    ASSUME NEW b PROVE Paid(b, Absent, <<>>)
BY DEF Paid

LEMMA Forgetting ==
    ASSUME NEW b \in Buckets, AllPaid, Forget(b)
    PROVE  AllPaid'
BY NothingPaid DEF AllPaid, Forget

-----------------------------------------------------------------------------
LEMMA InitHolds == AccessInit => TInv
BY NothingPaid DEF AccessInit, TInv, Dated, AllPaid, Quiet

\* A request that moves on, other than into the throttle, has no date to prove.
LEMMA Undated ==
    ASSUME NEW t \in Tabs, NEW r, Dated, wire' = [wire EXCEPT ![t] = r],
           r.stage # "dated", "stage" \in DOMAIN r, UNCHANGED clock
    PROVE  Dated'
BY DEF Dated

LEMMA Replies ==
    ASSUME NEW t \in Tabs, NEW shape, NEW token, NEW session, Dated,
           Reply(t, shape, token, session), UNCHANGED clock
    PROVE  Dated'
<1> DEFINE r == Answer(shape, IF shape = "form" THEN token ELSE Absent,
                       Cookie(wire[t], shape, token), session)
<1>1. wire' = [wire EXCEPT ![t] = r]
    BY DEF Reply
<1>2. r.stage = "answered" /\ "stage" \in DOMAIN r
    BY DEF Answer
<1> HIDE DEF r
<1> QED BY <1>1, <1>2, Undated

LEMMA StepHolds == TInv /\ [AccessNext]_accessVars => TInv'
<1> SUFFICES ASSUME TInv, [AccessNext]_accessVars PROVE TInv'
    OBVIOUS
<1> USE DEF TInv
<1>1. CASE UNCHANGED accessVars
    BY <1>1 DEF accessVars, Dated, AllPaid
<1>2. ASSUME NEW t \in Tabs, Browse(t) \/ Submit(t) PROVE TInv'
    <2>1. ASSUME NEW kind, NEW e, NEW p, Send(t, Request(t, kind, e, p)) PROVE TInv'
        <3> DEFINE r == Request(t, kind, e, p)
        <3>1. r.stage = "sent" /\ "stage" \in DOMAIN r
            BY DEF Request
        <3>2. wire' = [wire EXCEPT ![t] = r] /\ UNCHANGED clock
            BY <2>1 DEF Send
        <3> HIDE DEF r
        <3>3. Dated'
            BY <3>1, <3>2, Undated
        <3> QED BY <2>1, <3>3 DEF Send, throttle, AllPaid
    <2> QED BY <1>2, <2>1 DEF Browse, Submit
<1>3. ASSUME NEW t \in Tabs, Deliver(t) PROVE TInv'
    <2>1. AllPaid'
        BY <1>3 DEF Deliver, throttle, AllPaid
    <2> DEFINE r == wire'[t]
    <2>2. wire' = [wire EXCEPT ![t] = r] /\ UNCHANGED clock
        BY <1>3 DEF Deliver, Dated
    <2>3. r.stage # "dated" /\ "stage" \in DOMAIN r
        BY <1>3 DEF Deliver, Quiet, Dated
    <2> HIDE DEF r
    <2>4. Dated'
        BY <2>2, <2>3, Undated
    <2> QED BY <2>1, <2>4
<1>4. ASSUME NEW t \in Tabs, Serve(t) PROVE TInv'
    <2>1. CASE ServePage(t) \/ Logout(t) \/ Resend(t)
        <3>1. Dated'
            BY <2>1, Replies DEF ServePage, Logout, Resend, Page
        <3> QED BY <2>1, <3>1 DEF ServePage, Logout, Resend, throttle, AllPaid
    <2>2. CASE CheckForm(t)
        <3>1. Dated'
            <4>1. CASE Page(t, "bare")
                BY <2>2, <4>1, Replies DEF CheckForm, Page
            <4>2. CASE CsrfOk(wire[t]) /\ ~Page(t, "bare")
                BY <2>2, <4>2 DEF CheckForm, Dated
            <4> QED BY <2>2, <4>1, <4>2 DEF CheckForm
        <3> QED BY <2>2, <3>1 DEF CheckForm, throttle, AllPaid
    <2>3. CASE Check(t)
        <3> DEFINE b == BucketOf(wire[t].kind)
        <3>1. wire[t].moment \in Int /\ clock' = clock
            BY <2>3 DEF Check, Dated
        <3>2. CASE Admit(b, wire[t].moment) /\ wire' = [wire EXCEPT ![t].stage = "admitted"]
            <4>1. b \notin Buckets => AllPaid'
                BY <3>2 DEF Admit, Spend, AllPaid
            <4>2. AllPaid'
                BY <3>1, <3>2, <4>1, Admitting
            <4>3. Dated'
                BY <3>1, <3>2 DEF Dated
            <4> QED BY <4>2, <4>3
        <3>3. CASE Refuse(b, wire[t].moment) /\ Page(t, "form")
            <4>1. Dated'
                BY <3>1, <3>3, Replies DEF Page
            <4>2. b \notin Buckets => AllPaid'
                BY <3>3 DEF Refuse, AllPaid
            <4> QED BY <3>1, <3>3, <4>1, <4>2, Refusing
        <3> QED BY <2>3, <3>2, <3>3 DEF Check
    <2>4. CASE SignIn(t)
        <3>1. AllPaid'
            BY <2>4, Forgetting DEF SignIn, throttle, AllPaid, Buckets
        <3>2. Dated'
            <4>1. UNCHANGED clock
                BY <2>4 DEF SignIn
            <4>2. CASE Fail(t)
                <5> DEFINE r == Answer("bare", Absent, Absent, Keep)
                <5>1. wire' = [wire EXCEPT ![t] = r]
                    BY <4>2 DEF Fail
                <5>2. r.stage = "answered" /\ "stage" \in DOMAIN r
                    BY DEF Answer
                <5> HIDE DEF r
                <5> QED BY <4>1, <5>1, <5>2, Undated
            <4>3. ASSUME NEW session, NEW token, Reply(t, "redirect", token, session) PROVE Dated'
                BY <4>1, <4>3, Replies
            <4>4. CASE Page(t, "form")
                BY <4>1, <4>4, Replies DEF Page
            <4> QED BY <2>4, <4>2, <4>3, <4>4 DEF SignIn, Redirect
        <3> QED BY <3>1, <3>2
    <2>5. CASE SignUpManaged(t)
        <3>1. Dated'
            BY <2>5, Replies DEF SignUpManaged, Page, Redirect
        <3> QED BY <2>5, <3>1 DEF SignUpManaged, throttle, AllPaid
    <2>6. CASE Load(t)
        <3>1. Dated'
            BY <2>6, Replies DEF Load, Page, Fail, Answer, Dated
        <3> QED BY <2>6, <3>1 DEF Load, throttle, AllPaid
    <2>7. CASE Truncate(t)
        BY <2>7 DEF Truncate, Dated, throttle, AllPaid
    <2>8. CASE Write(t)
        <3>1. Dated'
            BY <2>8, Replies DEF Write, Redirect
        <3> QED BY <2>8, <3>1 DEF Write, throttle, AllPaid
    <2>9. CASE Confirm(t)
        <3>1. Dated'
            BY <2>9, Replies DEF Confirm, Page
        <3>2. AllPaid'
            BY <2>9, Forgetting DEF Confirm, throttle, AllPaid, Buckets
        <3> QED BY <3>1, <3>2
    <2> QED BY <1>4, <2>1, <2>2, <2>3, <2>4, <2>5, <2>6, <2>7, <2>8, <2>9 DEF Serve
<1>5. CASE ClearCookie \/ Tick
    BY <1>5 DEF ClearCookie, Tick, throttle, Dated, AllPaid
<1>6. CASE Restart
    <2>1. Dated'
        BY <1>6 DEF Restart, Dated, Quiet
    <2>2. AllPaid'
        BY <1>6, NothingPaid DEF Restart, AllPaid
    <2> QED BY <2>1, <2>2
<1> QED BY <1>1, <1>2, <1>3, <1>4, <1>5, <1>6 DEF AccessNext

LEMMA Inductive == AccessSpec => []TInv
BY InitHolds, StepHolds, PTL DEF AccessSpec

-----------------------------------------------------------------------------
\* Between two drops of its bucket, fewer than twice the limit's attempts pass
\* in any window, for every limit and any number of requests at once
\* (throttle.py:83-104).
THEOREM AttemptsAreBounded == AccessSpec => []GuessesAreBounded
<1>1. TInv => GuessesAreBounded
    <2> SUFFICES ASSUME TInv, NEW b \in Buckets,
                        NEW i \in 1..Len(passed[b]), NEW j \in 1..Len(passed[b]),
                        i <= j, passed[b][j] - passed[b][i] < Limit[b].window
                 PROVE  j - i + 1 < 2 * Limit[b].tokens
        BY DEF GuessesAreBounded
    <2> DEFINE P == Limit[b].tokens
               W == Limit[b].window
               d == passed[b][j] - passed[b][i]
               n == j - i + 1
    <2>1. P \in Nat \ {0} /\ W \in Nat \ {0}
        BY AccessAssumption
    <2>2. n * W <= P * W + d * P
        BY DEF TInv, AllPaid, Paid, Cost, Refill, Full
    <2>3. d \in Int /\ n \in Int /\ d < W
      <3>1. passed[b] \in Seq(Int)
          BY DEF TInv, AllPaid, Paid
      <3>2. passed[b][i] \in Int /\ passed[b][j] \in Int /\ i \in Int /\ j \in Int
          BY <3>1
      <3> QED BY <3>2
    <2> HIDE DEF P, W, d, n
    <2>4. n < 2 * P
        BY <2>1, <2>2, <2>3, InWindow
    <2> QED BY <2>4 DEF n, P
<1> QED BY <1>1, Inductive, PTL

-----------------------------------------------------------------------------
(* The account file.  One sign-up at a time is inside it, what that one has  *)
(* read is all there is, and its own account is for an address that is new.  *)

Entered(t) == wire[t].stage \in {"loaded", "truncated"}

IsAccount(a) ==
    a \in [email : {a.email}, password : {a.password}, id : {a.id}, confirmed : {a.confirmed}]

OnePerAddress(accounts) ==
    /\ \A a \in accounts : IsAccount(a)
    /\ \A a, b \in accounts : a.email = b.email => a = b

FileType ==
    /\ file = [whole |-> file.whole, accounts |-> file.accounts]
    /\ file.whole \in BOOLEAN

\* The pool has no file, and nobody is inside it.
OnlyLocal == backend = "cognito" => file.whole /\ \A t \in Tabs : ~Entered(t)

OneInside == ~raced => \A t, u \in Tabs : Entered(t) /\ Entered(u) => t = u

\* What a sign-up inside the file will write.
Carries(t) ==
    /\ {"records", "account"} \subseteq DOMAIN wire[t]
    /\ IsAccount(wire[t].account)
    /\ ~raced =>
        /\ kept \subseteq wire[t].records
        /\ OnePerAddress(wire[t].records)
        /\ \A a \in wire[t].records : a.email # wire[t].account.email

Stored == file.whole /\ ~raced => kept \subseteq file.accounts /\ OnePerAddress(file.accounts)

KInv ==
    /\ FileType /\ OnlyLocal /\ OneInside /\ Stored
    /\ \A t \in Tabs : Entered(t) => Carries(t)

LEMMA KeptInit == AccessInit => KInv
<1> SUFFICES ASSUME AccessInit PROVE KInv
    OBVIOUS
<1>1. \A t \in Tabs : ~Entered(t)
    BY DEF AccessInit, Entered, Quiet
<1>2. FileType /\ Stored
    BY DEF AccessInit, FileType, Stored, OnePerAddress
<1> QED BY <1>1, <1>2 DEF KInv, OnlyLocal, OneInside, AccessInit

\* A request outside the file moves on, and the store stays as it is.
LEMMA KeptOutside ==
    ASSUME NEW t \in Tabs, NEW r, Dated, KInv, wire' = [wire EXCEPT ![t] = r],
           r.stage \notin {"loaded", "truncated"}, UNCHANGED <<backend, store>>
    PROVE  KInv'
<1>1. /\ ~Entered(t)'
      /\ \A u \in Tabs : u # t => wire'[u] = wire[u] /\ (Entered(u)' <=> Entered(u))
    BY DEF Dated, Entered
<1>2. UNCHANGED <<backend, file, made, kept, raced>>
    BY DEF store
<1>3. FileType' /\ Stored' /\ OnlyLocal' /\ OneInside'
    BY <1>1, <1>2 DEF KInv, FileType, Stored, OnlyLocal, OneInside, OnePerAddress, IsAccount
<1>4. ASSUME NEW u \in Tabs, Entered(u)' PROVE Carries(u)'
    BY <1>1, <1>2, <1>4 DEF KInv, Carries, OnePerAddress, IsAccount
<1> QED BY <1>3, <1>4 DEF KInv

\* An answer is outside the file, whatever it says.
LEMMA Answers ==
    ASSUME NEW t \in Tabs, NEW shape, NEW token, NEW session,
           Dated, Reply(t, shape, token, session) \/ Fail(t)
    PROVE  \E r : wire' = [wire EXCEPT ![t] = r] /\ r.stage = "answered"
<1>1. ASSUME NEW f, NEW c, NEW s, wire' = [wire EXCEPT ![t] = Answer(shape, f, c, s)]
      PROVE  \E r : wire' = [wire EXCEPT ![t] = r] /\ r.stage = "answered"
  <2> DEFINE r == Answer(shape, f, c, s)
  <2>1. r.stage = "answered"
      BY DEF Answer
  <2>2. wire' = [wire EXCEPT ![t] = r]
      BY <1>1
  <2> HIDE DEF r
  <2> QED BY <2>1, <2>2
<1>2. CASE Reply(t, shape, token, session)
    BY <1>1, <1>2 DEF Reply
<1>3. CASE Fail(t)
  <2> DEFINE r == Answer("bare", Absent, Absent, Keep)
  <2>1. r.stage = "answered"
      BY DEF Answer
  <2>2. wire' = [wire EXCEPT ![t] = r]
      BY <1>3 DEF Fail
  <2> HIDE DEF r
  <2> QED BY <2>1, <2>2
<1> QED BY <1>2, <1>3

LEMMA KeptAnswered ==
    ASSUME NEW t \in Tabs, NEW shape, NEW token, NEW session, Dated, KInv,
           Reply(t, shape, token, session) \/ Fail(t), UNCHANGED <<backend, store>>
    PROVE  KInv'
BY Answers, KeptOutside

\* An account is added or confirmed by the pool, which nobody is inside.
LEMMA KeptByPool ==
    ASSUME NEW t \in Tabs, NEW shape, NEW token, NEW session, Dated, KInv,
           Reply(t, shape, token, session), backend = "cognito", UNCHANGED <<backend, raced>>,
           NEW accounts, file' = [file EXCEPT !.accounts = accounts],
           ~raced => kept' \subseteq accounts /\ OnePerAddress(accounts)
    PROVE  KInv'
<1>1. PICK r : wire' = [wire EXCEPT ![t] = r] /\ r.stage = "answered"
    BY Answers
<1>2. \A u \in Tabs : ~Entered(u)'
    BY <1>1 DEF KInv, OnlyLocal, Dated, Entered
<1>3. file' = [whole |-> file.whole, accounts |-> accounts]
    BY DEF KInv, FileType
<1>4. FileType' /\ OnlyLocal' /\ OneInside'
    BY <1>2, <1>3 DEF KInv, FileType, OnlyLocal, OneInside
<1>5. Stored'
    BY <1>3 DEF Stored, OnePerAddress, IsAccount
<1> QED BY <1>2, <1>4, <1>5 DEF KInv

LEMMA KeptManaged ==
    ASSUME NEW t \in Tabs, Dated, KInv, SignUpManaged(t)
    PROVE  KInv'
<1>1. CASE UNCHANGED <<file, made, kept>>
    BY <1>1, KeptAnswered DEF SignUpManaged, Page, Redirect, store
<1>2. CASE ~UNCHANGED <<file, made, kept>>
  <2> DEFINE a == NewAccount(wire[t])
  <2>1. /\ Accounts(wire[t].email) = {} /\ Redirect(t)
        /\ file' = [file EXCEPT !.accounts = @ \cup {a}] /\ kept' = kept \cup {a}
        /\ backend = "cognito" /\ UNCHANGED <<backend, raced>>
      BY <1>2 DEF SignUpManaged
  <2>2. IsAccount(a) /\ \A b \in file.accounts : b.email # a.email
      BY <2>1 DEF NewAccount, Accounts, IsAccount
  <2> HIDE DEF a
  <2>3. file' = [file EXCEPT !.accounts = file.accounts \cup {a}]
      BY <2>1 DEF KInv, FileType
  <2>4. ~raced => kept' \subseteq file.accounts \cup {a} /\ OnePerAddress(file.accounts \cup {a})
      BY <2>1, <2>2 DEF KInv, OnlyLocal, Stored, OnePerAddress
  <2> QED BY <2>1, <2>3, <2>4, KeptByPool DEF Redirect
<1> QED BY <1>1, <1>2

LEMMA KeptConfirmed ==
    ASSUME NEW t \in Tabs, Dated, KInv, Confirm(t)
    PROVE  KInv'
<1>1. CASE UNCHANGED <<file, kept>>
    BY <1>1, KeptAnswered DEF Confirm, Page, store
<1>2. CASE ~UNCHANGED <<file, kept>>
  <2>1. PICK a \in file.accounts :
            /\ backend = "cognito"
            /\ file' = [file EXCEPT !.accounts = (@ \ {a}) \cup {[a EXCEPT !.confirmed = TRUE]}]
            /\ kept' = (kept \ {a}) \cup {[a EXCEPT !.confirmed = TRUE]}
      BY <1>2 DEF Confirm, Accounts
  <2> DEFINE b == [a EXCEPT !.confirmed = TRUE]
             accounts == (file.accounts \ {a}) \cup {b}
  <2>2. file' = [file EXCEPT !.accounts = accounts] /\ kept' = (kept \ {a}) \cup {b}
      BY <2>1 DEF KInv, FileType
  <2>3. ASSUME ~raced PROVE kept' \subseteq accounts /\ OnePerAddress(accounts)
    <3>1. kept \subseteq file.accounts /\ OnePerAddress(file.accounts)
        BY <2>1, <2>3 DEF KInv, OnlyLocal, Stored
    <3>2. IsAccount(b) /\ b.email = a.email
      <4>1. IsAccount(a)
          BY <2>1, <3>1 DEF OnePerAddress
      <4> QED BY <4>1 DEF IsAccount
    <3> HIDE DEF b
    <3>3. \A c \in file.accounts \ {a} : c.email # b.email /\ IsAccount(c)
        BY <2>1, <3>1, <3>2 DEF OnePerAddress
    <3> QED BY <2>2, <3>1, <3>2, <3>3 DEF OnePerAddress
  <2> HIDE DEF accounts
  <2>4. Page(t, "form") /\ UNCHANGED <<backend, raced>>
      BY DEF Confirm
  <2> QED BY <2>1, <2>2, <2>3, <2>4, KeptByPool DEF Page
<1> QED BY <1>1, <1>2

LEMMA KeptLoaded ==
    ASSUME NEW t \in Tabs, Dated, KInv, Load(t)
    PROVE  KInv'
<1>1. CASE UNCHANGED <<made, raced>> /\ (Fail(t) \/ Page(t, "form"))
    BY <1>1, KeptAnswered DEF Load, Page, store
<1>2. CASE ~(UNCHANGED <<made, raced>> /\ (Fail(t) \/ Page(t, "form")))
  <2> DEFINE a == NewAccount(wire[t])
             r == [stage |-> "loaded", email |-> wire[t].email, csrf |-> wire[t].csrf,
                   records |-> file.accounts, account |-> a]
  <2>1. /\ file.whole /\ Accounts(wire[t].email) = {} /\ backend = "local"
        /\ wire' = [wire EXCEPT ![t] = r] /\ raced' = (raced \/ Inside # {})
        /\ UNCHANGED <<backend, file, kept>>
      BY <1>2 DEF Load
  <2>2. IsAccount(a) /\ \A b \in file.accounts : b.email # a.email
      BY <2>1 DEF NewAccount, Accounts, IsAccount
  <2>3. /\ r.stage = "loaded" /\ r.records = file.accounts /\ r.account = a
        /\ {"records", "account"} \subseteq DOMAIN r
      OBVIOUS
  <2> HIDE DEF a, r
  <2>4. /\ wire'[t] = r /\ Entered(t)'
        /\ \A u \in Tabs : u # t => wire'[u] = wire[u] /\ (Entered(u)' <=> Entered(u))
      BY <2>1, <2>3 DEF Dated, Entered
  <2>5. ~raced' => ~raced /\ \A u \in Tabs : ~Entered(u)
      BY <2>1 DEF Inside, Entered
  <2>6. FileType' /\ OnlyLocal' /\ Stored'
      BY <2>1, <2>5 DEF KInv, FileType, OnlyLocal, Stored, OnePerAddress, IsAccount
  <2>7. OneInside'
      BY <2>4, <2>5 DEF OneInside
  <2>8. Carries(t)'
      BY <2>1, <2>2, <2>3, <2>4, <2>5 DEF KInv, Stored, Carries, OnePerAddress, IsAccount
  <2>9. ASSUME NEW u \in Tabs, u # t, Entered(u)' PROVE Carries(u)'
      BY <2>1, <2>4, <2>5, <2>9 DEF KInv, Carries, OnePerAddress, IsAccount
  <2> QED BY <2>6, <2>7, <2>8, <2>9 DEF KInv
<1> QED BY <1>1, <1>2

LEMMA KeptTruncated ==
    ASSUME NEW t \in Tabs, Dated, KInv, Truncate(t)
    PROVE  KInv'
<1>1. /\ file' = [whole |-> FALSE, accounts |-> {}] /\ UNCHANGED <<backend, kept, raced>>
      /\ wire' = [wire EXCEPT ![t].stage = "truncated"] /\ wire[t].stage = "loaded"
    BY DEF Truncate
<1>2. Carries(t) /\ Entered(t)
    BY <1>1 DEF KInv, Entered
<1>3. /\ \A u \in Tabs : Entered(u)' <=> Entered(u)
      /\ \A u \in Tabs : Entered(u) =>
            /\ DOMAIN wire'[u] = DOMAIN wire[u]
            /\ wire'[u].records = wire[u].records /\ wire'[u].account = wire[u].account
    BY <1>1, <1>2 DEF Dated, Entered, KInv, Carries
<1>4. FileType' /\ Stored' /\ OnlyLocal' /\ OneInside'
    BY <1>1, <1>2, <1>3 DEF KInv, FileType, Stored, OnlyLocal, OneInside
<1>5. ASSUME NEW u \in Tabs, Entered(u)' PROVE Carries(u)'
    BY <1>1, <1>3, <1>5 DEF KInv, Carries, OnePerAddress, IsAccount
<1> QED BY <1>4, <1>5 DEF KInv

LEMMA KeptWritten ==
    ASSUME NEW t \in Tabs, Dated, KInv, Write(t)
    PROVE  KInv'
<1> DEFINE a == wire[t].account
           rs == wire[t].records
<1>1. /\ file' = [whole |-> TRUE, accounts |-> rs \cup {a}] /\ kept' = kept \cup {a}
      /\ UNCHANGED <<backend, raced>> /\ wire[t].stage = "truncated" /\ Redirect(t)
    BY DEF Write
<1>2. Carries(t) /\ Entered(t)
    BY <1>1 DEF KInv, Entered
<1>3. PICK r : wire' = [wire EXCEPT ![t] = r] /\ r.stage = "answered"
    BY <1>1, Answers DEF Redirect
<1>4. /\ ~Entered(t)'
      /\ \A u \in Tabs : u # t => wire'[u] = wire[u] /\ (Entered(u)' <=> Entered(u))
    BY <1>3 DEF Dated, Entered
<1>5. ~raced => /\ kept' \subseteq rs \cup {a} /\ OnePerAddress(rs \cup {a})
                /\ \A u \in Tabs : ~Entered(u)'
    BY <1>1, <1>2, <1>4 DEF Carries, OnePerAddress, KInv, OneInside
<1> HIDE DEF a, rs
<1>6. FileType' /\ Stored'
    BY <1>1, <1>5 DEF FileType, Stored, OnePerAddress, IsAccount
<1>7. OnlyLocal' /\ OneInside'
    BY <1>1, <1>2, <1>4 DEF KInv, OnlyLocal, OneInside
<1>8. ASSUME NEW u \in Tabs, Entered(u)' PROVE Carries(u)'
    BY <1>1, <1>4, <1>5, <1>8 DEF KInv, Carries, OnePerAddress, IsAccount
<1> QED BY <1>6, <1>7, <1>8 DEF KInv

LEMMA KeptStep == TInv /\ KInv /\ [AccessNext]_accessVars => KInv'
<1> SUFFICES ASSUME TInv, KInv, [AccessNext]_accessVars PROVE KInv'
    OBVIOUS
<1> USE DEF TInv
<1>1. CASE UNCHANGED <<backend, wire, store>>
    BY <1>1 DEF store, KInv, FileType, OnlyLocal, OneInside, Stored, Carries, Entered,
                OnePerAddress, IsAccount
<1>2. ASSUME NEW t \in Tabs, Browse(t) \/ Submit(t) \/ Deliver(t) PROVE KInv'
  <2>1. ASSUME NEW kind, NEW e, NEW p, Send(t, Request(t, kind, e, p)) PROVE KInv'
    <3> DEFINE r == Request(t, kind, e, p)
    <3>1. r.stage = "sent"
        BY DEF Request
    <3>2. wire' = [wire EXCEPT ![t] = r] /\ UNCHANGED <<backend, store>>
        BY <2>1 DEF Send
    <3> HIDE DEF r
    <3> QED BY <3>1, <3>2, KeptOutside
  <2>2. CASE Deliver(t)
    <3> DEFINE r == wire'[t]
    <3>1. wire' = [wire EXCEPT ![t] = r] /\ UNCHANGED <<backend, store>>
        BY <2>2 DEF Deliver, Dated
    <3>2. r.stage \notin {"loaded", "truncated"}
        BY <2>2 DEF Deliver, Quiet, Dated
    <3> HIDE DEF r
    <3> QED BY <3>1, <3>2, KeptOutside
  <2> QED BY <1>2, <2>1, <2>2 DEF Browse, Submit
<1>3. ASSUME NEW t \in Tabs, Serve(t) PROVE KInv'
  <2>1. CASE ServePage(t) \/ Logout(t) \/ Resend(t)
      BY <2>1, KeptAnswered DEF ServePage, Logout, Resend, Page
  <2>2. CASE CheckForm(t)
    <3>1. CASE Page(t, "bare")
        BY <2>2, <3>1, KeptAnswered DEF CheckForm, Page
    <3>2. CASE ~Page(t, "bare")
      <4> DEFINE r == wire'[t]
      <4>1. wire' = [wire EXCEPT ![t] = r] /\ r.stage = "dated" /\ UNCHANGED <<backend, store>>
          BY <2>2, <3>2 DEF CheckForm, Dated
      <4> HIDE DEF r
      <4> QED BY <4>1, KeptOutside
    <3> QED BY <3>1, <3>2
  <2>3. CASE Check(t)
    <3>1. CASE Page(t, "form")
        BY <2>3, <3>1, KeptAnswered DEF Check, Page
    <3>2. CASE ~Page(t, "form")
      <4> DEFINE r == wire'[t]
      <4>1. wire' = [wire EXCEPT ![t] = r] /\ r.stage = "admitted" /\ UNCHANGED <<backend, store>>
          BY <2>3, <3>2 DEF Check, Dated
      <4> HIDE DEF r
      <4> QED BY <4>1, KeptOutside
    <3> QED BY <3>1, <3>2
  <2>4. CASE SignIn(t)
      BY <2>4, KeptAnswered DEF SignIn, Page, Redirect
  <2>5. CASE SignUpManaged(t) \/ Load(t) \/ Truncate(t) \/ Write(t) \/ Confirm(t)
      BY <2>5, KeptManaged, KeptLoaded, KeptTruncated, KeptWritten, KeptConfirmed
  <2> QED BY <1>3, <2>1, <2>2, <2>3, <2>4, <2>5 DEF Serve
<1>4. CASE Restart
  <2>1. \A t \in Tabs : ~Entered(t)'
      BY <1>4 DEF Restart, Entered, Quiet
  <2>2. UNCHANGED <<backend, file, kept, raced>>
      BY <1>4 DEF Restart, store
  <2>3. FileType' /\ Stored'
      BY <2>2 DEF KInv, FileType, Stored, OnePerAddress, IsAccount
  <2> QED BY <2>1, <2>2, <2>3 DEF KInv, OnlyLocal, OneInside
<1> QED BY <1>1, <1>2, <1>3, <1>4 DEF AccessNext, accessVars, store, ClearCookie, Tick

\* Whenever the account file can be read, every account that somebody was told of
\* is in it and has its address to itself, whenever the server dies, unless two
\* sign-ups were inside the file together (auth.py:132-146).
THEOREM AccountsStay == AccessSpec => []AccountsAreKept
<1>1. KInv => AccountsAreKept
    BY DEF KInv, Stored, OnePerAddress, AccountsAreKept
<1> QED BY <1>1, KeptInit, KeptStep, Inductive, PTL DEF AccessSpec
-----------------------------------------------------------------------------
(* The form cookie.  The answer that brought the page set the cookie to the  *)
(* form's token, for longer than any session of that moment lasts; so when   *)
(* the cookie has lapsed, the session has too.                               *)

JarType ==
    /\ jar \in [csrf : {jar.csrf}, csrfUntil : Int, session : {jar.session}, sessionUntil : Int]
    /\ jar.sessionUntil <= clock + SessionTTL
    /\ DOMAIN page = Tabs

\* A form comes with its token.
Sealed ==
    \A t \in Tabs : wire[t].stage = "answered" /\ wire[t].form # Absent
                      => wire[t].cookie = wire[t].form

Heals ==
    shown # Absent /\ page[shown] # Absent /\ jar.session # Absent /\ ~cleared =>
        jar.csrf = page[shown] /\ jar.sessionUntil < jar.csrfUntil

HInv == JarType /\ Sealed /\ Heals

LEMMA HealsInit == AccessInit => HInv
BY AccessAssumption DEF AccessInit, HInv, JarType, Sealed, Heals, Quiet

\* A request moves on at the server.
LEMMA HealsServed ==
    ASSUME NEW t \in Tabs, NEW r, Dated, HInv, wire' = [wire EXCEPT ![t] = r],
           r.stage = "answered" /\ r.form # Absent => r.cookie = r.form,
           UNCHANGED <<clock, browser>>
    PROVE  HInv'
BY DEF Dated, HInv, JarType, Sealed, Heals, browser

LEMMA HealsAnswered ==
    ASSUME NEW t \in Tabs, NEW shape, NEW token, NEW session, Dated, HInv,
           Reply(t, shape, token, session) \/ Fail(t), UNCHANGED <<clock, browser>>
    PROVE  HInv'
<1>1. CASE Reply(t, shape, token, session)
  <2> DEFINE r == Answer(shape, IF shape = "form" THEN token ELSE Absent,
                         Cookie(wire[t], shape, token), session)
  <2>1. r.form # Absent => r.cookie = r.form
      BY DEF Answer, Cookie
  <2>2. wire' = [wire EXCEPT ![t] = r]
      BY <1>1 DEF Reply
  <2> HIDE DEF r
  <2> QED BY <2>1, <2>2, HealsServed
<1>2. CASE Fail(t)
  <2> DEFINE r == Answer("bare", Absent, Absent, Keep)
  <2>1. r.form = Absent
      BY DEF Answer
  <2>2. wire' = [wire EXCEPT ![t] = r]
      BY <1>2 DEF Fail
  <2> HIDE DEF r
  <2> QED BY <2>1, <2>2, HealsServed
<1> QED BY <1>1, <1>2

LEMMA HealsDelivered ==
    ASSUME NEW t \in Tabs, Dated, HInv, Deliver(t)
    PROVE  HInv'
<1> DEFINE a == wire[t]
<1>1. /\ a.stage = "answered" /\ UNCHANGED clock /\ cleared' = FALSE
      /\ page' = [page EXCEPT ![t] = a.form]
      /\ shown' = (IF a.shape = "redirect" THEN Absent ELSE t)
      /\ clock \in Nat /\ SessionTTL \in Nat /\ CsrfTTL \in Nat /\ SessionTTL < CsrfTTL
    BY AccessAssumption DEF Deliver, Dated
<1>2. /\ jar' \in [csrf : {jar'.csrf}, csrfUntil : Int, session : {jar'.session},
                   sessionUntil : Int]
      /\ a.cookie # Absent => jar'.csrf = a.cookie /\ jar'.csrfUntil = clock + CsrfTTL
      /\ jar'.sessionUntil \in {jar.sessionUntil, clock + SessionTTL}
  <2> DEFINE base == IF a.cookie = Absent THEN jar
                     ELSE [jar EXCEPT !.csrf = a.cookie, !.csrfUntil = clock + CsrfTTL]
             C == {jar.csrf, a.cookie}
             S == {jar.session, Absent, a.session}
  <2>1. jar \in [csrf : C, csrfUntil : Int, session : S, sessionUntil : Int]
      BY DEF HInv, JarType
  <2>2. clock + CsrfTTL \in Int /\ clock + SessionTTL \in Int
      BY <1>1
  <2>3. /\ base \in [csrf : C, csrfUntil : Int, session : S, sessionUntil : Int]
        /\ base.sessionUntil = jar.sessionUntil
        /\ a.cookie # Absent => base.csrf = a.cookie /\ base.csrfUntil = clock + CsrfTTL
    <3>1. CASE a.cookie = Absent
        BY <2>1, <3>1
    <3>2. CASE a.cookie # Absent
      <4>1. base = [jar EXCEPT !.csrf = a.cookie, !.csrfUntil = clock + CsrfTTL]
          BY <3>2
      <4>2. a.cookie \in C
          OBVIOUS
      <4> HIDE DEF base, C, S, a
      <4> QED BY <2>1, <2>2, <4>1, <4>2
    <3> QED BY <3>1, <3>2
  <2>4. jar' = IF a.session = Keep THEN base
               ELSE IF a.session = Absent THEN [base EXCEPT !.session = Absent]
               ELSE [base EXCEPT !.session = a.session, !.sessionUntil = clock + SessionTTL]
      BY DEF Deliver
  <2>5. Absent \in S /\ a.session \in S
      OBVIOUS
  <2> HIDE DEF base, C, S, a
  <2>6. /\ jar' \in [csrf : C, csrfUntil : Int, session : S, sessionUntil : Int]
        /\ jar'.csrf = base.csrf /\ jar'.csrfUntil = base.csrfUntil
        /\ jar'.sessionUntil \in {base.sessionUntil, clock + SessionTTL}
      BY <2>2, <2>3, <2>4, <2>5
  <2> QED BY <2>3, <2>6
<1>3. JarType'
    BY <1>1, <1>2 DEF HInv, JarType
<1>4. Sealed'
  <2>1. wire'[t].stage # "answered" /\ \A u \in Tabs : u # t => wire'[u] = wire[u]
      BY DEF Deliver, Dated, Quiet
  <2> QED BY <2>1 DEF HInv, Sealed
<1>5. Heals'
  <2> SUFFICES ASSUME shown' # Absent, page'[shown'] # Absent
               PROVE  jar'.csrf = page'[shown'] /\ jar'.sessionUntil < jar'.csrfUntil
      BY DEF Heals
  <2>1. shown' = t /\ page'[t] = a.form
      BY <1>1 DEF HInv, JarType
  <2>2. a.cookie = a.form /\ a.cookie # Absent
      BY <1>1, <2>1 DEF HInv, Sealed
  <2> QED BY <1>1, <1>2, <2>1, <2>2 DEF HInv, JarType
<1> QED BY <1>3, <1>4, <1>5 DEF HInv

LEMMA HealsTicked == ASSUME Dated, HInv, Tick PROVE HInv'
<1>1. /\ clock' = clock + 1 /\ clock \in Nat /\ SessionTTL \in Nat
      /\ jar' \in [csrf : {jar'.csrf}, csrfUntil : Int, session : {jar'.session},
                   sessionUntil : Int]
      /\ jar'.csrfUntil = jar.csrfUntil /\ jar'.sessionUntil = jar.sessionUntil
      /\ jar'.csrf = (IF clock' < jar.csrfUntil THEN jar.csrf ELSE Absent)
      /\ jar'.session = (IF clock' < jar.sessionUntil THEN jar.session ELSE Absent)
      /\ UNCHANGED <<page, shown, cleared, wire>>
    BY AccessAssumption DEF Tick, Dated, HInv, JarType
<1>2. JarType' /\ Sealed'
    BY <1>1 DEF HInv, JarType, Sealed
<1>3. Heals'
    BY <1>1 DEF HInv, JarType, Heals
<1> QED BY <1>2, <1>3 DEF HInv

LEMMA HealsStep == TInv /\ HInv /\ [AccessNext]_accessVars => HInv'
<1> SUFFICES ASSUME TInv, HInv, [AccessNext]_accessVars PROVE HInv'
    OBVIOUS
<1> USE DEF TInv
<1>1. CASE UNCHANGED accessVars
    BY <1>1 DEF accessVars, HInv, JarType, Sealed, Heals, browser
<1>2. ASSUME NEW t \in Tabs, Browse(t) \/ Submit(t) PROVE HInv'
  <2>1. ASSUME NEW kind, NEW e, NEW p, Send(t, Request(t, kind, e, p)) PROVE HInv'
    <3> DEFINE r == Request(t, kind, e, p)
    <3>1. r.stage = "sent"
        BY DEF Request
    <3>2. wire' = [wire EXCEPT ![t] = r] /\ UNCHANGED <<clock, browser>>
        BY <2>1 DEF Send
    <3> HIDE DEF r
    <3> QED BY <3>1, <3>2, HealsServed
  <2> QED BY <1>2, <2>1 DEF Browse, Submit
<1>3. ASSUME NEW t \in Tabs, Serve(t) PROVE HInv'
  <2>0. UNCHANGED <<clock, browser>>
      BY <1>3 DEF Serve, ServePage, Logout, CheckForm, Check, SignIn, SignUpManaged, Load,
                  Truncate, Write, Confirm, Resend
  <2>1. CASE \E shape, token, session : Reply(t, shape, token, session) \/ Fail(t)
      BY <2>0, <2>1, HealsAnswered
  <2>2. ASSUME NEW r, wire' = [wire EXCEPT ![t] = r], r.stage # "answered" PROVE HInv'
      BY <2>0, <2>2, HealsServed
  <2>3. CASE ServePage(t) \/ Logout(t) \/ Resend(t) \/ SignIn(t) \/ SignUpManaged(t)
             \/ Write(t) \/ Confirm(t)
      BY <2>1, <2>3 DEF ServePage, Logout, Resend, SignIn, SignUpManaged, Write, Confirm,
                        Page, Redirect
  <2>4. CASE CheckForm(t) \/ Check(t) \/ Load(t) \/ Truncate(t)
    <3>1. CASE Page(t, "bare") \/ Page(t, "form") \/ Fail(t)
        BY <2>1, <3>1 DEF Page
    <3>2. CASE ~(Page(t, "bare") \/ Page(t, "form") \/ Fail(t))
      <4> DEFINE r == wire'[t]
      <4>1. wire' = [wire EXCEPT ![t] = r] /\ r.stage # "answered"
          BY <2>4, <3>2 DEF CheckForm, Check, Load, Truncate, Dated
      <4> HIDE DEF r
      <4> QED BY <2>2, <4>1
    <3> QED BY <3>1, <3>2
  <2> QED BY <1>3, <2>3, <2>4 DEF Serve
<1>4. ASSUME NEW t \in Tabs, Deliver(t) PROVE HInv'
    BY <1>4, HealsDelivered
<1>5. CASE ClearCookie
    BY <1>5 DEF ClearCookie, HInv, JarType, Sealed, Heals
<1>6. CASE Restart
  <2>1. /\ UNCHANGED <<clock, jar, page, shown, cleared>>
        /\ wire' = [t \in Tabs |-> IF wire[t].stage = "answered" THEN wire[t] ELSE Quiet]
      BY <1>6 DEF Restart, browser
  <2> QED BY <2>1 DEF HInv, JarType, Sealed, Heals, Quiet
<1> QED BY <1>1, <1>2, <1>3, <1>4, <1>5, <1>6, HealsTicked DEF AccessNext

\* The page that came in last has a form the server will take, in whatever order
\* answers arrive, as long as the browser is signed in and kept the cookie: a form
\* cookie outlives every session, since CSRF_TTL exceeds SESSION_TTL
\* (app.py:98-126, auth.py:42-47).
THEOREM ReloadingHeals == AccessSpec => []ReloadHeals
<1>1. HInv => ReloadHeals
    BY DEF HInv, Heals, ReloadHeals
<1> QED BY <1>1, HealsInit, HealsStep, Inductive, PTL DEF AccessSpec
=============================================================================
