-------------------------- MODULE JournalLockProofs --------------------------
(***************************************************************************)
(* JournalLock for any number of threads and processes: type correctness,  *)
(* mutual exclusion, the record lock following the holders, no lost wakeup,*)
(* and the refinement of RWLock.                                           *)
(***************************************************************************)
EXTENDS JournalLock, FiniteSetTheorems, TLAPS

\* The fields of a gate say who is inside its process.
GateCounts ==
    \A p \in Procs :
        /\ gate[p].readers = Cardinality(ReadersIn(p))
        /\ gate[p].writing <=> \E t \in Holders(p) : mode[t] = "write"

\* A writer is alone in its process.
WriterAlone ==
    \A p \in Procs : \A s, t \in Holders(p) :
        mode[s] = "write" => s = t

\* The handle is open exactly while the process owns the record lock.
HandleIsLock == \A p \in Procs : gate[p].handle <=> fileLock = p

\* The guard is kept between steps only by a poller, whose gate is empty.
GuardIsPoller ==
    /\ \A p \in Procs : guard[p] # NoOne =>
         ProcOf[guard[p]] = p /\ Polling(guard[p])
    /\ \A t \in Threads : Polling(t) =>
         guard[ProcOf[t]] = t /\ Empty(Gate(t))

IInv ==
    /\ TypeOK
    /\ GateCounts
    /\ WriterAlone
    /\ HandleIsLock
    /\ FileLockFollowsHolders
    /\ GuardIsPoller
-----------------------------------------------------------------------------
(* Counting the readers of a process. *)

\* A process has finitely many readers, so their number is zero only when there
\* are none, and it grows and shrinks by one.
LEMMA ReadersFinite ==
    ASSUME NEW p \in Procs
    PROVE  /\ IsFiniteSet(ReadersIn(p))
           /\ Cardinality(ReadersIn(p)) \in Nat
           /\ Cardinality(ReadersIn(p)) = 0 <=> ReadersIn(p) = {}
  <1>1. ReadersIn(p) \subseteq Threads
    BY DEF ReadersIn, Holders
  <1>2. IsFiniteSet(ReadersIn(p))
    BY <1>1, LockAssumption, FS_Subset
  <1>. QED
    BY <1>2, FS_CardinalityType, FS_EmptySet

\* In every state of the invariant an empty gate is a process with nobody in it.
LEMMA EmptyGate ==
    ASSUME IInv, NEW p \in Procs
    PROVE  Empty(gate[p]) <=> Holders(p) = {}
  <1>1. gate[p].readers = 0 <=> ReadersIn(p) = {}
    BY ReadersFinite DEF IInv, GateCounts
  <1>2. \A t \in Holders(p) : mode[t] \in Modes
    BY DEF IInv, TypeOK, Holders
  <1>. QED
    BY <1>1, <1>2 DEF IInv, GateCounts, Empty, ReadersIn, Modes

\* The same sets of holders before and after, and the gates and the record lock
\* untouched: what most steps of a thread amount to.
Quiet ==
    /\ gate' = gate
    /\ fileLock' = fileLock
    /\ \A t \in Threads : Holding(t)' <=> Holding(t)
    /\ \A t \in Threads : Holding(t) => mode'[t] = mode[t]

LEMMA QuietStep ==
    ASSUME IInv, Quiet
    PROVE  GateCounts' /\ WriterAlone' /\ HandleIsLock' /\ FileLockFollowsHolders'
  <1>1. \A p \in Procs : Holders(p)' = Holders(p)
    BY DEF Quiet, Holders
  <1>2. \A p \in Procs : ReadersIn(p)' = ReadersIn(p)
    BY <1>1 DEF Quiet, ReadersIn, Holders
  <1>3. \A p \in Procs : \A t \in Holders(p) : mode'[t] = mode[t]
    BY DEF Quiet, Holders
  <1>4. GateCounts'
    BY <1>1, <1>2, <1>3 DEF Quiet, IInv, GateCounts
  <1>5. WriterAlone'
    BY <1>1, <1>3 DEF IInv, WriterAlone
  <1>6. HandleIsLock' /\ FileLockFollowsHolders'
    BY <1>1 DEF Quiet, IInv, HandleIsLock, FileLockFollowsHolders
  <1>. QED
    BY <1>4, <1>5, <1>6
-----------------------------------------------------------------------------
(* Type correctness. *)

LEMMA InitType == Init => TypeOK
  BY LockAssumption DEF Init, TypeOK, Locations, Modes, Gates, NewGate

LEMMA NextType == TypeOK /\ GateCounts /\ [Next]_vars => TypeOK'
  <1> SUFFICES ASSUME TypeOK, GateCounts, [Next]_vars
               PROVE  TypeOK'
    OBVIOUS
  <1> USE LockAssumption DEF TypeOK, Goto, Locations, Modes, Gates, Gate
  <1>1. ASSUME NEW t \in Threads, NEW m \in Modes, Request(t, m)
        PROVE  TypeOK'
    BY <1>1 DEF Request
  <1>2. ASSUME NEW t \in Threads, Expire(t)
        PROVE  TypeOK'
    BY <1>2 DEF Expire
  <1>3. ASSUME NEW t \in Threads, JoinReaders(t)
        PROVE  TypeOK'
    BY <1>3 DEF JoinReaders
  <1>4. ASSUME NEW t \in Threads, BeginPoll(t)
        PROVE  TypeOK'
    BY <1>4 DEF BeginPoll
  <1>5. ASSUME NEW t \in Threads, Wait(t) \/ WakeByTimeout(t) \/ GateBusy(t)
                                  \/ Raise(t) \/ Leave(t) \/ OpenFails(t)
                                  \/ LockRefused(t) \/ PollAgain(t)
        PROVE  TypeOK'
    BY <1>5 DEF Wait, WakeByTimeout, GateBusy, Raise, Leave, OpenFails, LockRefused, PollAgain
  <1>6. ASSUME NEW t \in Threads, TakeFileLock(t)
        PROVE  TypeOK'
    BY <1>6 DEF TakeFileLock
  <1>7. ASSUME NEW t \in Threads, PollBusy(t)
        PROVE  TypeOK'
    BY <1>7 DEF PollBusy, CloseHandle
  <1>8. ASSUME NEW t \in Threads, Release(t)
        PROVE  TypeOK'
    <2>1. mode[t] = "read" => gate[ProcOf[t]].readers - 1 \in Nat
      <3>1. SUFFICES ASSUME mode[t] = "read"
                     PROVE  gate[ProcOf[t]].readers # 0
        OBVIOUS
      <3>2. t \in ReadersIn(ProcOf[t])
        BY <1>8, <3>1 DEF Release, ReadersIn, Holders, Holding
      <3>. QED
        BY <3>2, ReadersFinite DEF GateCounts
    <2>2. CountedOut(t) \in Gates
      BY <2>1 DEF CountedOut
    <2>3. [CountedOut(t) EXCEPT !.handle = FALSE] \in Gates
      BY <2>2
    <2>4. gate' \in [Procs -> Gates]
      BY <1>8, <2>2, <2>3 DEF Release
    <2>5. pc' \in [Threads -> Locations]
      BY <1>8 DEF Release, NotifyAll
    <2>6. fileLock' \in Procs \cup {NoOne}
      BY <1>8 DEF Release, CloseHandle
    <2>. QED
      BY <1>8, <2>4, <2>5, <2>6 DEF Release
  <1>9. ASSUME NEW p \in Procs, Crash(p)
        PROVE  TypeOK'
    BY <1>9 DEF Crash, CloseHandle, NewGate
  <1>10. CASE UNCHANGED vars
    BY <1>10 DEF vars
  <1>. QED
    BY <1>1, <1>2, <1>3, <1>4, <1>5, <1>6, <1>7, <1>8, <1>9, <1>10
    DEF Next, Advance
-----------------------------------------------------------------------------
(* The steps that change who is inside. *)

\* One more thread is inside: a reader beside readers, or the first of its
\* process with the record lock just taken.
LEMMA EntryStep ==
    ASSUME IInv, NEW t \in Threads, JoinReaders(t) \/ TakeFileLock(t)
    PROVE  GateCounts' /\ WriterAlone' /\ HandleIsLock' /\ FileLockFollowsHolders'
  <1> DEFINE p == ProcOf[t]
  <1>1. /\ p \in Procs
        /\ ~Holding(t) /\ Holding(t)'
        /\ \A u \in Threads \ {t} : Holding(u)' <=> Holding(u)
        /\ mode' = mode
        /\ mode[t] \in Modes
    BY LockAssumption
    DEF IInv, TypeOK, JoinReaders, TakeFileLock, HasGuard, Goto, Holding
  <1>2. Holders(p)' = Holders(p) \cup {t} /\ t \notin Holders(p)
    BY <1>1 DEF Holders
  <1>3. \A q \in Procs \ {p} : Holders(q)' = Holders(q)
    BY <1>1 DEF Holders
  <1>4. \A q \in Procs : ReadersIn(q) = {u \in Holders(q) : mode[u] = "read"}
    BY DEF ReadersIn
  <1>5. \A q \in Procs : ReadersIn(q)' = {u \in Holders(q)' : mode[u] = "read"}
    BY <1>1 DEF ReadersIn
  <1>6. \A q \in Procs \ {p} : ReadersIn(q)' = ReadersIn(q)
    BY <1>3, <1>4, <1>5
  <1>7. \A q \in Procs \ {p} : gate'[q] = gate[q]
    BY DEF JoinReaders, TakeFileLock, IInv, TypeOK
  <1>8. CASE JoinReaders(t)
    <2>1. mode[t] = "read" /\ ~gate[p].writing /\ gate[p].readers > 0
      BY <1>8 DEF JoinReaders, Admissible, Gate
    <2>2. gate'[p] = [gate[p] EXCEPT !.readers = @ + 1] /\ fileLock' = fileLock
      BY <1>1, <1>8 DEF JoinReaders, IInv, TypeOK
    <2>3. gate'[p].readers = gate[p].readers + 1
          /\ gate'[p].writing = gate[p].writing /\ gate'[p].handle = gate[p].handle
      BY <1>1, <2>2 DEF IInv, TypeOK, Gates
    <2>4. ReadersIn(p)' = ReadersIn(p) \cup {t} /\ t \notin ReadersIn(p)
      BY <1>1, <1>2, <1>4, <1>5, <2>1
    <2>5. Cardinality(ReadersIn(p)') = Cardinality(ReadersIn(p)) + 1
      BY <1>1, <2>4, ReadersFinite, FS_AddElement
    <2>6. \A u \in Holders(p) : mode[u] # "write"
      BY <1>1, <2>1 DEF IInv, GateCounts
    <2>7. GateCounts'
      <3> SUFFICES ASSUME NEW q \in Procs
                   PROVE  /\ gate'[q].readers = Cardinality(ReadersIn(q)')
                          /\ gate'[q].writing <=> \E u \in Holders(q)' : mode'[u] = "write"
        BY DEF GateCounts
      <3>1. CASE q = p
        BY <3>1, <1>1, <1>2, <2>1, <2>3, <2>5, <2>6 DEF IInv, GateCounts
      <3>2. CASE q # p
        BY <3>2, <1>1, <1>3, <1>6, <1>7 DEF IInv, GateCounts
      <3>. QED
        BY <3>1, <3>2
    <2>8. WriterAlone'
      BY <1>1, <1>2, <1>3, <2>1, <2>6 DEF IInv, WriterAlone
    <2>9. HandleIsLock'
      BY <1>7, <2>2, <2>3 DEF IInv, HandleIsLock
    <2>10. Holders(p) # {}
      <3>1. gate[p].readers \in Nat
        BY <1>1 DEF IInv, TypeOK, Gates
      <3>. QED
        BY <1>1, <2>1, <3>1, EmptyGate DEF Empty
    <2>11. FileLockFollowsHolders'
      BY <1>2, <1>3, <2>2, <2>10 DEF IInv, FileLockFollowsHolders
    <2>. QED
      BY <2>7, <2>8, <2>9, <2>11
  <1>9. CASE TakeFileLock(t)
    <2>1. fileLock \in {NoOne, p} /\ fileLock' = p
      BY <1>9 DEF TakeFileLock
    <2>2. Empty(gate[p])
      BY <1>9 DEF TakeFileLock, IInv, GuardIsPoller, Polling, Gate
    <2>3. Holders(p) = {} /\ ReadersIn(p) = {} /\ gate[p].readers = 0 /\ ~gate[p].writing
      BY <1>1, <2>2, EmptyGate DEF ReadersIn, Empty
    <2>4. Holders(p)' = {t}
      BY <1>2, <2>3
    <2>5. /\ gate'[p].readers = IF mode[t] = "read" THEN 1 ELSE 0
          /\ gate'[p].writing <=> mode[t] = "write"
          /\ gate'[p].handle
      <3>1. gate'[p] = [readers |-> IF mode[t] = "read" THEN gate[p].readers + 1
                                                        ELSE gate[p].readers,
                        writing |-> gate[p].writing \/ mode[t] = "write",
                        handle  |-> TRUE]
        BY <1>1, <1>9 DEF TakeFileLock, IInv, TypeOK
      <3>2. gate'[p].readers = IF mode[t] = "read" THEN 1 ELSE 0
        BY <3>1, <2>3
      <3>3. gate'[p].writing = (gate[p].writing \/ mode[t] = "write")
        BY <3>1
      <3>4. gate'[p].handle
        BY <3>1
      <3>. QED
        BY <3>2, <3>3, <3>4, <2>3
    <2>6. Cardinality(ReadersIn(p)') = IF mode[t] = "read" THEN 1 ELSE 0
      <3>1. CASE mode[t] = "read"
        <4>1. ReadersIn(p)' = {} \cup {t}
          BY <1>1, <1>5, <2>4, <3>1
        <4>. QED
          BY <3>1, <4>1, FS_EmptySet, FS_AddElement
      <3>2. CASE mode[t] # "read"
        <4>1. ReadersIn(p)' = {}
          BY <1>1, <1>5, <2>4, <3>2
        <4>. QED
          BY <3>2, <4>1, FS_EmptySet
      <3>. QED
        BY <3>1, <3>2
    <2>7. GateCounts'
      <3> SUFFICES ASSUME NEW q \in Procs
                   PROVE  /\ gate'[q].readers = Cardinality(ReadersIn(q)')
                          /\ gate'[q].writing <=> \E u \in Holders(q)' : mode'[u] = "write"
        BY DEF GateCounts
      <3>1. CASE q = p
        BY <3>1, <1>1, <2>4, <2>5, <2>6
      <3>2. CASE q # p
        BY <3>2, <1>1, <1>3, <1>6, <1>7 DEF IInv, GateCounts
      <3>. QED
        BY <3>1, <3>2
    <2>8. WriterAlone'
      BY <1>1, <1>3, <2>4 DEF IInv, WriterAlone
    <2>9. \A q \in Procs \ {p} : fileLock # q /\ fileLock' # q
      BY <2>1, LockAssumption
    <2>10. HandleIsLock'
      BY <1>7, <2>1, <2>5, <2>9 DEF IInv, HandleIsLock
    <2>11. FileLockFollowsHolders'
      BY <1>3, <2>1, <2>4, <2>9 DEF IInv, FileLockFollowsHolders
    <2>. QED
      BY <2>7, <2>8, <2>10, <2>11
  <1>. QED
    BY <1>8, <1>9

\* One thread less is inside; the last one of a process drops the record lock.
LEMMA ReleaseStep ==
    ASSUME IInv, NEW t \in Threads, Release(t)
    PROVE  GateCounts' /\ WriterAlone' /\ HandleIsLock' /\ FileLockFollowsHolders'
  <1> DEFINE p == ProcOf[t]
             g == CountedOut(t)
  <1>1. /\ p \in Procs
        /\ Holding(t) /\ ~Holding(t)'
        /\ \A u \in Threads \ {t} : Holding(u)' <=> Holding(u)
        /\ mode' = mode
        /\ mode[t] \in Modes
    BY LockAssumption DEF IInv, TypeOK, Release, NotifyAll, Holding
  <1>2. Holders(p)' = Holders(p) \ {t} /\ t \in Holders(p)
    BY <1>1 DEF Holders
  <1>3. \A q \in Procs \ {p} : Holders(q)' = Holders(q)
    BY <1>1 DEF Holders
  <1>4. \A q \in Procs : /\ ReadersIn(q) = {u \in Holders(q) : mode[u] = "read"}
                         /\ ReadersIn(q)' = {u \in Holders(q)' : mode[u] = "read"}
    BY <1>1 DEF ReadersIn
  <1>5. \A q \in Procs \ {p} : ReadersIn(q)' = ReadersIn(q)
    BY <1>3, <1>4
  <1>6. \A q \in Procs \ {p} : gate'[q] = gate[q]
    BY DEF Release, IInv, TypeOK
  <1>7. fileLock = p /\ gate[p].handle
    BY <1>1, <1>2 DEF IInv, FileLockFollowsHolders, HandleIsLock
  <1>8. /\ gate'[p].readers = g.readers
        /\ gate'[p].writing = g.writing
        /\ gate'[p].handle = ~Empty(g)
        /\ fileLock' = IF Empty(g) THEN NoOne ELSE fileLock
    <2>1. g.handle
      BY <1>7 DEF CountedOut, Gate
    <2>2. CASE Empty(g)
      <3>1. gate'[p] = [g EXCEPT !.handle = FALSE] /\ fileLock' = NoOne
        BY <1>1, <1>7, <2>1, <2>2 DEF Release, CloseHandle, IInv, TypeOK
      <3>. QED
        BY <2>2, <3>1 DEF CountedOut
    <2>3. CASE ~Empty(g)
      BY <1>1, <2>1, <2>3 DEF Release, IInv, TypeOK
    <2>. QED
      BY <2>2, <2>3
  <1>9. g.readers = Cardinality(ReadersIn(p)')
    <2>1. CASE mode[t] = "read"
      <3>1. ReadersIn(p)' = ReadersIn(p) \ {t} /\ t \in ReadersIn(p)
        BY <1>1, <1>2, <1>4, <2>1
      <3>2. Cardinality(ReadersIn(p)') = Cardinality(ReadersIn(p)) - 1
        BY <1>1, <3>1, ReadersFinite, FS_RemoveElement
      <3>. QED
        BY <1>1, <2>1, <3>2 DEF CountedOut, Gate, IInv, GateCounts
    <2>2. CASE mode[t] # "read"
      <3>1. ReadersIn(p)' = ReadersIn(p)
        BY <1>1, <1>2, <1>4, <2>2
      <3>. QED
        BY <1>1, <2>2, <3>1 DEF CountedOut, Gate, IInv, GateCounts
    <2>. QED
      BY <2>1, <2>2
  <1>10. g.writing <=> \E u \in Holders(p)' : mode[u] = "write"
    <2>1. CASE mode[t] = "write"
      <3>1. Holders(p)' = {}
        BY <1>1, <1>2, <2>1 DEF IInv, WriterAlone
      <3>. QED
        BY <2>1, <3>1 DEF CountedOut
    <2>2. CASE mode[t] # "write"
      BY <1>1, <1>2, <2>2 DEF CountedOut, Gate, IInv, GateCounts, Modes
    <2>. QED
      BY <2>1, <2>2
  <1>11. Empty(g) <=> Holders(p)' = {}
    <2>1. ReadersIn(p)' \subseteq Threads
      BY DEF ReadersIn, Holders
    <2>2. IsFiniteSet(ReadersIn(p)')
      BY <2>1, LockAssumption, FS_Subset
    <2>3. g.readers = 0 <=> ReadersIn(p)' = {}
      BY <1>9, <2>2, FS_EmptySet
    <2>4. \A u \in Holders(p)' : mode[u] \in Modes
      BY DEF Holders, IInv, TypeOK
    <2>. QED
      BY <1>1, <1>4, <1>10, <2>3, <2>4 DEF Empty, Modes
  <1>12. GateCounts'
    <2> SUFFICES ASSUME NEW q \in Procs
                 PROVE  /\ gate'[q].readers = Cardinality(ReadersIn(q)')
                        /\ gate'[q].writing <=> \E u \in Holders(q)' : mode'[u] = "write"
      BY DEF GateCounts
    <2>1. CASE q = p
      BY <2>1, <1>1, <1>8, <1>9, <1>10
    <2>2. CASE q # p
      BY <2>2, <1>1, <1>3, <1>5, <1>6 DEF IInv, GateCounts
    <2>. QED
      BY <2>1, <2>2
  <1>13. WriterAlone'
    BY <1>1, <1>2, <1>3 DEF IInv, WriterAlone
  <1>14. \A q \in Procs \ {p} : fileLock # q /\ fileLock' # q
    BY <1>7, <1>8, LockAssumption
  <1>15. HandleIsLock'
    BY <1>1, <1>6, <1>7, <1>8, <1>14, LockAssumption DEF IInv, HandleIsLock
  <1>16. FileLockFollowsHolders'
    BY <1>1, <1>3, <1>7, <1>8, <1>11, <1>14, LockAssumption
    DEF IInv, FileLockFollowsHolders
  <1>. QED
    BY <1>12, <1>13, <1>15, <1>16

\* Everybody of a process is gone, with its gate and its record lock.
LEMMA CrashStep ==
    ASSUME IInv, NEW p \in Procs, Crash(p)
    PROVE  GateCounts' /\ WriterAlone' /\ HandleIsLock' /\ FileLockFollowsHolders'
  <1>1. /\ \A u \in Threads : ProcOf[u] = p => ~Holding(u)'
        /\ \A u \in Threads : ProcOf[u] # p => (Holding(u)' <=> Holding(u))
        /\ mode' = mode
    BY DEF Crash, Holding, IInv, TypeOK
  <1>2. Holders(p)' = {} /\ ReadersIn(p)' = {}
    BY <1>1 DEF Holders, ReadersIn
  <1>3. \A q \in Procs \ {p} : Holders(q)' = Holders(q) /\ ReadersIn(q)' = ReadersIn(q)
    BY <1>1 DEF Holders, ReadersIn
  <1>4. gate'[p] = NewGate /\ \A q \in Procs \ {p} : gate'[q] = gate[q]
    BY DEF Crash, IInv, TypeOK
  <1>5. fileLock' = IF fileLock = p THEN NoOne ELSE fileLock
    BY DEF Crash, CloseHandle
  <1>6. Cardinality(ReadersIn(p)') = 0
    BY <1>2, FS_EmptySet
  <1>7. GateCounts'
    <2> SUFFICES ASSUME NEW q \in Procs
                 PROVE  /\ gate'[q].readers = Cardinality(ReadersIn(q)')
                        /\ gate'[q].writing <=> \E u \in Holders(q)' : mode'[u] = "write"
      BY DEF GateCounts
    <2>1. CASE q = p
      BY <2>1, <1>2, <1>4, <1>6 DEF NewGate
    <2>2. CASE q # p
      BY <2>2, <1>1, <1>3, <1>4 DEF IInv, GateCounts
    <2>. QED
      BY <2>1, <2>2
  <1>8. WriterAlone'
    BY <1>1, <1>2, <1>3 DEF IInv, WriterAlone
  <1>9. HandleIsLock' /\ FileLockFollowsHolders'
    BY <1>2, <1>3, <1>4, <1>5, LockAssumption
    DEF IInv, HandleIsLock, FileLockFollowsHolders, NewGate
  <1>. QED
    BY <1>7, <1>8, <1>9
-----------------------------------------------------------------------------
(* The invariant. *)

\* Every other step of a thread leaves the holders alone.
LEMMA OtherStep ==
    ASSUME IInv,
           \/ \E t \in Threads :
                \/ \E m \in Modes : Request(t, m)
                \/ Expire(t) \/ Leave(t)
                \/ BeginPoll(t) \/ Wait(t) \/ WakeByTimeout(t) \/ GateBusy(t)
                \/ LockRefused(t) \/ PollAgain(t) \/ PollBusy(t) \/ Raise(t)
                \/ OpenFails(t)
           \/ UNCHANGED vars
    PROVE  Quiet
  <1>1. CASE UNCHANGED vars
    BY <1>1 DEF vars, Quiet, Holding
  <1>2. ASSUME NEW t \in Threads, NEW m \in Modes, Request(t, m)
        PROVE  Quiet
    BY <1>2 DEF Request, Goto, Quiet, Holding, IInv, TypeOK
  <1>3. ASSUME NEW t \in Threads, PollBusy(t)
        PROVE  Quiet
    <2>1. ProcOf[t] \in Procs /\ Empty(gate[ProcOf[t]])
      BY <1>3, LockAssumption DEF PollBusy, IInv, GuardIsPoller, Polling, Gate
    <2>2. fileLock # ProcOf[t]
      BY <2>1, EmptyGate DEF IInv, FileLockFollowsHolders
    <2>. QED
      BY <1>3, <2>2 DEF PollBusy, CloseHandle, Goto, Quiet, Holding, IInv, TypeOK
  <1>4. ASSUME NEW t \in Threads,
               Expire(t) \/ Leave(t) \/ BeginPoll(t) \/ Wait(t)
                 \/ WakeByTimeout(t) \/ GateBusy(t) \/ Raise(t)
                 \/ LockRefused(t) \/ PollAgain(t) \/ OpenFails(t)
        PROVE  Quiet
    BY <1>4 DEF Expire, Leave, BeginPoll, Wait, WakeByTimeout, GateBusy, Raise,
                LockRefused, PollAgain, OpenFails, HasGuard, Goto, Quiet, Holding, IInv, TypeOK
  <1>. QED
    BY <1>1, <1>2, <1>3, <1>4

LEMMA GuardStep ==
    ASSUME IInv, [Next]_vars
    PROVE  GuardIsPoller'
  <1> USE LockAssumption DEF IInv, TypeOK, GuardIsPoller, Polling, Goto, Gate
  <1>1. ASSUME NEW t \in Threads, NEW m \in Modes, Request(t, m)
        PROVE  GuardIsPoller'
    BY <1>1 DEF Request
  <1>2. ASSUME NEW t \in Threads,
               Expire(t) \/ Leave(t) \/ Wait(t) \/ WakeByTimeout(t)
                 \/ GateBusy(t) \/ Raise(t) \/ OpenFails(t)
        PROVE  GuardIsPoller'
    BY <1>2 DEF Expire, Leave, Wait, WakeByTimeout, GateBusy, Raise, OpenFails, HasGuard
  <1>3. ASSUME NEW t \in Threads, BeginPoll(t)
        PROVE  GuardIsPoller'
    <2>1. mode[t] \in Modes /\ Empty(gate[ProcOf[t]])
      BY <1>3 DEF BeginPoll, IsFirst, Admissible, Empty, Modes
    <2>. QED
      BY <1>3, <2>1 DEF BeginPoll, HasGuard, GuardFree
  <1>4. ASSUME NEW t \in Threads, JoinReaders(t)
        PROVE  GuardIsPoller'
    BY <1>4 DEF JoinReaders, HasGuard, GuardFree
  <1>5. ASSUME NEW t \in Threads, TakeFileLock(t) \/ PollBusy(t)
        PROVE  GuardIsPoller'
    <2>1. Polling(t) /\ ~Polling(t)'
      BY <1>5 DEF TakeFileLock, PollBusy
    <2>2. \A u \in Threads \ {t} : pc'[u] = pc[u]
      BY <1>5 DEF TakeFileLock, PollBusy
    <2>3. guard' = [guard EXCEPT ![ProcOf[t]] = NoOne]
      BY <1>5 DEF TakeFileLock, PollBusy
    <2>4. \A q \in Procs \ {ProcOf[t]} : gate'[q] = gate[q]
      BY <1>5 DEF TakeFileLock, PollBusy
    <2>. QED
      BY <2>1, <2>2, <2>3, <2>4
  <1>9. ASSUME NEW t \in Threads, LockRefused(t) \/ PollAgain(t)
        PROVE  GuardIsPoller'
    <2>1. Polling(t) /\ Polling(t)' /\ UNCHANGED <<guard, gate>>
      BY <1>9 DEF LockRefused, PollAgain
    <2>2. \A u \in Threads \ {t} : pc'[u] = pc[u]
      BY <1>9 DEF LockRefused, PollAgain
    <2>. QED
      BY <2>1, <2>2
  <1>6. ASSUME NEW t \in Threads, Release(t)
        PROVE  GuardIsPoller'
    <2>1. guard[ProcOf[t]] = NoOne /\ guard' = guard
      BY <1>6 DEF Release, GuardFree
    <2>2. \A u \in Threads : Polling(u)' <=> Polling(u)
      BY <1>6 DEF Release, NotifyAll
    <2>3. \A q \in Procs \ {ProcOf[t]} : gate'[q] = gate[q]
      BY <1>6 DEF Release
    <2>. QED
      BY <2>1, <2>2, <2>3
  <1>7. ASSUME NEW p \in Procs, Crash(p)
        PROVE  GuardIsPoller'
    BY <1>7 DEF Crash
  <1>8. CASE UNCHANGED vars
    BY <1>8 DEF vars
  <1>. QED
    BY <1>1, <1>2, <1>3, <1>4, <1>5, <1>6, <1>7, <1>8, <1>9 DEF Next, Advance

LEMMA InitInv == Init => IInv
  <1> SUFFICES ASSUME Init PROVE IInv
    OBVIOUS
  <1> USE LockAssumption
  <1>1. \A p \in Procs : Holders(p) = {} /\ ReadersIn(p) = {}
    BY DEF Init, Holders, Holding, ReadersIn
  <1>2. GateCounts
    BY <1>1, FS_EmptySet DEF GateCounts, Init, NewGate
  <1>3. WriterAlone /\ HandleIsLock /\ FileLockFollowsHolders
    BY <1>1 DEF WriterAlone, HandleIsLock, FileLockFollowsHolders, Init, NewGate
  <1>4. GuardIsPoller
    BY DEF GuardIsPoller, Polling, Init
  <1>. QED
    BY <1>2, <1>3, <1>4, InitType DEF IInv

LEMMA StepInv == IInv /\ [Next]_vars => IInv'
  <1> SUFFICES ASSUME IInv, [Next]_vars PROVE IInv'
    OBVIOUS
  <1>1. TypeOK'
    BY NextType DEF IInv
  <1>2. GuardIsPoller'
    BY GuardStep
  <1>3. GateCounts' /\ WriterAlone' /\ HandleIsLock' /\ FileLockFollowsHolders'
    BY QuietStep, OtherStep, EntryStep, ReleaseStep, CrashStep DEF Next, Advance
  <1>. QED
    BY <1>1, <1>2, <1>3 DEF IInv

THEOREM Invariance == Spec => []IInv
  BY InitInv, StepInv, PTL DEF Spec
-----------------------------------------------------------------------------
\* Every variable keeps its type whatever the interleaving, the timeouts and the
\* process deaths; in particular a reader count never goes below zero.
THEOREM TypeCorrectness == Spec => []TypeOK
  <1>1. IInv => TypeOK
    BY DEF IInv
  <1>. QED
    BY <1>1, Invariance, PTL

LEMMA InvMutex == IInv => MutualExclusion
  <1> SUFFICES ASSUME IInv, NEW s \in Threads, NEW t \in Threads,
                      s # t, Holding(s), Holding(t)
               PROVE  /\ ProcOf[s] = ProcOf[t]
                      /\ mode[s] = "read" /\ mode[t] = "read"
    BY DEF MutualExclusion
  <1>1. /\ ProcOf[s] \in Procs /\ ProcOf[t] \in Procs
        /\ s \in Holders(ProcOf[s]) /\ t \in Holders(ProcOf[t])
    BY LockAssumption DEF Holders
  <1>2. ProcOf[s] = ProcOf[t]
    BY <1>1 DEF IInv, FileLockFollowsHolders
  <1>3. mode[s] # "write" /\ mode[t] # "write"
    BY <1>1, <1>2 DEF IInv, WriterAlone
  <1>. QED
    BY <1>2, <1>3 DEF IInv, TypeOK, Modes

\* A writer is alone with its log among all threads of all processes; readers
\* share it only inside one process.
THEOREM Exclusion == Spec => []MutualExclusion
  BY InvMutex, Invariance, PTL

\* The record lock is owned by a process exactly while one of its threads is
\* inside: no close of a handle loses it early, no way out leaves it behind.
THEOREM LockOwnership == Spec => []FileLockFollowsHolders
  <1>1. IInv => FileLockFollowsHolders
    BY DEF IInv
  <1>. QED
    BY <1>1, Invariance, PTL

LEMMA InvPoll == IInv => PollNeverBlocksRelease
  <1> SUFFICES ASSUME IInv, NEW t \in Threads, Holding(t), ~GuardFree(t)
               PROVE  FALSE
    BY DEF PollNeverBlocksRelease
  <1>1. ProcOf[t] \in Procs /\ t \in Holders(ProcOf[t])
    BY LockAssumption DEF Holders
  <1>2. PICK u \in Threads : u = guard[ProcOf[t]]
    BY <1>1 DEF GuardFree, IInv, TypeOK
  <1>3. ProcOf[u] = ProcOf[t] /\ Polling(u)
    BY <1>1, <1>2 DEF GuardFree, IInv, GuardIsPoller
  <1>4. Empty(gate[ProcOf[t]])
    BY <1>3 DEF IInv, GuardIsPoller, Gate
  <1>. QED
    BY <1>1, <1>4, EmptyGate

\* A holder on its way out never finds the guard kept by a poller.
THEOREM PollOnlyWhenEmpty == Spec => []PollNeverBlocksRelease
  BY InvPoll, Invariance, PTL
-----------------------------------------------------------------------------
(* Waking up, and being refused. *)

LEMMA WakeupStep ==
    ASSUME IInv, NoLostWakeup, [Next]_vars
    PROVE  NoLostWakeup'
  <1> SUFFICES ASSUME NEW t \in Threads, pc'[t] = "waiting"
               PROVE  ~Admissible(t)'
    BY DEF NoLostWakeup
  <1> USE LockAssumption DEF IInv, TypeOK, Goto
  <1>1. ASSUME NEW u \in Threads, NEW m \in Modes, Request(u, m)
        PROVE  ~Admissible(t)'
    BY <1>1 DEF Request, NoLostWakeup, Admissible, Gate
  <1>2. ASSUME NEW u \in Threads,
               Expire(u) \/ Leave(u) \/ BeginPoll(u) \/ Wait(u) \/ WakeByTimeout(u)
                 \/ GateBusy(u) \/ Raise(u) \/ PollBusy(u)
                 \/ LockRefused(u) \/ PollAgain(u) \/ OpenFails(u)
        PROVE  ~Admissible(t)'
    BY <1>2 DEF Expire, Leave, BeginPoll, Wait, WakeByTimeout, GateBusy, Raise,
                PollBusy, LockRefused, PollAgain, OpenFails, HasGuard, NoLostWakeup, Admissible, Gate
  <1>3. ASSUME NEW u \in Threads, JoinReaders(u)
        PROVE  ~Admissible(t)'
    <2>1. pc[t] = "waiting" /\ ~Admissible(t) /\ mode' = mode
      BY <1>3 DEF JoinReaders, NoLostWakeup
    <2>2. CASE ProcOf[t] = ProcOf[u]
      <3>1. ~gate[ProcOf[u]].writing /\ gate[ProcOf[u]].readers > 0
        BY <1>3 DEF JoinReaders, Admissible, Gate
      <3>2. gate'[ProcOf[u]].readers = gate[ProcOf[u]].readers + 1
        BY <1>3 DEF JoinReaders, Gates
      <3>3. gate[ProcOf[u]].readers \in Nat
        BY DEF Gates
      <3>. QED
        BY <2>1, <2>2, <3>1, <3>2, <3>3 DEF Admissible, Gate
    <2>3. CASE ProcOf[t] # ProcOf[u]
      BY <1>3, <2>1, <2>3 DEF JoinReaders, Admissible, Gate
    <2>. QED
      BY <2>2, <2>3
  <1>4. ASSUME NEW u \in Threads, TakeFileLock(u)
        PROVE  ~Admissible(t)'
    <2>1. pc[t] = "waiting" /\ ~Admissible(t) /\ mode' = mode
      BY <1>4 DEF TakeFileLock, NoLostWakeup
    <2>2. ProcOf[t] # ProcOf[u]
      BY <1>4, <2>1 DEF TakeFileLock, GuardIsPoller, Polling, Empty, Admissible, Gate
    <2>. QED
      BY <1>4, <2>1, <2>2 DEF TakeFileLock, Admissible, Gate
  <1>5. ASSUME NEW u \in Threads, Release(u)
        PROVE  ~Admissible(t)'
    <2>1. pc[t] = "waiting" /\ ProcOf[t] # ProcOf[u] /\ mode' = mode
      BY <1>5 DEF Release, NotifyAll
    <2>. QED
      BY <1>5, <2>1 DEF Release, NoLostWakeup, Admissible, Gate
  <1>6. ASSUME NEW p \in Procs, Crash(p)
        PROVE  ~Admissible(t)'
    BY <1>6 DEF Crash, NoLostWakeup, Admissible, Gate
  <1>7. CASE UNCHANGED vars
    BY <1>7 DEF vars, NoLostWakeup, Admissible, Gate
  <1>. QED
    BY <1>1, <1>2, <1>3, <1>4, <1>5, <1>6, <1>7 DEF Next, Advance

\* A sleeping thread always has a holder of its own process in its way.
THEOREM WakeupNeverLost == Spec => []NoLostWakeup
  <1>1. Init => NoLostWakeup
    BY DEF Init, NoLostWakeup
  <1>. QED
    BY <1>1, WakeupStep, Invariance, PTL DEF Spec

LEMMA BusyStep ==
    ASSUME IInv, [Next]_vars, NEW t \in Threads,
           pc'[t] \in {"refused", "busy"}, pc[t] \notin {"refused", "busy"}
    PROVE  \E u \in Threads \ {t} : Holding(u)
  <1>1. GateBusy(t) \/ LockRefused(t)
    <2>1. pc \in [Threads -> Locations]
      BY DEF IInv, TypeOK
    <2>2. \A u \in Threads :
            ~ \/ \E m \in Modes : Request(u, m)
              \/ Expire(u) \/ JoinReaders(u) \/ BeginPoll(u) \/ Wait(u)
              \/ WakeByTimeout(u) \/ TakeFileLock(u) \/ Raise(u) \/ Leave(u)
              \/ PollAgain(u) \/ OpenFails(u)
      BY <2>1 DEF Request, Expire, JoinReaders, BeginPoll, Wait, WakeByTimeout,
                  TakeFileLock, Raise, Leave, PollAgain, OpenFails, Goto
    <2>3. \A u \in Threads : ~Release(u)
      BY <2>1 DEF Release, NotifyAll
    <2>4. \A p \in Procs : ~Crash(p)
      BY <2>1 DEF Crash
    <2>5. \A u \in Threads :
            /\ GateBusy(u) \/ LockRefused(u) => u = t
            /\ ~PollBusy(u)
      BY <2>1 DEF GateBusy, LockRefused, PollBusy, Goto
    <2>. QED
      BY <2>2, <2>3, <2>4, <2>5 DEF Next, Advance, vars
  <1>2. ProcOf[t] \in Procs /\ ~Holding(t)
    BY <1>1, LockAssumption DEF GateBusy, LockRefused, HasGuard, Holding
  <1>3. PICK p \in Procs : Holders(p) # {}
    <2>1. CASE GateBusy(t)
      <3>1. ~Empty(gate[ProcOf[t]])
        BY <2>1 DEF GateBusy, Admissible, Empty, Gate
      <3>. QED
        BY <1>2, <3>1, EmptyGate
    <2>2. CASE LockRefused(t)
      BY <2>2 DEF LockRefused, IInv, TypeOK, FileLockFollowsHolders
    <2>. QED
      BY <1>1, <2>1, <2>2
  <1>. QED
    BY <1>2, <1>3 DEF Holders

\* Nobody is refused, and so JournalBusy never raised, over a log that nobody else was
\* inside when it was last tried.
THEOREM BusyIsTruthful == Spec => BusyMeansHeld
  <1>1. IInv /\ [Next]_vars
          => [\A t \in Threads :
                pc'[t] \in {"refused", "busy"} /\ pc[t] \notin {"refused", "busy"}
                  => \E u \in Threads \ {t} : Holding(u)]_vars
    BY BusyStep
  <1>. QED
    BY <1>1, Invariance, PTL DEF Spec, BusyMeansHeld
-----------------------------------------------------------------------------
(* The refinement: entries are acquisitions, ways out are releases. *)

heldMode == [t \in Threads |-> IF Holding(t) THEN mode[t] ELSE "none"]

LEMMA AcquireRefined ==
    ASSUME IInv, IInv', NEW t \in Threads, JoinReaders(t) \/ TakeFileLock(t)
    PROVE  Abstract!Acquire(t, mode[t])
  <1>1. /\ ~Holding(t) /\ Holding(t)'
        /\ \A u \in Threads \ {t} : Holding(u)' <=> Holding(u)
        /\ mode' = mode
        /\ mode \in [Threads -> Modes]
    BY DEF IInv, TypeOK, JoinReaders, TakeFileLock, HasGuard, Goto, Holding
  <1>2. \A u \in Threads \ {t} : Holding(u) => mode[u] = "read" /\ mode[t] = "read"
    <2>1. MutualExclusion'
      BY InvMutex, PTL
    <2>. QED
      BY <1>1, <2>1 DEF MutualExclusion
  <1>3. Abstract!Compatible(t, mode[t])
    BY <1>2 DEF Abstract!Compatible
  <1>4. heldMode' = [heldMode EXCEPT ![t] = mode[t]]
    BY <1>1 DEF heldMode
  <1>. QED
    BY <1>1, <1>3, <1>4 DEF Abstract!Acquire, heldMode

LEMMA ReleaseRefined ==
    ASSUME IInv, (\E t \in Threads : Release(t)) \/ (\E p \in Procs : Crash(p))
    PROVE  \E S \in SUBSET Threads : Abstract!Release(S)
  <1>1. CASE \E t \in Threads : Release(t)
    <2>1. PICK t \in Threads : Release(t)
      BY <1>1
    <2>2. /\ ~Holding(t)' /\ mode' = mode
          /\ \A u \in Threads \ {t} : Holding(u)' <=> Holding(u)
      BY <2>1 DEF Release, NotifyAll, Holding, IInv, TypeOK
    <2>3. Abstract!Release({t})
      BY <2>2 DEF Abstract!Release
    <2>. QED
      BY <2>3
  <1>2. CASE \E p \in Procs : Crash(p)
    <2>1. PICK p \in Procs : Crash(p)
      BY <1>2
    <2> DEFINE S == {t \in Threads : ProcOf[t] = p}
    <2>2. /\ \A u \in S : ~Holding(u)'
          /\ \A u \in Threads \ S : Holding(u)' <=> Holding(u)
          /\ mode' = mode
      BY <2>1 DEF Crash, Holding, IInv, TypeOK
    <2>3. Abstract!Release(S)
      BY <2>2 DEF Abstract!Release
    <2>. QED
      BY <2>3
  <1>. QED
    BY <1>1, <1>2

LEMMA StepRefined ==
    ASSUME IInv, IInv', [Next]_vars
    PROVE  [Abstract!RWNext]_heldMode
  <1>1. Quiet => UNCHANGED heldMode
    BY DEF Quiet, heldMode
  <1>2. ASSUME NEW t \in Threads, JoinReaders(t) \/ TakeFileLock(t)
        PROVE  Abstract!RWNext
    <2>1. mode[t] \in Abstract!Modes
      BY DEF IInv, TypeOK, Modes, Abstract!Modes
    <2>2. Abstract!Acquire(t, mode[t])
      BY <1>2, AcquireRefined
    <2>. QED
      BY <2>1, <2>2 DEF Abstract!RWNext, Abstract!Acquire, Abstract!Modes
  <1>3. (\E t \in Threads : Release(t)) \/ (\E p \in Procs : Crash(p)) => Abstract!RWNext
    BY ReleaseRefined DEF Abstract!RWNext
  <1>. QED
    BY <1>1, <1>2, <1>3, OtherStep DEF Next, Advance

\* The gate, the guard and the record lock together are a reader-writer lock:
\* every step of `_locked` is an acquisition, a release or invisible.
THEOREM Refinement == Spec => ImplementsRWLock
  <1>1. Init => Abstract!RWInit
    BY DEF Init, Abstract!RWInit, Holding
  <1>2. Spec => [][Abstract!RWNext]_heldMode
    BY StepRefined, Invariance, PTL DEF Spec
  <1>. QED
    BY <1>1, <1>2, PTL DEF Spec, ImplementsRWLock, Abstract!RWSpec, heldMode
=============================================================================
