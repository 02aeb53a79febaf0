------------------------------- MODULE LogProofs -------------------------------
(***************************************************************************)
(* The decision log, proved for every close and every number of threads.   *)
(*                                                                         *)
(* First its file: deleted and written again event by event, it implements *)
(* a record that changes in one step from one chained log to another.  The *)
(* lock is what does it, and the invariant says how: a thread is where it  *)
(* is because of what it holds, the log that nobody rewrites is the one    *)
(* that was last left, and a close that is writing has put down nothing    *)
(* but its own events, as many as it counted.                              *)
(*                                                                         *)
(* Then what stands in it: what the readers, the signature and the screens *)
(* say of a close is what the close decided (Record, Desk).                *)
(***************************************************************************)
EXTENDS DecisionLog, Desk, Sums

-----------------------------------------------------------------------------
(* The file.                                                               *)

Inside == {"opening", "deriving", "writing", "written"}
Viewing == {"reading", "read"}

Held ==
    \A t \in Threads :
        /\ holding[t] = "write" <=> pc[t] \in Inside
        /\ holding[t] = "read" <=> pc[t] \in Viewing
        /\ pc[t] \in Inside => t \in Closers

Exclusive ==
    \A t, u \in Threads : t # u /\ holding[t] = "write" => holding[u] = "none"

\* The log so far of a close that is writing it.
Own(c) == Len(file) = count[c] /\ \A i \in DOMAIN file : file[i].close = id[c]
Written ==
    /\ Chained(file) /\ Chained(published)
    /\ \A c \in Closers : pc[c] \in {"deriving", "writing"} => Own(c)

AsLeft == (\A t \in Threads : holding[t] # "write") => published = file

Viewed == \A t \in Threads : seen[t] # <<>> => pc[t] \in {"read", "answered"}

IInv == TypeOK /\ Held /\ Exclusive /\ Written /\ AsLeft /\ Viewed
-----------------------------------------------------------------------------
LEMMA Facts ==
    /\ Closers \subseteq Threads /\ Readers \subseteq Threads
    /\ <<>> \in Seq(Events) /\ Chained(<<>>)
BY DEF Threads, Chained

LEMMA Begins == Init => IInv
<1> SUFFICES ASSUME Init PROVE IInv
    OBVIOUS
<1> USE Facts DEF Init, Lock!RWInit
<1>1. TypeOK
    BY DEF TypeOK, Locations
<1>2. Held /\ Exclusive /\ Written /\ AsLeft /\ Viewed
    BY DEF Held, Inside, Viewing, Exclusive, Written, AsLeft, Viewed
<1> QED BY <1>1, <1>2 DEF IInv

\* A thread goes on without taking or leaving the lock.
LEMMA GoesOn ==
    ASSUME IInv, NEW t \in Threads, NEW l \in Locations, Goto(t, l),
           l \in Inside <=> pc[t] \in Inside, l \in Viewing <=> pc[t] \in Viewing,
           l \in {"deriving", "writing"} => pc[t] \in {"deriving", "writing"},
           UNCHANGED <<file, holding, id, count, opened, published>>,
           body' \in [Closers -> Seq(Kinds)], started' \in Nat, crashes' \in Nat,
           seen' \in [Threads -> Seq(Events)],
           \A u \in Threads : u # t => seen'[u] = seen[u],
           seen'[t] # <<>> => l \in {"read", "answered"}
    PROVE  IInv'
<1> USE Facts DEF IInv
<1>1. /\ pc' \in [Threads -> Locations] /\ pc'[t] = l
      /\ \A u \in Threads : u # t => pc'[u] = pc[u]
    BY DEF Goto, TypeOK
<1>2. TypeOK'
    BY <1>1 DEF TypeOK
<1>3. Held' /\ Exclusive' /\ AsLeft'
    BY <1>1 DEF Held, Exclusive, AsLeft
<1>4. Written'
    BY <1>1 DEF Written, Own, Chained, Hash
<1>5. Viewed'
    BY <1>1 DEF Viewed
<1> QED BY <1>2, <1>3, <1>4, <1>5

\* A thread leaves the lock: the log is left as it is.
LEMMA Leaves ==
    ASSUME IInv, NEW t \in Threads, NEW l \in Locations \ (Inside \cup Viewing), Goto(t, l),
           Lock!Release({t}), published' = IF holding[t] = "write" THEN file ELSE published,
           UNCHANGED <<file, body, id, count, opened, started>>, crashes' \in Nat,
           seen' \in [Threads -> Seq(Events)],
           \A u \in Threads : u # t => seen'[u] = seen[u],
           seen'[t] # <<>> => l = "answered"
    PROVE  IInv'
<1> USE Facts DEF IInv
<1>1. /\ pc' \in [Threads -> Locations] /\ pc'[t] = l
      /\ \A u \in Threads : u # t => pc'[u] = pc[u]
    BY DEF Goto, TypeOK
<1>2. /\ holding' \in [Threads -> {"none", "read", "write"}] /\ holding'[t] = "none"
      /\ \A u \in Threads : u # t => holding'[u] = holding[u]
    BY DEF Lock!Release, TypeOK
<1>3. TypeOK'
    BY <1>1, <1>2 DEF TypeOK
<1>4. Held' /\ Exclusive'
  <2>1. t \in Threads /\ l \notin Inside /\ l \notin Viewing /\ Held /\ Exclusive
      OBVIOUS
  <2>2. Held'
      BY ONLY <1>1, <1>2, <2>1 DEF Held
  <2>3. Exclusive'
      BY ONLY <1>2, <2>1 DEF Exclusive
  <2> QED BY <2>2, <2>3
<1>5. Written'
    BY <1>1 DEF Written, Own, Chained, Hash, Inside
<1>6. AsLeft'
    BY <1>2 DEF AsLeft
<1>7. Viewed'
    BY <1>1 DEF Viewed
<1> QED BY <1>3, <1>4, <1>5, <1>6, <1>7

LEMMA Enters ==
    ASSUME IInv, NEW t \in Threads, NEW m \in {"read", "write"}, NEW l \in Locations,
           Lock!Acquire(t, m), Goto(t, l), m = "write" => t \in Closers,
           l = IF m = "write" THEN "opening" ELSE "reading", pc[t] \in {"closing", "asking"},
           UNCHANGED <<file, body, id, count, seen, opened, started, crashes, published>>
    PROVE  IInv'
<1> USE Facts DEF IInv
<1>1. /\ pc' \in [Threads -> Locations] /\ pc'[t] = l
      /\ \A u \in Threads : u # t => pc'[u] = pc[u]
    BY DEF Goto, TypeOK
<1>2. /\ holding' \in [Threads -> {"none", "read", "write"}] /\ holding'[t] = m
      /\ \A u \in Threads : u # t => holding'[u] = holding[u]
    BY DEF Lock!Acquire, TypeOK
<1>3. TypeOK'
    BY <1>1, <1>2 DEF TypeOK
<1>4. Held'
    BY <1>1, <1>2 DEF Held, Inside, Viewing
<1>5. Exclusive' /\ AsLeft'
    BY <1>2 DEF Exclusive, AsLeft, Lock!Acquire, Lock!Compatible
<1>6. Written' /\ Viewed'
    BY <1>1 DEF Written, Own, Chained, Hash, Viewed
<1> QED BY <1>3, <1>4, <1>5, <1>6

\* The log as a close changes it, with the lock held.
LEMMA Rewrites ==
    ASSUME IInv, NEW c \in Closers, NEW l \in Inside, pc[c] \in Inside, Goto(c, l),
           UNCHANGED <<holding, body, seen, started, crashes, published>>,
           file' \in Seq(Events), Chained(file)', l \in {"deriving", "writing"} => Own(c)',
           id' \in [Closers -> Nat], count' \in [Closers -> Nat], opened' \in Nat
    PROVE  IInv'
<1> USE Facts DEF IInv
<1>1. /\ pc' \in [Threads -> Locations] /\ pc'[c] = l
      /\ \A u \in Threads : u # c => pc'[u] = pc[u]
    BY DEF Goto, TypeOK, Inside, Locations
<1>2. TypeOK'
    BY <1>1 DEF TypeOK
<1>3. holding[c] = "write" /\ \A u \in Threads : u # c => pc[u] \notin Inside
    BY DEF Held, Exclusive
<1>4. Held' /\ Exclusive'
  <2>1. l \notin Viewing /\ pc[c] \notin Viewing
      BY DEF Inside, Viewing
  <2> QED BY <1>1, <2>1 DEF Held, Exclusive
<1>5. Written'
  <2>1. \A d \in Closers : pc'[d] \in {"deriving", "writing"} => d = c
      BY <1>1, <1>3 DEF Inside
  <2>2. Chained(published)'
      BY DEF Written, Chained, Hash
  <2> QED BY <1>1, <2>1, <2>2 DEF Written
<1>6. AsLeft'
    BY <1>3 DEF AsLeft
<1>7. Viewed'
    BY <1>1 DEF Viewed, Inside
<1> QED BY <1>2, <1>4, <1>5, <1>6, <1>7
-----------------------------------------------------------------------------
LEMMA CloseSteps ==
    ASSUME IInv, NEW c \in Closers,
           \/ \E b \in Bodies : StartClose(c, b)
           \/ EnterWrite(c) \/ Derive(c) \/ DeriveFails(c) \/ LeaveWrite(c)
    PROVE  IInv'
<1> USE Facts
<1>1. ASSUME NEW b \in Bodies, StartClose(c, b) PROVE IInv'
  <2>1. <<"CloseStarted">> \o b \o <<"CloseCompleted">> \in Seq(Kinds)
    <3>1. b \in Seq(Kinds)
        BY LogAssumption
    <3>2. <<"CloseStarted">> \in Seq(Kinds) /\ <<"CloseCompleted">> \in Seq(Kinds)
        BY DEF Kinds
    <3> QED BY <3>1, <3>2
  <2>2. body' \in [Closers -> Seq(Kinds)] /\ started' \in Nat
      BY <1>1, <2>1 DEF StartClose, IInv, TypeOK
  <2> QED BY <1>1, <2>2, GoesOn DEF StartClose, IInv, TypeOK, Viewed, Locations, Inside, Viewing
<1>2. CASE EnterWrite(c)
    BY <1>2, Enters DEF EnterWrite, Locations
<1>3. CASE Derive(c)
    BY <1>3, GoesOn DEF Derive, IInv, TypeOK, Viewed, Locations, Inside, Viewing
<1>4. CASE DeriveFails(c) \/ LeaveWrite(c)
  <2> DEFINE l == IF DeriveFails(c) THEN "failed" ELSE "lookup"
  <2>1. /\ pc[c] \in Inside /\ l \in Locations \ (Inside \cup Viewing) /\ Goto(c, l)
        /\ Lock!Release({c}) /\ published' = file
        /\ UNCHANGED <<file, body, id, count, seen, opened, started, crashes>>
      BY <1>4 DEF DeriveFails, LeaveWrite, Goto, Inside, Viewing, Locations
  <2>2. holding[c] = "write" /\ seen[c] = <<>> /\ seen \in [Threads -> Seq(Events)]
        /\ crashes \in Nat
      BY <2>1 DEF IInv, Held, Viewed, Inside, TypeOK
  <2> HIDE DEF l
  <2> QED BY <2>1, <2>2, Leaves
<1> QED BY <1>1, <1>2, <1>3, <1>4

LEMMA Opens == ASSUME IInv, NEW c \in Closers, OpenFresh(c) PROVE IInv'
<1>1. /\ id' \in [Closers -> Nat] /\ count' \in [Closers -> Nat] /\ opened' \in Nat
      /\ count'[c] = 0 /\ file' = <<>>
    BY DEF OpenFresh, IInv, TypeOK
<1>2. Chained(file)' /\ Own(c)' /\ file' \in Seq(Events)
    BY <1>1, Facts DEF Own, Chained
<1> QED BY <1>1, <1>2, Rewrites DEF OpenFresh, Inside

\* One event more: it has the next place, and the hash of the one before it.
LEMMA Writes == ASSUME IInv, NEW c \in Closers, WriteEvent(c) PROVE IInv'
<1> DEFINE e == NextEvent(c)
           n == count[c]
           l == IF n + 1 = Len(body[c]) THEN "written" ELSE "writing"
<1>1. /\ file \in Seq(Events) /\ n \in Nat /\ id[c] \in Nat /\ body[c] \in Seq(Kinds)
      /\ Len(file) = n /\ Chained(file) /\ \A i \in DOMAIN file : file[i].close = id[c]
    BY DEF WriteEvent, IInv, TypeOK, Written, Own
<1>2. /\ e.close = id[c] /\ e.seq = n
      /\ e.prev = IF n = 0 THEN Genesis ELSE <<id[c], n>>
    BY DEF NextEvent
<1>3. e \in Events
  <2>1. n + 1 \in 1..Len(body[c])
      BY <1>1 DEF WriteEvent
  <2>2. body[c][n + 1] \in Kinds
      BY <1>1, <2>1
  <2>3. (IF n = 0 THEN Genesis ELSE <<id[c], n>>) \in Hashes
      BY <1>1 DEF Genesis, Hashes
  <2> QED BY <1>1, <2>2, <2>3 DEF NextEvent, Events
<1> HIDE DEF e
<1>4. file' = Append(file, e) /\ file' \in Seq(Events)
    BY <1>1, <1>3 DEF WriteEvent, e
<1>5. /\ DOMAIN file' = 1..(n + 1) /\ DOMAIN file = 1..n /\ Len(file') = n + 1
      /\ file'[n + 1] = e /\ \A i \in 1..n : file'[i] = file[i]
    BY <1>1, <1>3, <1>4
<1>6. Chained(file)'
  <2> SUFFICES ASSUME NEW i \in 1..(n + 1)
               PROVE  /\ file'[i].seq = i - 1
                      /\ file'[i].prev = IF i = 1 THEN Genesis ELSE Hash(file'[i - 1])
      BY <1>5 DEF Chained, Hash
  <2>1. CASE i \in 1..n
    <3>1. i = 1 \/ i - 1 \in 1..n
        BY <1>1, <2>1
    <3>2. file[i].seq = i - 1 /\ file[i].prev = IF i = 1 THEN Genesis ELSE Hash(file[i - 1])
        BY <1>1, <1>5, <2>1 DEF Chained
    <3> QED BY <1>5, <2>1, <3>1, <3>2
  <2>2. CASE i = n + 1
    <3>1. file'[i].seq = i - 1
        BY <1>1, <1>2, <1>5, <2>2
    <3>2. CASE n = 0
        BY <1>2, <1>5, <2>2, <3>2
    <3>3. CASE n # 0
      <4>1. n \in 1..n /\ i - 1 = n /\ i # 1
          BY <1>1, <2>2, <3>3
      <4>2. file'[n].close = id[c] /\ file'[n].seq = n - 1
          BY <1>1, <1>5, <4>1 DEF Chained
      <4>3. Hash(file'[i - 1]) = <<id[c], n>>
          BY <1>1, <4>1, <4>2 DEF Hash
      <4> QED BY <1>2, <1>5, <2>2, <3>1, <3>3, <4>1, <4>3
    <3> QED BY <3>1, <3>2, <3>3
  <2> QED BY <1>1, <2>1, <2>2
<1>7. count' \in [Closers -> Nat] /\ count'[c] = n + 1 /\ UNCHANGED <<id, opened>>
    BY <1>1 DEF WriteEvent, IInv, TypeOK
<1>8. Own(c)'
    BY <1>1, <1>2, <1>5, <1>7 DEF Own
<1>9. /\ Goto(c, l) /\ l \in Inside /\ pc[c] \in Inside
      /\ UNCHANGED <<holding, body, seen, started, crashes, published>>
    BY DEF WriteEvent, Inside
<1>10. id' \in [Closers -> Nat] /\ opened' \in Nat
    BY <1>7 DEF IInv, TypeOK
<1> HIDE DEF l, n
<1> QED BY <1>4, <1>6, <1>7, <1>8, <1>9, <1>10, Rewrites

LEMMA RequestSteps ==
    ASSUME IInv, NEW t \in Threads,
           Ask(t) \/ Lookup(t) \/ EnterRead(t) \/ ReadLog(t) \/ Busy(t) \/ Finish(t)
    PROVE  IInv'
<1> USE Facts
<1>0. /\ seen \in [Threads -> Seq(Events)] /\ file \in Seq(Events)
      /\ body \in [Closers -> Seq(Kinds)]
      /\ started \in Nat /\ crashes \in Nat
    BY DEF IInv, TypeOK
<1>1. CASE Ask(t) \/ Lookup(t) \/ Busy(t)
  <2>1. PICK l \in {"lookup", "missing", "asking", "busy"} : Goto(t, l)
      BY <1>1 DEF Ask, Lookup, Busy
  <2>2. /\ pc[t] \in {"idle", "lookup", "closing", "asking"}
        /\ UNCHANGED <<file, holding, body, id, count, seen, opened, started, crashes, published>>
      BY <1>1 DEF Ask, Lookup, Busy
  <2>3. seen[t] = <<>>
      BY <2>2 DEF IInv, Viewed
  <2> QED BY <1>0, <2>1, <2>2, <2>3, GoesOn DEF Locations, Inside, Viewing
<1>2. CASE EnterRead(t)
    BY <1>2, Enters DEF EnterRead, Locations
<1>3. CASE ReadLog(t)
  <2>1. seen' \in [Threads -> Seq(Events)] /\ \A u \in Threads : u # t => seen'[u] = seen[u]
      BY <1>0, <1>3 DEF ReadLog
  <2> QED BY <1>0, <1>3, <2>1, GoesOn DEF ReadLog, Locations, Inside, Viewing
<1>4. CASE Finish(t)
  <2>1. /\ seen' \in [Threads -> Seq(Events)] /\ seen'[t] = <<>>
        /\ \A u \in Threads : u # t => seen'[u] = seen[u]
      BY <1>0, <1>4 DEF Finish
  <2> QED BY <1>0, <1>4, <2>1, GoesOn DEF Finish, Locations, Inside, Viewing
<1> QED BY <1>1, <1>2, <1>3, <1>4

LEMMA EndSteps ==
    ASSUME IInv, NEW t \in Threads, LeaveRead(t) \/ Crash(t)
    PROVE  IInv'
<1> USE Facts
<1>0. seen \in [Threads -> Seq(Events)] /\ crashes \in Nat
    BY DEF IInv, TypeOK
<1>1. CASE LeaveRead(t)
  <2> DEFINE l == IF seen[t] = <<>> THEN "missing" ELSE "answered"
  <2>1. Goto(t, l) /\ l \in Locations \ (Inside \cup Viewing)
      BY <1>1 DEF LeaveRead, Inside, Viewing, Locations
  <2>2. holding[t] = "read" /\ (seen[t] # <<>> => l = "answered")
      BY <1>1 DEF LeaveRead, IInv, Held, Viewing
  <2> HIDE DEF l
  <2> QED BY <1>0, <1>1, <2>1, <2>2, Leaves DEF LeaveRead
<1>2. CASE Crash(t)
  <2>1. /\ seen' \in [Threads -> Seq(Events)] /\ seen'[t] = <<>> /\ crashes' \in Nat
        /\ \A u \in Threads : u # t => seen'[u] = seen[u]
      BY <1>0, <1>2 DEF Crash
  <2>2. "idle" \in Locations \ (Inside \cup Viewing)
      BY DEF Inside, Viewing, Locations
  <2> QED BY <1>2, <2>1, <2>2, Leaves DEF Crash
<1> QED BY <1>1, <1>2

LEMMA Steps == IInv /\ [Next]_vars => IInv'
<1> SUFFICES ASSUME IInv, [Next]_vars PROVE IInv'
    OBVIOUS
<1>1. CASE UNCHANGED vars
    BY <1>1 DEF vars, IInv, TypeOK, Held, Exclusive, Written, Own, Chained, Hash, AsLeft, Viewed
<1> QED BY <1>1, Facts, CloseSteps, Opens, Writes, RequestSteps, EndSteps DEF Next

LEMMA Invariance == Spec => []IInv
BY Begins, Steps, PTL DEF Spec
-----------------------------------------------------------------------------
(* The refinement.  A reader takes the record when it reads the log, and a    *)
(* close publishes when it leaves the lock, or dies in it.                     *)

LEMMA StepRefined ==
    ASSUME IInv, IInv', [Next]_vars
    PROVE  [Abstract!ANext]_<<published, seen>>
<1>1. CASE UNCHANGED <<published, seen>>
    BY <1>1
<1>2. ASSUME NEW t \in Threads, seen' = [seen EXCEPT ![t] = <<>>], UNCHANGED published
      PROVE  Abstract!ANext
    BY <1>2 DEF Abstract!ANext, Abstract!Drop
<1>3. ASSUME published' = file, UNCHANGED <<file, seen>> PROVE Abstract!ANext
  <2>1. file \in {s \in Seq(Events) : Chained(s)}
      BY DEF IInv, TypeOK, Written
  <2> QED BY <1>3, <2>1 DEF Abstract!ANext, Abstract!Publish
<1>4. ASSUME NEW t \in Threads, ReadLog(t) PROVE Abstract!ANext
  <2>1. \A u \in Threads : holding[u] # "write"
      BY <1>4 DEF ReadLog, IInv, Held, Exclusive, Viewing
  <2>2. published = file
      BY <2>1 DEF IInv, AsLeft
  <2> QED BY <1>4, <2>2 DEF ReadLog, Abstract!ANext, Abstract!Take
<1>5. ASSUME NEW t \in Threads, Crash(t) PROVE [Abstract!ANext]_<<published, seen>>
  <2>1. CASE holding[t] = "write"
    <3>1. seen[t] = <<>> /\ seen \in [Threads -> Seq(Events)]
        BY <2>1 DEF IInv, Held, Viewed, Inside, TypeOK
    <3>2. seen' = seen /\ published' = file /\ file' = file
        BY <1>5, <2>1, <3>1 DEF Crash
    <3> QED BY <1>3, <3>2
  <2>2. CASE holding[t] # "write"
      BY <1>2, <1>5, <2>2 DEF Crash
  <2> QED BY <2>1, <2>2
<1>6. ASSUME NEW c \in Closers,
             \/ \E b \in Bodies : StartClose(c, b)
             \/ EnterWrite(c) \/ OpenFresh(c) \/ Derive(c) \/ WriteEvent(c)
      PROVE  UNCHANGED <<published, seen>>
    BY <1>6 DEF StartClose, EnterWrite, OpenFresh, Derive, WriteEvent
<1>7. ASSUME NEW c \in Closers, DeriveFails(c) \/ LeaveWrite(c) PROVE Abstract!ANext
    BY <1>3, <1>7 DEF DeriveFails, LeaveWrite
<1>8. ASSUME NEW t \in Threads, Ask(t) \/ Lookup(t) \/ EnterRead(t) \/ LeaveRead(t) \/ Busy(t)
      PROVE  UNCHANGED <<published, seen>>
    BY <1>8 DEF Ask, Lookup, EnterRead, LeaveRead, Busy
<1>9. ASSUME NEW t \in Threads, Finish(t) PROVE Abstract!ANext
    BY <1>2, <1>9 DEF Finish
<1>10. CASE UNCHANGED vars
    BY <1>10 DEF vars
<1> QED BY <1>1, <1>4, <1>5, <1>6, <1>7, <1>8, <1>9, <1>10, Facts DEF Next

\* Whatever closes collide, readers come in and threads die, a reader holds one whole
\* chained log that some close left, or nothing (run_close, Journal, _log_path).
THEOREM LogIsAtomic == Spec => ImplementsAtomicRecord
<1>1. Init => Abstract!AInit
    BY DEF Init, Abstract!AInit
<1>2. Spec => [][Abstract!ANext]_<<published, seen>>
    BY StepRefined, Invariance, PTL DEF Spec
<1> QED BY <1>1, <1>2, PTL DEF Spec, ImplementsAtomicRecord, Abstract!ASpec

-----------------------------------------------------------------------------
(***************************************************************************)
(* The record.                                                             *)
(*                                                                         *)
(* What is in the log is always the beginning of the events of the last    *)
(* close (RInv), so a log with its terminator is all of them.  The rest is *)
(* about one sequence, EventsOf(d): which of its events are of a kind, in  *)
(* which order, and what `replay` and the view make of them.  Every part   *)
(* of it is a concatenation of lists of one kind; Holds(s, k, m) says that *)
(* the events of kind k in s are the list m.                               *)
(***************************************************************************)
Rank(I, i) == Cardinality({k \in I : k <= i})

LEMMA RanksDiffer ==
    ASSUME NEW n \in Nat, NEW I \in SUBSET (1..n)
    PROVE  /\ IsFiniteSet(I) /\ Cardinality(I) \in Nat
           /\ \A i \in I : Rank(I, i) \in 1..Cardinality(I)
           /\ \A i, j \in I : Rank(I, i) = Rank(I, j) => i = j
<1>1. IsFiniteSet(I) /\ Cardinality(I) \in Nat
  <2>1. IsFiniteSet(1..n)
      BY FS_Interval
  <2>2. IsFiniteSet(I)
      BY <2>1, FS_Subset
  <2> QED BY <2>2, FS_CardinalityType
<1>2. ASSUME NEW i \in I PROVE Rank(I, i) \in 1..Cardinality(I)
  <2> DEFINE B == {k \in I : k <= i}
  <2>1. B \in SUBSET I /\ i \in B
      OBVIOUS
  <2>2. IsFiniteSet(B) /\ Cardinality(B) <= Cardinality(I) /\ Cardinality(B) \in Nat
      BY <1>1, <2>1, FS_Subset, FS_CardinalityType
  <2>3. Cardinality(B) # 0
    <3> HIDE DEF B
    <3> QED BY <2>1, <2>2, FS_EmptySet
  <2> QED BY <1>1, <2>2, <2>3 DEF Rank
<1>3. ASSUME NEW i \in I, NEW j \in I, i < j PROVE Rank(I, i) # Rank(I, j)
  <2> DEFINE B == {k \in I : k <= i}
             C == {k \in I : k <= j}
  <2>0. i \in Nat /\ j \in Nat /\ \A k \in I : k \in Nat
      OBVIOUS
  <2>1. B \in SUBSET C /\ j \in C /\ j \notin B /\ C \in SUBSET I
    <3>1. \A k \in I : k <= i => k <= j
        BY <1>3, <2>0
    <3>2. j <= j /\ ~(j <= i)
        BY <1>3, <2>0
    <3> QED BY <3>1, <3>2
  <2>2. IsFiniteSet(C)
      BY <1>1, <2>1, FS_Subset
  <2>3. Cardinality(C) # Cardinality(B)
      BY <2>1, <2>2, FS_Subset
  <2> QED BY <2>3 DEF Rank
<1>4. ASSUME NEW i \in I, NEW j \in I, Rank(I, i) = Rank(I, j) PROVE i = j
  <2>1. i < j \/ j < i \/ i = j
      OBVIOUS
  <2> QED BY <1>3, <1>4, <2>1
<1> QED BY <1>1, <1>2, <1>4

LEMMA NthIs ==
    ASSUME NEW n \in Nat, NEW I \in SUBSET (1..n)
    PROVE  /\ Cardinality(I) \in Nat
           /\ \A m \in 1..Cardinality(I) : Nth(I, m) \in I /\ Rank(I, Nth(I, m)) = m
           /\ \A i \in I : Rank(I, i) \in 1..Cardinality(I) /\ Nth(I, Rank(I, i)) = i
<1> DEFINE c == Cardinality(I)
           f == [i \in I |-> Rank(I, i)]
<1>1. /\ IsFiniteSet(I) /\ c \in Nat
      /\ \A i \in I : Rank(I, i) \in 1..c
      /\ \A i, j \in I : Rank(I, i) = Rank(I, j) => i = j
    BY RanksDiffer
<1>2. f \in Injection(I, 1..c)
    BY <1>1 DEF Injection, IsInjective
<1>3. IsFiniteSet(1..c) /\ Cardinality(1..c) = c
    BY <1>1, FS_Interval
<1>4. f \in Surjection(I, 1..c)
    BY <1>2, <1>3, FS_Injection
<1>5. \A m \in 1..c : \E i \in I : Rank(I, i) = m
    BY <1>4 DEF Surjection
<1>6. ASSUME NEW m \in 1..c PROVE Nth(I, m) \in I /\ Rank(I, Nth(I, m)) = m
  <2>1. PICK i \in I : Rank(I, i) = m
      BY <1>5
  <2>2. Nth(I, m) = CHOOSE j \in I : Rank(I, j) = m
      BY DEF Nth, Rank
  <2> QED BY <2>1, <2>2
<1> QED BY <1>1, <1>6
-----------------------------------------------------------------------------
LEMMA Joined ==
    ASSUME NEW s, NEW t, Listed(s), Listed(t)
    PROVE  /\ Listed(s \o t) /\ Len(s) \in Nat /\ Len(t) \in Nat
           /\ DOMAIN s = 1..Len(s) /\ DOMAIN t = 1..Len(t)
           /\ Len(s \o t) = Len(s) + Len(t) /\ DOMAIN (s \o t) = 1..(Len(s) + Len(t))
           /\ \A i \in 1..Len(s) : (s \o t)[i] = s[i]
           /\ \A i \in 1..Len(t) : (s \o t)[Len(s) + i] = t[i]
<1> DEFINE S == Range(s) \cup Range(t)
           u == s \o t
<1>1. s \in Seq(S) /\ t \in Seq(S)
    BY DEF Listed
<1>2. u \in Seq(S) /\ Len(u) = Len(s) + Len(t) /\ DOMAIN u = 1..Len(u)
    BY <1>1
<1>3. u \in Seq(Range(u))
  <2>1. \A i \in 1..Len(u) : u[i] \in Range(u)
      BY <1>2 DEF Range
  <2> QED BY <1>2, <2>1
<1> QED BY <1>1, <1>2, <1>3 DEF Listed

\* The events of kind k in s are those of the list m, in its order.
Holds(s, k, m) ==
    /\ Listed(m)
    /\ \E o \in Nat :
         /\ OfKind(s, k) = {o + i : i \in 1..Len(m)}
         /\ \A i \in 1..Len(m) : s[o + i] = m[i]

LEMMA Goes ==
    ASSUME NEW s, NEW t, NEW k, NEW m, Listed(s), Listed(t),
           Holds(s, k, m), \A i \in DOMAIN t : t[i].kind # k
    PROVE  Holds(s \o t, k, m)
<1> DEFINE u == s \o t
<1>1. /\ Len(s) \in Nat /\ Len(t) \in Nat
      /\ DOMAIN s = 1..Len(s) /\ DOMAIN t = 1..Len(t) /\ DOMAIN u = 1..(Len(s) + Len(t))
      /\ \A i \in 1..Len(s) : u[i] = s[i]
      /\ \A i \in 1..Len(t) : u[Len(s) + i] = t[i]
    BY Joined
<1> HIDE DEF u
<1>2. OfKind(u, k) = OfKind(s, k)
  <2>1. ASSUME NEW i \in 1..(Len(s) + Len(t)), i \notin 1..Len(s) PROVE u[i].kind # k
    <3>1. i - Len(s) \in 1..Len(t) /\ i = Len(s) + (i - Len(s))
        BY <1>1, <2>1
    <3> QED BY <1>1, <3>1
  <2>2. \A i \in 1..Len(s) : i \in 1..(Len(s) + Len(t))
      BY <1>1
  <2> QED BY <1>1, <2>1, <2>2 DEF OfKind
<1>3. \A i \in OfKind(s, k) : u[i] = s[i]
    BY <1>1 DEF OfKind
<1> QED BY <1>2, <1>3 DEF Holds, u

LEMMA Comes ==
    ASSUME NEW s, NEW k, NEW m, Listed(s), Listed(m), Holds(s, k, <<>>),
           \A i \in DOMAIN m : m[i].kind = k
    PROVE  Holds(s \o m, k, m)
<1> DEFINE u == s \o m
<1>1. /\ Len(s) \in Nat /\ Len(m) \in Nat
      /\ DOMAIN s = 1..Len(s) /\ DOMAIN m = 1..Len(m) /\ DOMAIN u = 1..(Len(s) + Len(m))
      /\ \A i \in 1..Len(s) : u[i] = s[i]
      /\ \A i \in 1..Len(m) : u[Len(s) + i] = m[i]
    BY Joined
<1> HIDE DEF u
<1>2. \A i \in 1..Len(s) : s[i].kind # k
  <2>1. OfKind(s, k) = {}
      BY DEF Holds
  <2> QED BY <1>1, <2>1 DEF OfKind
<1>3. OfKind(u, k) = {Len(s) + i : i \in 1..Len(m)}
  <2>1. ASSUME NEW i \in 1..(Len(s) + Len(m)), u[i].kind = k
        PROVE  \E j \in 1..Len(m) : i = Len(s) + j
    <3>1. i \notin 1..Len(s)
        BY <1>1, <1>2, <2>1
    <3>2. i - Len(s) \in 1..Len(m) /\ i = Len(s) + (i - Len(s))
        BY <1>1, <3>1
    <3> QED BY <3>2
  <2>2. ASSUME NEW j \in 1..Len(m)
        PROVE  Len(s) + j \in 1..(Len(s) + Len(m)) /\ u[Len(s) + j].kind = k
      BY <1>1
  <2>3. \A i : i \in OfKind(u, k) <=> i \in 1..(Len(s) + Len(m)) /\ u[i].kind = k
      BY <1>1 DEF OfKind
  <2>4. \A i : i \in OfKind(u, k) <=> i \in {Len(s) + j : j \in 1..Len(m)}
      BY <2>1, <2>2, <2>3
  <2> QED BY <2>4
<1> QED BY <1>1, <1>3 DEF Holds, u

LEMMA ListOf ==
    ASSUME NEW n \in Nat, NEW f, f = [i \in 1..n |-> f[i]]
    PROVE  Listed(f) /\ Len(f) = n /\ DOMAIN f = 1..n
<1>1. f \in [1..n -> Range(f)]
    BY DEF Range
<1>2. f \in Seq(Range(f))
    BY <1>1
<1> QED BY <1>1, <1>2 DEF Listed

Sorted(s, K, P) == \A k \in DOMAIN P : Holds(s, k, IF k \in K THEN P[k] ELSE <<>>)

LEMMA AddPart ==
    ASSUME NEW s, NEW P, NEW K, NEW k \in DOMAIN P, k \notin K,
           Listed(s), Sorted(s, K, P),
           Listed(P[k]), \A i \in DOMAIN P[k] : P[k][i].kind = k
    PROVE  Listed(s \o P[k]) /\ Sorted(s \o P[k], K \cup {k}, P)
<1> DEFINE m == P[k]
<1>1. Listed(s \o m)
    BY Joined
<1>2. Holds(s \o m, k, m)
  <2>1. Holds(s, k, <<>>)
      BY DEF Sorted
  <2> HIDE DEF m
  <2>2. Listed(m) /\ \A i \in DOMAIN m : m[i].kind = k
      BY DEF m
  <2> QED BY <2>1, <2>2, Comes
<1>3. ASSUME NEW j \in DOMAIN P, j # k
      PROVE  Holds(s \o m, j, IF j \in K THEN P[j] ELSE <<>>)
  <2>1. \A i \in DOMAIN m : m[i].kind # j
      BY <1>3
  <2>2. Holds(s, j, IF j \in K THEN P[j] ELSE <<>>) /\ Listed(m)
      BY DEF Sorted
  <2> HIDE DEF m
  <2> QED BY <2>1, <2>2, Goes
<1> HIDE DEF m
<1>4. ASSUME NEW j \in DOMAIN P
      PROVE  Holds(s \o m, j, IF j \in K \cup {k} THEN P[j] ELSE <<>>)
  <2>1. CASE j = k
    <3>1. (IF j \in K \cup {k} THEN P[j] ELSE <<>>) = m
        BY <2>1 DEF m
    <3> QED BY <3>1, <2>1, <1>2
  <2>2. CASE j # k
    <3>1. (IF j \in K \cup {k} THEN P[j] ELSE <<>>) = IF j \in K THEN P[j] ELSE <<>>
        BY <2>2
    <3> QED BY <3>1, <2>2, <1>3
  <2> QED BY <2>1, <2>2
<1>5. m = P[k]
    BY DEF m
<1> QED BY <1>1, <1>4, <1>5 DEF Sorted

LEMMA AddOther ==
    ASSUME NEW s, NEW P, NEW K, NEW t, Listed(s), Sorted(s, K, P), Listed(t),
           \A i \in DOMAIN t : t[i].kind \notin DOMAIN P
    PROVE  Listed(s \o t) /\ Sorted(s \o t, K, P)
<1>1. Listed(s \o t)
    BY Joined
<1>2. ASSUME NEW j \in DOMAIN P PROVE Holds(s \o t, j, IF j \in K THEN P[j] ELSE <<>>)
  <2>1. \A i \in DOMAIN t : t[i].kind # j
      OBVIOUS
  <2>2. Holds(s, j, IF j \in K THEN P[j] ELSE <<>>)
      BY DEF Sorted
  <2> QED BY <2>1, <2>2, Goes
<1> QED BY <1>1, <1>2 DEF Sorted

LEMMA Nil == Listed(<<>>) /\ \A k : Holds(<<>>, k, <<>>)
<1>1. Listed(<<>>)
    BY DEF Listed
<1>2. \A k : OfKind(<<>>, k) = {}
    BY DEF OfKind
<1>3. Len(<<>>) = 0 /\ 1..0 = {}
    OBVIOUS
<1>4. 0 \in Nat /\ {0 + i : i \in 1..Len(<<>>)} = {} /\ \A i \in 1..Len(<<>>) : FALSE
    BY <1>3
<1> QED BY <1>1, <1>2, <1>4 DEF Holds

\* What each kind of event of a close is of.
Parts(d) ==
    [CloseStarted |-> <<CloseStarted(d)>>,
     OutOfScope |-> [i \in DOMAIN d.scope |-> OutOfScope(d.scope[i])],
     MatchProven |-> [i \in DOMAIN d.kept |-> MatchProven(d.kept[i])],
     MatchRejected |-> [i \in DOMAIN d.refused |-> MatchRejected(d.refused[i])],
     ExceptionRaised |-> [i \in DOMAIN d.raised |-> ExceptionRaised(d.raised[i])],
     PostingWritten |-> [i \in DOMAIN EntriesFor(d) |-> PostingWritten(EntriesFor(d)[i])],
     CloseBlocked |-> Blocked(d),
     AuthorityVerified |-> [i \in DOMAIN d.bundles |-> AuthorityVerified(d.bundles[i])],
     ProposalRefused |-> [i \in DOMAIN d.inadmissible |-> ProposalRefused(d.inadmissible[i])],
     RuleApplied |-> [i \in DOMAIN d.applied |-> RuleApplied(d.applied[i])],
     CloseCompleted |-> <<CloseCompleted(d)>>]

LEMMA EntriesAre ==
    ASSUME NEW d \in Decisions
    PROVE  LET I == {i \in DOMAIN d.raised : Postable(d, d.raised[i])}
               c == Cardinality(I)
               es == EntriesFor(d)
           IN  /\ Listed(es) /\ Len(d.kept) \in Nat /\ c \in Nat
               /\ DOMAIN d.kept = 1..Len(d.kept)
               /\ Len(es) = Len(d.kept) + c /\ DOMAIN es = 1..Len(es)
               /\ \A i \in DOMAIN d.kept : es[i] = MatchEntry(d.kept[i])
               /\ \A n \in 1..c : es[Len(d.kept) + n] = ExceptionEntry(d, d.raised[Nth(I, n)])
<1> DEFINE I == {i \in DOMAIN d.raised : Postable(d, d.raised[i])}
           c == Cardinality(I)
           xs == ItemsAt(d.raised, I)
           ms == [i \in DOMAIN d.kept |-> MatchEntry(d.kept[i])]
           us == [i \in DOMAIN xs |-> ExceptionEntry(d, xs[i])]
<1>1. /\ DOMAIN d.kept = 1..Len(d.kept) /\ Len(d.kept) \in Nat
      /\ DOMAIN d.raised = 1..Len(d.raised) /\ Len(d.raised) \in Nat
    BY DecisionsAreTyped DEF Listed
<1>2. c \in Nat
    BY <1>1, NthIs
<1>3. DOMAIN xs = 1..c /\ \A n \in 1..c : xs[n] = d.raised[Nth(I, n)]
    BY DEF ItemsAt
<1> HIDE DEF xs
<1>4. Listed(ms) /\ Len(ms) = Len(d.kept)
  <2>1. ms = [i \in 1..Len(d.kept) |-> ms[i]]
      BY <1>1
  <2> QED BY <1>1, <2>1, ListOf
<1>5. Listed(us) /\ Len(us) = c
  <2>1. us = [i \in 1..c |-> us[i]]
      BY <1>3
  <2> QED BY <1>2, <2>1, ListOf
<1>6. EntriesFor(d) = ms \o us
    BY DEF EntriesFor, xs
<1>7. /\ \A i \in DOMAIN d.kept : ms[i] = MatchEntry(d.kept[i])
      /\ \A n \in 1..c : us[n] = ExceptionEntry(d, d.raised[Nth(I, n)])
    BY <1>3
<1> HIDE DEF ms, us, c
<1>8. /\ Listed(ms \o us) /\ Len(ms \o us) = Len(ms) + Len(us)
      /\ DOMAIN (ms \o us) = 1..(Len(ms) + Len(us))
      /\ \A i \in 1..Len(ms) : (ms \o us)[i] = ms[i]
      /\ \A i \in 1..Len(us) : (ms \o us)[Len(ms) + i] = us[i]
    BY <1>4, <1>5, Joined
<1> QED BY <1>1, <1>2, <1>4, <1>5, <1>6, <1>7, <1>8 DEF c

\* What is made of a list, element by element, is a list.
LEMMA MadeOf ==
    ASSUME NEW s, Listed(s), NEW m, m = [i \in DOMAIN s |-> m[i]]
    PROVE  Listed(m)
<1>1. DOMAIN s = 1..Len(s) /\ Len(s) \in Nat
    BY DEF Listed
<1> QED BY <1>1, ListOf

LEMMA PartsAreOfTheirKind ==
    ASSUME NEW d \in Decisions
    PROVE  \A k \in DOMAIN Parts(d) :
             Listed(Parts(d)[k]) /\ \A i \in DOMAIN Parts(d)[k] : Parts(d)[k][i].kind = k
<1> DEFINE P == Parts(d)
           Good(k, m) == Listed(m) /\ \A i \in DOMAIN m : m[i].kind = k
<1>1. \A x : Listed(<<x>>) /\ DOMAIN <<x>> = {1} /\ <<x>>[1] = x
    BY DEF Listed, Range
<1>2. /\ Good("CloseStarted", P.CloseStarted) /\ Good("CloseCompleted", P.CloseCompleted)
      /\ Good("CloseBlocked", P.CloseBlocked)
    BY <1>1, Nil DEF Parts, CloseStarted, CloseCompleted, Blocked, CloseBlocked
<1>3. Good("OutOfScope", P.OutOfScope)
  <2> DEFINE m == [i \in DOMAIN d.scope |-> OutOfScope(d.scope[i])]
  <2>1. m = [i \in DOMAIN d.scope |-> m[i]] /\ \A i \in DOMAIN m : m[i].kind = "OutOfScope"
      BY DEF OutOfScope
  <2>2. P.OutOfScope = m
      BY DEF Parts
  <2>3. Listed(d.scope)
      BY DecisionsAreTyped
  <2> HIDE DEF m, P
  <2> QED BY <2>1, <2>2, <2>3, MadeOf
<1>4. Good("MatchProven", P.MatchProven)
  <2> DEFINE m == [i \in DOMAIN d.kept |-> MatchProven(d.kept[i])]
  <2>1. m = [i \in DOMAIN d.kept |-> m[i]] /\ \A i \in DOMAIN m : m[i].kind = "MatchProven"
      BY DEF MatchProven
  <2>2. P.MatchProven = m
      BY DEF Parts
  <2>3. Listed(d.kept)
      BY DecisionsAreTyped
  <2> HIDE DEF m, P
  <2> QED BY <2>1, <2>2, <2>3, MadeOf
<1>5. Good("MatchRejected", P.MatchRejected)
  <2> DEFINE m == [i \in DOMAIN d.refused |-> MatchRejected(d.refused[i])]
  <2>1. m = [i \in DOMAIN d.refused |-> m[i]] /\ \A i \in DOMAIN m : m[i].kind = "MatchRejected"
      BY DEF MatchRejected
  <2>2. P.MatchRejected = m
      BY DEF Parts
  <2>3. Listed(d.refused)
      BY DecisionsAreTyped
  <2> HIDE DEF m, P
  <2> QED BY <2>1, <2>2, <2>3, MadeOf
<1>6. Good("ExceptionRaised", P.ExceptionRaised)
  <2> DEFINE m == [i \in DOMAIN d.raised |-> ExceptionRaised(d.raised[i])]
  <2>1. m = [i \in DOMAIN d.raised |-> m[i]] /\ \A i \in DOMAIN m : m[i].kind = "ExceptionRaised"
      BY DEF ExceptionRaised
  <2>2. P.ExceptionRaised = m
      BY DEF Parts
  <2>3. Listed(d.raised)
      BY DecisionsAreTyped
  <2> HIDE DEF m, P
  <2> QED BY <2>1, <2>2, <2>3, MadeOf
<1>7. Good("AuthorityVerified", P.AuthorityVerified)
  <2> DEFINE m == [i \in DOMAIN d.bundles |-> AuthorityVerified(d.bundles[i])]
  <2>1. m = [i \in DOMAIN d.bundles |-> m[i]] /\ \A i \in DOMAIN m : m[i].kind = "AuthorityVerified"
      BY DEF AuthorityVerified
  <2>2. P.AuthorityVerified = m
      BY DEF Parts
  <2>3. Listed(d.bundles)
      BY DecisionsAreTyped
  <2> HIDE DEF m, P
  <2> QED BY <2>1, <2>2, <2>3, MadeOf
<1>8. Good("ProposalRefused", P.ProposalRefused)
  <2> DEFINE m == [i \in DOMAIN d.inadmissible |-> ProposalRefused(d.inadmissible[i])]
  <2>1. m = [i \in DOMAIN d.inadmissible |-> m[i]] /\ \A i \in DOMAIN m : m[i].kind = "ProposalRefused"
      BY DEF ProposalRefused
  <2>2. P.ProposalRefused = m
      BY DEF Parts
  <2>3. Listed(d.inadmissible)
      BY DecisionsAreTyped
  <2> HIDE DEF m, P
  <2> QED BY <2>1, <2>2, <2>3, MadeOf
<1>9. Good("RuleApplied", P.RuleApplied)
  <2> DEFINE m == [i \in DOMAIN d.applied |-> RuleApplied(d.applied[i])]
  <2>1. m = [i \in DOMAIN d.applied |-> m[i]] /\ \A i \in DOMAIN m : m[i].kind = "RuleApplied"
      BY DEF RuleApplied
  <2>2. P.RuleApplied = m
      BY DEF Parts
  <2>3. Listed(d.applied)
      BY DecisionsAreTyped
  <2> HIDE DEF m, P
  <2> QED BY <2>1, <2>2, <2>3, MadeOf
<1>10. Good("PostingWritten", P.PostingWritten)
  <2> DEFINE m == [i \in DOMAIN EntriesFor(d) |-> PostingWritten(EntriesFor(d)[i])]
  <2>1. m = [i \in DOMAIN EntriesFor(d) |-> m[i]] /\ \A i \in DOMAIN m : m[i].kind = "PostingWritten"
      BY DEF PostingWritten
  <2>2. P.PostingWritten = m
      BY DEF Parts
  <2>3. Listed(EntriesFor(d))
      BY EntriesAre
  <2> HIDE DEF m, P
  <2> QED BY <2>1, <2>2, <2>3, MadeOf
<1>11. DOMAIN P = {"CloseStarted", "OutOfScope", "MatchProven", "MatchRejected", "ExceptionRaised",
                   "PostingWritten", "CloseBlocked", "AuthorityVerified", "ProposalRefused",
                   "RuleApplied", "CloseCompleted"}
    BY DEF Parts
<1> HIDE DEF P
<1>12. \A k \in DOMAIN P : Good(k, P[k])
    BY <1>2, <1>3, <1>4, <1>5, <1>6, <1>7, <1>8, <1>9, <1>10, <1>11
<1> QED BY <1>12 DEF P

LEMMA EventsAreSorted ==
    ASSUME NEW d \in Decisions
    PROVE  /\ Listed(EventsOf(d)) /\ Sorted(EventsOf(d), DOMAIN Parts(d), Parts(d))
           /\ Len(EventsOf(d)) \in Nat \ {0}
           /\ EventsOf(d)[Len(EventsOf(d))] = CloseCompleted(d)
<1> DEFINE P == Parts(d)
           src == [i \in DOMAIN d.sources |-> Ingested(d.sources[i])]
           s1 == P.CloseStarted
           s2 == s1 \o src
           s3 == s2 \o P.OutOfScope
           s4 == s3 \o P.MatchProven
           s5 == s4 \o P.MatchRejected
           s6 == s5 \o P.ExceptionRaised
           s7 == s6 \o P.PostingWritten
           s8 == s7 \o P.CloseBlocked
           s9 == s8 \o P.AuthorityVerified
           s10 == s9 \o P.ProposalRefused
           s11 == s10 \o P.RuleApplied
           s12 == s11 \o P.CloseCompleted
           K1 == {"CloseStarted"}
           K3 == K1 \cup {"OutOfScope"}
           K4 == K3 \cup {"MatchProven"}
           K5 == K4 \cup {"MatchRejected"}
           K6 == K5 \cup {"ExceptionRaised"}
           K7 == K6 \cup {"PostingWritten"}
           K8 == K7 \cup {"CloseBlocked"}
           K9 == K8 \cup {"AuthorityVerified"}
           K10 == K9 \cup {"ProposalRefused"}
           K11 == K10 \cup {"RuleApplied"}
           K12 == K11 \cup {"CloseCompleted"}
<1>1. EventsOf(d) = s12
    BY DEF Parts, EventsOf, Derived
<1>2. DOMAIN P = {"CloseStarted", "OutOfScope", "MatchProven", "MatchRejected", "ExceptionRaised",
                  "PostingWritten", "CloseBlocked", "AuthorityVerified", "ProposalRefused",
                  "RuleApplied", "CloseCompleted"}
    BY DEF Parts
<1>3. \A k \in DOMAIN P : Listed(P[k]) /\ \A i \in DOMAIN P[k] : P[k][i].kind = k
    BY PartsAreOfTheirKind
<1>4. Listed(src) /\ \A i \in DOMAIN src : src[i].kind \notin DOMAIN P
  <2>1. DOMAIN d.sources = 1..Len(d.sources) /\ Len(d.sources) \in Nat
      BY DecisionsAreTyped DEF Listed
  <2>2. src = [i \in 1..Len(d.sources) |-> src[i]]
      BY <2>1
  <2>3. \A i \in DOMAIN src : src[i].kind \in {"SourceIngested", "IntakeUnverified"}
      BY DEF Ingested
  <2> HIDE DEF src, P
  <2>4. Listed(src)
      BY <2>1, <2>2, ListOf
  <2> QED BY <1>2, <2>3, <2>4
<1>5. P.CloseCompleted = <<CloseCompleted(d)>>
    BY DEF Parts
<1> HIDE DEF P, src
<1>6. Listed(s1) /\ Sorted(s1, {"CloseStarted"}, P)
  <2>1. Listed(<<>>) /\ Sorted(<<>>, {}, P)
      BY Nil DEF Sorted
  <2>2. "CloseStarted" \in DOMAIN P /\ "CloseStarted" \notin {}
      BY <1>2
  <2>3. Listed(<<>> \o s1) /\ Sorted(<<>> \o s1, {} \cup {"CloseStarted"}, P)
      BY <1>3, <2>1, <2>2, AddPart
  <2>4. <<>> \o s1 = s1
      BY <1>3, <2>2 DEF Listed
  <2>5. {} \cup {"CloseStarted"} = {"CloseStarted"}
      OBVIOUS
  <2> HIDE DEF s1
  <2> QED BY <2>3, <2>4, <2>5
<1>7. Listed(s2) /\ Sorted(s2, K1, P)
  <2> HIDE DEF s1
  <2> QED BY <1>4, <1>6, AddOther
<1>8. Listed(s3) /\ Sorted(s3, K3, P)
  <2>1. "OutOfScope" \in DOMAIN P \ K1
      BY <1>2
  <2> HIDE DEF s2, K1
  <2> QED BY <1>3, <1>7, <2>1, AddPart
<1>9. Listed(s4) /\ Sorted(s4, K4, P)
  <2>1. "MatchProven" \in DOMAIN P \ K3
      BY <1>2
  <2> HIDE DEF s3, K3
  <2> QED BY <1>3, <1>8, <2>1, AddPart
<1>10. Listed(s5) /\ Sorted(s5, K5, P)
  <2>1. "MatchRejected" \in DOMAIN P \ K4
      BY <1>2
  <2> HIDE DEF s4, K4
  <2> QED BY <1>3, <1>9, <2>1, AddPart
<1>11. Listed(s6) /\ Sorted(s6, K6, P)
  <2>1. "ExceptionRaised" \in DOMAIN P \ K5
      BY <1>2
  <2> HIDE DEF s5, K5
  <2> QED BY <1>3, <1>10, <2>1, AddPart
<1>12. Listed(s7) /\ Sorted(s7, K7, P)
  <2>1. "PostingWritten" \in DOMAIN P \ K6
      BY <1>2
  <2> HIDE DEF s6, K6
  <2> QED BY <1>3, <1>11, <2>1, AddPart
<1>13. Listed(s8) /\ Sorted(s8, K8, P)
  <2>1. "CloseBlocked" \in DOMAIN P \ K7
      BY <1>2
  <2> HIDE DEF s7, K7
  <2> QED BY <1>3, <1>12, <2>1, AddPart
<1>14. Listed(s9) /\ Sorted(s9, K9, P)
  <2>1. "AuthorityVerified" \in DOMAIN P \ K8
      BY <1>2
  <2> HIDE DEF s8, K8
  <2> QED BY <1>3, <1>13, <2>1, AddPart
<1>15. Listed(s10) /\ Sorted(s10, K10, P)
  <2>1. "ProposalRefused" \in DOMAIN P \ K9
      BY <1>2
  <2> HIDE DEF s9, K9
  <2> QED BY <1>3, <1>14, <2>1, AddPart
<1>16. Listed(s11) /\ Sorted(s11, K11, P)
  <2>1. "RuleApplied" \in DOMAIN P \ K10
      BY <1>2
  <2> HIDE DEF s10, K10
  <2> QED BY <1>3, <1>15, <2>1, AddPart
<1>17. Listed(s12) /\ Sorted(s12, K12, P)
  <2>1. "CloseCompleted" \in DOMAIN P \ K11
      BY <1>2
  <2> HIDE DEF s11, K11
  <2> QED BY <1>3, <1>16, <2>1, AddPart
<1> HIDE DEF s11
<1>18. Len(s12) = Len(s11) + 1 /\ Len(s11) \in Nat /\ s12[Len(s11) + 1] = CloseCompleted(d)
  <2>1. Listed(<<CloseCompleted(d)>>) /\ Len(<<CloseCompleted(d)>>) = 1
      BY DEF Listed, Range
  <2>2. s12 = s11 \o <<CloseCompleted(d)>>
      BY <1>5
  <2> QED BY <1>16, <2>1, <2>2, Joined
<1>19. DOMAIN P = K12
    BY <1>2
<1> HIDE DEF s12, K12
<1> QED BY <1>1, <1>17, <1>18, <1>19 DEF P
-----------------------------------------------------------------------------
LEMMA ImageCount ==
    ASSUME NEW n \in Nat, NEW f, DOMAIN f = 1..n,
           \A i, k \in 1..n : f[i] = f[k] => i = k
    PROVE  Cardinality({f[i] : i \in 1..n}) = n
<1> DEFINE T == {f[i] : i \in 1..n}
           g == [i \in 1..n |-> f[i]]
<1>1. g \in Bijection(1..n, T)
    BY DEF Bijection, Injection, Surjection, IsInjective
<1> QED BY <1>1, FS_CountingElements DEF ExistsBijection

\* The events of kind k in s are those of the list m, whatever their order.
IsAll(s, k, m) ==
    /\ Cardinality(OfKind(s, k)) = Len(m) /\ DOMAIN m = 1..Len(m) /\ Len(m) \in Nat
    /\ \A i \in OfKind(s, k) : \E j \in DOMAIN m : s[i] = m[j]
    /\ \A j \in DOMAIN m : \E i \in OfKind(s, k) : s[i] = m[j]

LEMMA HeldEvents ==
    ASSUME NEW s, NEW k, NEW m, Holds(s, k, m)
    PROVE  IsAll(s, k, m)
<1>1. PICK o \in Nat : /\ OfKind(s, k) = {o + i : i \in 1..Len(m)}
                       /\ \A i \in 1..Len(m) : s[o + i] = m[i]
    BY DEF Holds
<1>2. Len(m) \in Nat /\ DOMAIN m = 1..Len(m)
    BY DEF Holds, Listed
<1>3. Cardinality({o + i : i \in 1..Len(m)}) = Len(m)
  <2> DEFINE f == [i \in 1..Len(m) |-> o + i]
  <2>1. \A i, j \in 1..Len(m) : f[i] = f[j] => i = j
      BY <1>2
  <2>2. Cardinality({f[i] : i \in 1..Len(m)}) = Len(m)
    <3> HIDE DEF f
    <3>1. DOMAIN f = 1..Len(m)
        BY DEF f
    <3> QED BY <1>2, <2>1, <3>1, ImageCount
  <2>3. {f[i] : i \in 1..Len(m)} = {o + i : i \in 1..Len(m)}
      OBVIOUS
  <2> QED BY <2>2, <2>3
<1> QED BY <1>1, <1>2, <1>3 DEF IsAll

LEMMA SortedEvents ==
    ASSUME NEW d \in Decisions, NEW k \in DOMAIN Parts(d)
    PROVE  IsAll(EventsOf(d), k, Parts(d)[k])
<1>1. Holds(EventsOf(d), k, Parts(d)[k])
    BY EventsAreSorted DEF Sorted
<1> QED BY <1>1, HeldEvents

LEMMA ListMapped ==
    ASSUME NEW d \in Decisions
    PROVE  /\ DOMAIN d.raised = 1..Len(d.raised) /\ Len(d.raised) \in Nat
           /\ DOMAIN d.kept = 1..Len(d.kept) /\ Len(d.kept) \in Nat
           /\ DOMAIN d.refused = 1..Len(d.refused) /\ Len(d.refused) \in Nat
           /\ DOMAIN d.scope = 1..Len(d.scope) /\ Len(d.scope) \in Nat
           /\ DOMAIN EntriesFor(d) = 1..Len(EntriesFor(d)) /\ Len(EntriesFor(d)) \in Nat
<1>1. Listed(d.raised) /\ Listed(d.kept) /\ Listed(d.refused) /\ Listed(d.scope)
      /\ Listed(EntriesFor(d))
    BY DecisionsAreTyped, EntriesAre
<1> QED BY <1>1 DEF Listed

LEMMA TerminatorIs ==
    ASSUME NEW d \in Decisions
    PROVE  LET s == EventsOf(d)
           IN  /\ Terminated(s) /\ OfKind(s, "CloseCompleted") = {Len(s)}
               /\ Terminator(s) = CloseCompleted(d) /\ CompleteIn(s) = Complete(d)
<1> DEFINE s == EventsOf(d)
           K == OfKind(s, "CloseCompleted")
<1>1. /\ DOMAIN s = 1..Len(s) /\ Len(s) \in Nat \ {0} /\ s[Len(s)] = CloseCompleted(d)
    BY EventsAreSorted DEF Listed
<1>2. Holds(s, "CloseCompleted", <<CloseCompleted(d)>>)
  <2>1. "CloseCompleted" \in DOMAIN Parts(d) /\ Parts(d)["CloseCompleted"] = <<CloseCompleted(d)>>
      BY DEF Parts
  <2> QED BY <2>1, EventsAreSorted DEF Sorted
<1> HIDE DEF s
<1>3. Len(s) \in K
    BY <1>1 DEF OfKind, CloseCompleted
<1>4. \A i, j \in K : i = j
    BY <1>2 DEF Holds
<1>5. K = {Len(s)}
    BY <1>3, <1>4
<1> HIDE DEF K
<1>6. Terminator(s) = CloseCompleted(d)
    BY <1>1, <1>5 DEF Terminator, K
<1>7. CompleteIn(s) = Complete(d)
  <2>1. CloseCompleted(d).complete = Complete(d)
      BY DEF CloseCompleted
  <2>2. CompleteIn(s) = \E i \in K : s[i].complete
      BY DEF CompleteIn, K
  <2>3. (\E i \in K : s[i].complete) <=> s[Len(s)].complete
      BY <1>5
  <2>4. s[Len(s)].complete <=> Complete(d)
      BY <1>1, <2>1, Zenon
  <2>5. CompleteIn(s) <=> Complete(d)
      BY <2>2, <2>3, <2>4
  <2> QED BY <2>5 DEF CompleteIn, Complete
<1> QED BY <1>5, <1>6, <1>7 DEF Terminated, K, s

LEMMA BlockersAre ==
    ASSUME NEW d \in Decisions
    PROVE  /\ HardBlockers(EventsOf(d)) = BlockedReasons(d)
           /\ BlockingIn(EventsOf(d)) = Blocking(d.raised)
<1> DEFINE s == EventsOf(d)
           K == OfKind(s, "CloseBlocked")
           b == Blocking(d.raised)
           r == BlockedReasons(d) \cup SignoffLines(b)
           m == Blocked(d)
<1>1. /\ \A i \in K : \E j \in DOMAIN m : s[i] = m[j]
      /\ \A j \in DOMAIN m : \E i \in K : s[i] = m[j]
  <2>1. "CloseBlocked" \in DOMAIN Parts(d) /\ Parts(d)["CloseBlocked"] = m
      BY DEF Parts
  <2>2. IsAll(s, "CloseBlocked", m)
    <3> HIDE DEF m
    <3> QED BY <2>1, SortedEvents
  <2> HIDE DEF m, s
  <2> QED BY <2>2 DEF IsAll
<1>2. /\ r = {} => DOMAIN m = {}
      /\ r # {} => DOMAIN m = {1} /\ m[1] = CloseBlocked(r, b)
    BY DEF Blocked
<1>3. BlockedReasons(d) \cap SignoffLines(b) = {}
  <2>1. \A x \in BlockedReasons(d) : x[1] \in {"ledger", "rule_broke_match"}
      BY DEF BlockedReasons
  <2>2. \A x \in SignoffLines(b) : x[1] = "exceptions block sign-off"
    <3>1. SignoffLine(b)[1] = "exceptions block sign-off"
        BY DEF SignoffLine
    <3> QED BY <3>1 DEF SignoffLines
  <2> QED BY <2>1, <2>2
<1>4. r = {} => b = {}
    BY DEF SignoffLines
<1> HIDE DEF K, m, s
<1>5. UNION {s[i].blocking : i \in K} = b
    BY <1>1, <1>2, <1>4 DEF CloseBlocked
<1>6. UNION {s[i].reasons : i \in K} = r
    BY <1>1, <1>2 DEF CloseBlocked
<1>7. BlockingIn(s) = b
    BY <1>5 DEF BlockingIn, K
<1>8. HardBlockers(s) = r \ SignoffLines(b)
    BY <1>6, <1>7 DEF HardBlockers, K
<1> QED BY <1>3, <1>7, <1>8 DEF s

LEMMA RecordIs ==
    ASSUME NEW d \in Decisions
    PROVE  LET s == EventsOf(d)
           IN  /\ {s[i].entry : i \in OfKind(s, "PostingWritten")} = Range(EntriesFor(d))
               /\ RaisedIn(s) = {[id |-> d.raised[i].id, value |-> d.raised[i].value,
                                  blocks |-> d.raised[i].blocks] : i \in DOMAIN d.raised}
               /\ Pairs(s) = {External[d.kept[i].anchor] : i \in DOMAIN d.kept}
               /\ Cardinality(OfKind(s, "PostingWritten")) = Len(EntriesFor(d))
               /\ Cardinality(OfKind(s, "ExceptionRaised")) = Len(d.raised)
               /\ Cardinality(OfKind(s, "MatchRejected")) = Len(d.refused)
               /\ Cardinality(OfKind(s, "OutOfScope")) = Len(d.scope)
<1> DEFINE s == EventsOf(d)
           es == EntriesFor(d)
<1>1. \A k \in DOMAIN Parts(d) : IsAll(s, k, Parts(d)[k])
    BY SortedEvents
<1>2. {"PostingWritten", "ExceptionRaised", "MatchRejected", "OutOfScope", "MatchProven"}
        \subseteq DOMAIN Parts(d)
    BY DEF Parts
<1>3. /\ DOMAIN d.raised = 1..Len(d.raised) /\ Len(d.raised) \in Nat
      /\ DOMAIN d.kept = 1..Len(d.kept) /\ Len(d.kept) \in Nat
      /\ DOMAIN d.refused = 1..Len(d.refused) /\ Len(d.refused) \in Nat
      /\ DOMAIN d.scope = 1..Len(d.scope) /\ Len(d.scope) \in Nat
      /\ DOMAIN es = 1..Len(es) /\ Len(es) \in Nat
    BY ListMapped
<1> HIDE DEF s, es
<1>4. \A n, m \in Nat : 1..n = 1..m => n = m
    OBVIOUS
<1>5. /\ {s[i].entry : i \in OfKind(s, "PostingWritten")} = Range(es)
      /\ Cardinality(OfKind(s, "PostingWritten")) = Len(es)
  <2> DEFINE m == [i \in DOMAIN es |-> PostingWritten(es[i])]
  <2>1. Parts(d)["PostingWritten"] = m
      BY DEF Parts, es
  <2>2. IsAll(s, "PostingWritten", m)
    <3> HIDE DEF m
    <3> QED BY <1>1, <1>2, <2>1
  <2>3. DOMAIN m = DOMAIN es /\ \A j \in DOMAIN m : m[j].entry = es[j]
      BY DEF PostingWritten
  <2> HIDE DEF m
  <2>4. Len(m) = Len(es)
      BY <1>3, <1>4, <2>2, <2>3 DEF IsAll
  <2> QED BY <2>2, <2>3, <2>4 DEF Range, IsAll
<1>6. /\ RaisedIn(s) = {[id |-> d.raised[i].id, value |-> d.raised[i].value,
                         blocks |-> d.raised[i].blocks] : i \in DOMAIN d.raised}
      /\ Cardinality(OfKind(s, "ExceptionRaised")) = Len(d.raised)
  <2> DEFINE m == [i \in DOMAIN d.raised |-> ExceptionRaised(d.raised[i])]
  <2>1. Parts(d)["ExceptionRaised"] = m
      BY DEF Parts
  <2>2. IsAll(s, "ExceptionRaised", m)
    <3> HIDE DEF m
    <3> QED BY <1>1, <1>2, <2>1
  <2>3. /\ DOMAIN m = DOMAIN d.raised
        /\ \A j \in DOMAIN m : /\ m[j].id = d.raised[j].id
                               /\ m[j].value = d.raised[j].value
                               /\ m[j].blocks = d.raised[j].blocks
      BY DEF ExceptionRaised
  <2> HIDE DEF m
  <2>4. Len(m) = Len(d.raised)
      BY <1>3, <1>4, <2>2, <2>3 DEF IsAll
  <2>5. \A x : x \in RaisedIn(s) <=> \E j \in DOMAIN m :
            x = [id |-> m[j].id, value |-> m[j].value, blocks |-> m[j].blocks]
      BY <2>2 DEF RaisedIn, IsAll
  <2>6. \A x : x \in RaisedIn(s) <=> \E j \in DOMAIN d.raised :
            x = [id |-> d.raised[j].id, value |-> d.raised[j].value,
                 blocks |-> d.raised[j].blocks]
      BY <2>3, <2>5
  <2> QED BY <2>2, <2>4, <2>6 DEF IsAll
<1>7. Pairs(s) = {External[d.kept[i].anchor] : i \in DOMAIN d.kept}
  <2> DEFINE m == [i \in DOMAIN d.kept |-> MatchProven(d.kept[i])]
  <2>1. Parts(d)["MatchProven"] = m
      BY DEF Parts
  <2>2. IsAll(s, "MatchProven", m)
    <3> HIDE DEF m
    <3> QED BY <1>1, <1>2, <2>1
  <2>3. DOMAIN m = DOMAIN d.kept /\ \A j \in DOMAIN m : m[j].anchor = d.kept[j].anchor
      BY DEF MatchProven
  <2> HIDE DEF m
  <2>4. \A x : x \in Pairs(s) <=> \E j \in DOMAIN m : x = External[m[j].anchor]
      BY <2>2 DEF Pairs, IsAll
  <2> QED BY <2>3, <2>4
<1>8. Cardinality(OfKind(s, "MatchRejected")) = Len(d.refused)
  <2> DEFINE m == [i \in DOMAIN d.refused |-> MatchRejected(d.refused[i])]
  <2>1. Parts(d)["MatchRejected"] = m /\ DOMAIN m = DOMAIN d.refused
      BY DEF Parts
  <2> HIDE DEF m
  <2>2. IsAll(s, "MatchRejected", m)
      BY <1>1, <1>2, <2>1
  <2> QED BY <1>3, <1>4, <2>1, <2>2 DEF IsAll
<1>9. Cardinality(OfKind(s, "OutOfScope")) = Len(d.scope)
  <2> DEFINE m == [i \in DOMAIN d.scope |-> OutOfScope(d.scope[i])]
  <2>1. Parts(d)["OutOfScope"] = m /\ DOMAIN m = DOMAIN d.scope
      BY DEF Parts
  <2> HIDE DEF m
  <2>2. IsAll(s, "OutOfScope", m)
      BY <1>1, <1>2, <2>1
  <2> QED BY <1>3, <1>4, <2>1, <2>2 DEF IsAll
<1> QED BY <1>5, <1>6, <1>7, <1>8, <1>9 DEF s, es

\* The whole record, read back, and the close it is of.
LEMMA WholeRecordSays ==
    ASSUME NEW d \in Decisions
    PROVE  LET s == EventsOf(d)
           IN  /\ View(s).complete = Complete(d)
               /\ View(s).blocked = BlockedReasons(d)
               /\ View(s).blocking = Blocking(d.raised)
               /\ View(s).postings = Range(EntriesFor(d))
               /\ Cardinality(View(s).exceptions) = Len(d.raised)
               /\ DistinctReferences(d) => View(s).ok = Ok(d)
               /\ View(s).ok => Ok(d)
<1> DEFINE s == EventsOf(d)
<1>1. /\ Terminated(s) /\ Terminator(s) = CloseCompleted(d)
      /\ CompleteIn(s) = Complete(d)
    BY TerminatorIs
<1>2. HardBlockers(s) = BlockedReasons(d) /\ BlockingIn(s) = Blocking(d.raised)
    BY BlockersAre
<1>3. /\ {s[i].entry : i \in OfKind(s, "PostingWritten")} = Range(EntriesFor(d))
      /\ RaisedIn(s) = {[id |-> d.raised[i].id, value |-> d.raised[i].value,
                         blocks |-> d.raised[i].blocks] : i \in DOMAIN d.raised}
      /\ Pairs(s) = {External[d.kept[i].anchor] : i \in DOMAIN d.kept}
      /\ Cardinality(OfKind(s, "PostingWritten")) = Len(EntriesFor(d))
      /\ Cardinality(OfKind(s, "ExceptionRaised")) = Len(d.raised)
      /\ Cardinality(OfKind(s, "MatchRejected")) = Len(d.refused)
      /\ Cardinality(OfKind(s, "OutOfScope")) = Len(d.scope)
    BY RecordIs
<1> HIDE DEF s
<1>4. DOMAIN d.raised = 1..Len(d.raised) /\ DOMAIN d.kept = 1..Len(d.kept)
      /\ Len(d.raised) \in Nat /\ Len(d.kept) \in Nat
    BY ListMapped
<1>5. Cardinality(RaisedIn(s)) = Len(d.raised)
  <2> DEFINE f == [i \in DOMAIN d.raised |->
                     [id |-> d.raised[i].id, value |-> d.raised[i].value,
                      blocks |-> d.raised[i].blocks]]
  <2>1. \A i, k \in DOMAIN d.raised : f[i] = f[k] => i = k
    <3>1. \A i \in DOMAIN d.raised : f[i].id = d.raised[i].id
        OBVIOUS
    <3> HIDE DEF f
    <3> QED BY <3>1, DecisionsKeepFatesApart
  <2>2. RaisedIn(s) = {f[i] : i \in 1..Len(d.raised)} /\ DOMAIN f = 1..Len(d.raised)
      BY <1>3, <1>4
  <2> HIDE DEF f
  <2> QED BY <1>4, <2>1, <2>2, ImageCount
<1>6. ASSUME DistinctReferences(d) PROVE ~Disagrees(s)
  <2> DEFINE f == [i \in DOMAIN d.kept |-> External[d.kept[i].anchor]]
  <2>1. \A i, k \in DOMAIN d.kept : f[i] = f[k] => i = k
      BY <1>6 DEF DistinctReferences
  <2>2. Pairs(s) = {f[i] : i \in 1..Len(d.kept)} /\ DOMAIN f = 1..Len(d.kept)
      BY <1>3, <1>4
  <2> HIDE DEF f
  <2>3. \A i, k \in 1..Len(d.kept) : f[i] = f[k] => i = k
      BY <1>4, <2>1
  <2>4. Cardinality(Pairs(s)) = Len(d.kept)
      BY <1>4, <2>2, <2>3, ImageCount
  <2> QED BY <1>1, <1>3, <2>4 DEF Disagrees, CloseCompleted
<1>7. /\ View(s).complete = CompleteIn(s) /\ View(s).blocked = HardBlockers(s)
      /\ View(s).blocking = BlockingIn(s) /\ View(s).exceptions = RaisedIn(s)
      /\ View(s).postings = {s[i].entry : i \in OfKind(s, "PostingWritten")}
    BY DEF View
<1>8. View(s).ok = (CompleteIn(s) /\ HardBlockers(s) = {} /\ ~Disagrees(s))
    BY DEF View
<1>9. BlockedReasons(d) = {} <=> d.errors = {} /\ d.lost = {}
    BY DEF BlockedReasons
<1>10. View(s).ok => Ok(d)
    BY <1>1, <1>2, <1>8, <1>9 DEF Ok
<1>11. DistinctReferences(d) => View(s).ok = Ok(d)
    BY <1>1, <1>2, <1>6, <1>8, <1>9 DEF Ok
<1> QED BY <1>1, <1>2, <1>3, <1>5, <1>7, <1>10, <1>11 DEF s
-----------------------------------------------------------------------------
\* What is in the log is the beginning of the record of the last close, and what a
\* close has yet to write is the rest.
Beginning ==
    /\ \A i \in 1..Len(log) : log[i] = EventsOf(close)[i]
    /\ Len(log) + Len(todo) <= Len(EventsOf(close))
    /\ todo # <<>> =>
         /\ Len(log) + Len(todo) = Len(EventsOf(close))
         /\ \A i \in 1..Len(todo) : todo[i] = EventsOf(close)[Len(log) + i]

RInv ==
    /\ Listed(log) /\ Listed(todo) /\ Listed(disposed)
    /\ log # <<>> \/ todo # <<>> => close \in Decisions
    /\ close \in Decisions => Beginning
    /\ SignatureCoversClose

LEMMA Appended ==
    ASSUME NEW s, NEW e, Listed(s)
    PROVE  /\ Listed(Append(s, e)) /\ Len(s) \in Nat /\ Len(Append(s, e)) = Len(s) + 1
           /\ DOMAIN s = 1..Len(s) /\ DOMAIN Append(s, e) = 1..(Len(s) + 1)
           /\ Append(s, e)[Len(s) + 1] = e /\ \A i \in 1..Len(s) : Append(s, e)[i] = s[i]
<1> DEFINE S == Range(s) \cup {e}
           u == Append(s, e)
<1>1. s \in Seq(S) /\ e \in S
    BY DEF Listed
<1>2. u \in Seq(S) /\ Len(u) = Len(s) + 1 /\ DOMAIN u = 1..Len(u)
    BY <1>1
<1>3. u \in Seq(Range(u))
  <2>1. \A i \in 1..Len(u) : u[i] \in Range(u)
      BY <1>2 DEF Range
  <2> QED BY <1>2, <2>1
<1> QED BY <1>1, <1>2, <1>3 DEF Listed

LEMMA HeadAndTail ==
    ASSUME NEW s, Listed(s), s # <<>>
    PROVE  /\ Listed(Tail(s)) /\ Len(s) \in Nat \ {0} /\ Len(Tail(s)) = Len(s) - 1
           /\ Head(s) = s[1] /\ \A i \in 1..Len(Tail(s)) : Tail(s)[i] = s[i + 1]
<1> DEFINE u == Tail(s)
<1>1. s \in Seq(Range(s))
    BY DEF Listed
<1>2. /\ u \in Seq(Range(s)) /\ Len(s) \in Nat \ {0} /\ Len(u) = Len(s) - 1
      /\ Head(s) = s[1] /\ DOMAIN u = 1..Len(u)
      /\ \A i \in 1..Len(u) : u[i] = s[i + 1]
    BY <1>1
<1> HIDE DEF u
<1>3. u \in Seq(Range(u))
  <2>1. \A i \in 1..Len(u) : u[i] \in Range(u)
      BY <1>2 DEF Range
  <2>2. Len(u) \in Nat
      BY <1>2
  <2>3. u \in [1..Len(u) -> Range(u)]
      BY <1>2, <2>1
  <2> QED BY <2>2, <2>3
<1> QED BY <1>2, <1>3 DEF Listed, u

LEMMA RecordBegins == RecordInit => RInv
<1> SUFFICES ASSUME RecordInit PROVE RInv
    OBVIOUS
<1>1. log = <<>> /\ todo = <<>> /\ disposed = <<>> /\ signature = None /\ close = None
    BY DEF RecordInit
<1>2. Listed(<<>>) /\ Len(<<>>) = 0
    BY Nil
<1>3. close \in Decisions => Len(EventsOf(close)) \in Nat \ {0}
    BY EventsAreSorted
<1> QED BY <1>1, <1>2, <1>3 DEF RInv, Beginning, SignatureCoversClose

LEMMA Begun == ASSUME RInv, log # <<>> PROVE close \in Decisions /\ Beginning
BY DEF RInv

\* Only the whole record has a terminator.
LEMMA TerminatedIsWhole ==
    ASSUME RInv, Terminated(log)
    PROVE  close \in Decisions /\ log = EventsOf(close)
<1> DEFINE e == EventsOf(close)
           K == OfKind(e, "CloseCompleted")
<1>1. PICK i \in DOMAIN log : log[i].kind = "CloseCompleted"
    BY DEF Terminated, OfKind
<1>2. Listed(log) /\ Listed(todo)
    BY DEF RInv
<1>3. log \in Seq(Range(log)) /\ DOMAIN log = 1..Len(log) /\ Len(log) \in Nat /\ Len(todo) \in Nat
    BY <1>2 DEF Listed
<1>4. close \in Decisions
  <2>1. log # <<>>
      BY <1>1, <1>3
  <2> QED BY <2>1 DEF RInv
<1>5. /\ \A j \in 1..Len(log) : log[j] = e[j]
      /\ Len(log) + Len(todo) <= Len(e)
    BY <1>4 DEF RInv, Beginning
<1>6. e \in Seq(Range(e)) /\ DOMAIN e = 1..Len(e) /\ Len(e) \in Nat /\ K = {Len(e)}
    BY <1>4, EventsAreSorted, TerminatorIs DEF Listed
<1> HIDE DEF e
<1>7. i \in K
    BY <1>1, <1>3, <1>5, <1>6 DEF OfKind
<1>8. Len(log) = Len(e)
  <2> HIDE DEF K
  <2>1. i = Len(e) /\ i \in 1..Len(log)
      BY <1>3, <1>6, <1>7
  <2>2. Len(log) + Len(todo) <= Len(e) /\ Len(log) \in Nat /\ Len(todo) \in Nat
      BY <1>3, <1>5
  <2> QED BY <2>1, <2>2
<1> QED BY <1>3, <1>4, <1>5, <1>6, <1>8 DEF e

LEMMA RecordWritten ==
    ASSUME RInv, (\E d \in Decisions : RunClose(d)) \/ WriteNext \/ WriterDies
    PROVE  RInv'
<1>1. SignatureCoversClose'
    BY DEF RunClose, WriteNext, WriterDies, RInv, SignatureCoversClose, Taken, DisposedOf
<1>2. Listed(disposed)'
    BY DEF RunClose, WriteNext, WriterDies, RInv, Listed, Range
<1>3. CASE \E d \in Decisions : RunClose(d)
  <2>1. PICK d \in Decisions : RunClose(d)
      BY <1>3
  <2>2. close' = d /\ log' = <<>> /\ (todo' = EventsOf(d) \/ todo' = <<>>)
      BY <2>1 DEF RunClose
  <2>3. Listed(EventsOf(d)) /\ Len(EventsOf(d)) \in Nat
      BY EventsAreSorted
  <2>4. Listed(<<>>) /\ Len(<<>>) = 0
      BY Nil
  <2>5. EventsOf(close)' = EventsOf(d)
      BY <2>2
  <2>6. Listed(log)' /\ Listed(todo)' /\ close' \in Decisions
      BY <2>2, <2>3, <2>4
  <2>7. Beginning'
      BY <2>2, <2>3, <2>4, <2>5 DEF Beginning
  <2> QED BY <1>1, <1>2, <2>6, <2>7 DEF RInv
<1>4. CASE WriteNext
  <2> DEFINE e == EventsOf(close)
  <2>1. /\ todo # <<>> /\ log' = Append(log, Head(todo)) /\ todo' = Tail(todo)
        /\ close' = close
      BY <1>4 DEF WriteNext
  <2>2. Listed(log) /\ Listed(todo) /\ close \in Decisions
      BY <2>1 DEF RInv
  <2>3. /\ \A i \in 1..Len(log) : log[i] = e[i]
        /\ Len(log) + Len(todo) = Len(e)
        /\ \A i \in 1..Len(todo) : todo[i] = e[Len(log) + i]
      BY <2>1, <2>2 DEF RInv, Beginning
  <2>4. /\ Listed(log') /\ Len(log) \in Nat /\ Len(log') = Len(log) + 1
        /\ log'[Len(log) + 1] = Head(todo) /\ \A i \in 1..Len(log) : log'[i] = log[i]
      BY <2>1, <2>2, Appended
  <2>5. /\ Listed(todo') /\ Len(todo) \in Nat \ {0} /\ Len(todo') = Len(todo) - 1
        /\ Head(todo) = todo[1] /\ \A i \in 1..Len(todo') : todo'[i] = todo[i + 1]
      BY <2>1, <2>2, HeadAndTail
  <2>6. e' = e
      BY <2>1
  <2> HIDE DEF e
  <2>7. \A i \in 1..Len(log') : log'[i] = e[i]
    <3>1. log'[Len(log) + 1] = e[Len(log) + 1]
        BY <2>3, <2>4, <2>5
    <3> QED BY <2>3, <2>4, <3>1
  <2>8. \A i \in 1..Len(todo') : todo'[i] = e[Len(log') + i]
    <3> SUFFICES ASSUME NEW i \in 1..Len(todo') PROVE todo'[i] = e[Len(log') + i]
        OBVIOUS
    <3>1. i + 1 \in 1..Len(todo) /\ Len(log) + (i + 1) = Len(log') + i
        BY <2>4, <2>5
    <3> QED BY <2>3, <2>5, <3>1
  <2>9. Len(log') + Len(todo') = Len(e)
    <3>1. Len(log') = Len(log) + 1 /\ Len(todo') = Len(todo) - 1
          /\ Len(log) \in Nat /\ Len(todo) \in Nat
        BY <2>4, <2>5
    <3>2. Len(log) + Len(todo) = Len(e)
        BY <2>3
    <3> QED BY <3>1, <3>2
  <2>10. Beginning'
      BY <2>1, <2>4, <2>5, <2>6, <2>7, <2>8, <2>9 DEF Beginning, e
  <2> QED BY <1>1, <1>2, <2>1, <2>2, <2>4, <2>5, <2>10 DEF RInv
<1>5. CASE WriterDies
  <2>1. todo # <<>> /\ todo' = <<>> /\ log' = log /\ close' = close
      BY <1>5 DEF WriterDies
  <2>2. Listed(<<>>) /\ Len(<<>>) = 0
      BY Nil
  <2>3. Listed(log) /\ Listed(todo) /\ close \in Decisions /\ Beginning
      BY <2>1 DEF RInv
  <2>4. Len(log) \in Nat /\ Len(todo) \in Nat /\ Len(EventsOf(close)) \in Nat
      BY <2>3, EventsAreSorted DEF Listed
  <2>5. Listed(log)'
      BY <2>1, <2>3 DEF Listed, Range
  <2>6. Beginning'
      BY <2>1, <2>2, <2>3, <2>4 DEF Beginning
  <2> QED BY <1>1, <1>2, <2>1, <2>2, <2>3, <2>5, <2>6 DEF RInv
<1> QED BY <1>3, <1>4, <1>5

LEMMA TakenGrows ==
    ASSUME Listed(disposed), Listed(disposed)', acknowledged \subseteq acknowledged',
           \/ disposed' = disposed
           \/ \E e : disposed' = Append(disposed, e)
    PROVE  DisposedOf \subseteq DisposedOf' /\ Taken \subseteq Taken'
<1>1. ASSUME NEW e, disposed' = Append(disposed, e) PROVE DisposedOf \subseteq DisposedOf'
  <2>1. /\ DOMAIN disposed = 1..Len(disposed) /\ DOMAIN disposed' = 1..(Len(disposed) + 1)
        /\ Len(disposed) \in Nat /\ \A i \in 1..Len(disposed) : disposed'[i] = disposed[i]
      BY <1>1, Appended
  <2>2. \A i \in DOMAIN disposed : i \in DOMAIN disposed'
      BY <2>1
  <2> QED BY <2>1, <2>2 DEF DisposedOf
<1>2. DisposedOf \subseteq DisposedOf'
    BY <1>1 DEF DisposedOf
<1> QED BY <1>2 DEF Taken

LEMMA RecordReviewed ==
    ASSUME RInv,
           \/ \E x \in RaisedIn(log) : Acknowledge(x) \/ \E e \in Endings : Dispose(x, e)
           \/ SignOff
    PROVE  RInv'
<1>1. UNCHANGED <<log, todo, close>>
    BY DEF Acknowledge, Dispose, SignOff
<1>2. /\ Listed(log)' /\ Listed(todo)' /\ (log # <<>> \/ todo # <<>> => close \in Decisions)'
      /\ (close \in Decisions => Beginning)'
    BY <1>1 DEF RInv, Listed, Range, Beginning
<1>3. \/ disposed' = disposed
      \/ \E e : disposed' = Append(disposed, e)
    BY DEF Acknowledge, Dispose, SignOff
<1>4. Listed(disposed)'
  <2>1. Listed(disposed)
      BY DEF RInv
  <2>2. \A e : Listed(Append(disposed, e))
      BY <2>1, Appended
  <2>3. disposed' = disposed => Listed(disposed)'
      BY <2>1 DEF Listed, Range
  <2>4. \A e : disposed' = Append(disposed, e) => Listed(disposed')
      BY <2>2
  <2> QED BY <1>3, <2>3, <2>4
<1>5. Taken \subseteq Taken'
  <2>1. acknowledged \subseteq acknowledged'
      BY DEF Acknowledge, Dispose, SignOff
  <2> QED BY <1>3, <1>4, <2>1, TakenGrows DEF RInv
<1>6. CASE signature' = signature
    BY <1>2, <1>4, <1>5, <1>6 DEF RInv, SignatureCoversClose
<1>7. CASE SignOff /\ Terminated(log)
  <2>1. close \in Decisions /\ log = EventsOf(close)
      BY <1>7, TerminatedIsWhole
  <2>2. View(log).blocked = BlockedReasons(close)
      BY <2>1, WholeRecordSays
  <2>3. RaisedIn(log) = {[id |-> close.raised[i].id, value |-> close.raised[i].value,
                          blocks |-> close.raised[i].blocks] : i \in DOMAIN close.raised}
      BY <2>1, RecordIs
  <2>4. View(log).blocked = {} /\ BlockersLeft = {}
        /\ signature' = [of |-> close, whole |-> Terminated(log)]
      BY <1>7 DEF SignOff
  <2>5. signature'.of = close
      BY <2>4
  <2>6. Blocking(close.raised) \subseteq Taken
    <3> SUFFICES ASSUME NEW i \in DOMAIN close.raised, close.raised[i].blocks
                 PROVE  close.raised[i].id \in Taken
        BY DEF Blocking
    <3> DEFINE x == [id |-> close.raised[i].id, value |-> close.raised[i].value,
                     blocks |-> close.raised[i].blocks]
    <3>1. x \in RaisedIn(log)
        BY <2>3
    <3>2. x.blocks /\ x.id = close.raised[i].id
        BY Zenon
    <3> HIDE DEF x
    <3> QED BY <3>1, <3>2, <2>4 DEF BlockersLeft
  <2>7. SignatureCoversClose'
      BY <2>2, <2>4, <2>5, <2>6, <1>5 DEF SignatureCoversClose
  <2> QED BY <1>2, <1>4, <2>7 DEF RInv
<1>8. CASE SignOff /\ ~Terminated(log)
  <2>1. ~signature'.whole
    <3>1. signature' = [of |-> close, whole |-> Terminated(log)]
        BY <1>8 DEF SignOff
    <3> QED BY <3>1, <1>8, Zenon
  <2> QED BY <1>2, <1>4, <2>1 DEF RInv, SignatureCoversClose
<1> QED BY <1>6, <1>7, <1>8 DEF Acknowledge, Dispose

LEMMA RecordSteps == RInv /\ [RecordNext]_recordVars => RInv'
<1> SUFFICES ASSUME RInv, [RecordNext]_recordVars PROVE RInv'
    OBVIOUS
<1>1. CASE UNCHANGED recordVars
    BY <1>1 DEF recordVars, RInv, Listed, Range, Beginning, SignatureCoversClose, Taken, DisposedOf
<1> QED BY <1>1, RecordWritten, RecordReviewed DEF RecordNext

LEMMA RecordInvariant == RecordSpec => []RInv
BY RecordBegins, RecordSteps, PTL DEF RecordSpec

\* What a reader of a whole record sees is what the close decided.
THEOREM RecordIsFaithful == RecordSpec => []RecordSaysWhatWasDecided
<1>1. RInv => RecordSaysWhatWasDecided
    BY TerminatedIsWhole, WholeRecordSays DEF RecordSaysWhatWasDecided
<1> QED BY <1>1, RecordInvariant, PTL

\* A part of a record never looks like a good close.
THEOREM NoFlattery == RecordSpec => []ViewNeverFlatters
<1>1. RInv => ViewNeverFlatters
  <2> SUFFICES ASSUME RInv, View(log).ok PROVE Ok(close) /\ Terminated(log)
      BY DEF ViewNeverFlatters
  <2>1. View(log).ok = (CompleteIn(log) /\ HardBlockers(log) = {} /\ ~Disagrees(log))
      BY DEF View
  <2>2. Terminated(log)
      BY <2>1 DEF Disagrees
  <2> QED BY <2>2, TerminatedIsWhole, WholeRecordSays
<1> QED BY <1>1, RecordInvariant, PTL

\* A signature over a whole record covers books that balance and a queue whose
\* blocking items were all taken (`sign_off`), although the close may be run again
\* under it, decide otherwise, and die on the way.
THEOREM SignaturesHold == RecordSpec => []SignatureCoversClose
<1>1. RInv => SignatureCoversClose
    BY DEF RInv
<1> QED BY <1>1, RecordInvariant, PTL

LEMMA EntriesDiffer ==
    ASSUME NEW d \in Decisions, NEW i \in DOMAIN EntriesFor(d), NEW k \in DOMAIN EntriesFor(d),
           EntriesFor(d)[i].about = EntriesFor(d)[k].about
    PROVE  i = k
<1> DEFINE I == {j \in DOMAIN d.raised : Postable(d, d.raised[j])}
           c == Cardinality(I)
           es == EntriesFor(d)
           n == Len(d.kept)
<1>1. /\ n \in Nat /\ c \in Nat /\ DOMAIN d.kept = 1..n
      /\ Len(es) = n + c /\ DOMAIN es = 1..Len(es)
      /\ \A j \in DOMAIN d.kept : es[j] = MatchEntry(d.kept[j])
      /\ \A m \in 1..c : es[n + m] = ExceptionEntry(d, d.raised[Nth(I, m)])
    BY EntriesAre
<1>2. /\ \A m \in 1..c : Nth(I, m) \in I /\ Rank(I, Nth(I, m)) = m
  <2>1. DOMAIN d.raised = 1..Len(d.raised) /\ Len(d.raised) \in Nat
      BY ListMapped
  <2>2. I \in SUBSET (1..Len(d.raised))
      BY <2>1
  <2> HIDE DEF I
  <2> QED BY <2>1, <2>2, NthIs
<1> HIDE DEF c, es, n
<1>3. \A j \in 1..n : es[j].about = d.kept[j].anchor
  <2>1. \A x : MatchEntry(x).about = x.anchor
      BY DEF MatchEntry
  <2> QED BY <1>1, <2>1
<1>4. \A m \in 1..c : es[n + m].about = AnchorOf(d.raised[Nth(I, m)])
  <2>1. \A x : ExceptionEntry(d, x).about = AnchorOf(x)
      BY DEF ExceptionEntry
  <2> QED BY <1>1, <2>1
<1>5. \A j \in DOMAIN es : j \in 1..n \/ (j - n \in 1..c /\ j = n + (j - n))
    BY <1>1
<1>6. \A j \in 1..n : d.kept[j].anchor \in MatchedAnchors(d.kept)
    BY <1>1 DEF MatchedAnchors
<1>7. \A m \in 1..c : /\ AnchorOf(d.raised[Nth(I, m)]) \notin MatchedAnchors(d.kept)
                       /\ AnchorsAt(d.raised[Nth(I, m)]) # {} /\ Nth(I, m) \in DOMAIN d.raised
    BY <1>2 DEF Postable
<1>8. \A m, p \in 1..c : AnchorOf(d.raised[Nth(I, m)]) = AnchorOf(d.raised[Nth(I, p)]) => m = p
    BY <1>2, <1>7, DecisionsKeepFatesApart
<1>9. \A j, m \in 1..n : d.kept[j].anchor = d.kept[m].anchor => j = m
    BY <1>1, DecisionsKeepFatesApart
<1>10. i \in DOMAIN es /\ k \in DOMAIN es /\ es[i].about = es[k].about
    BY DEF es
<1>11. CASE i \in 1..n /\ k \in 1..n
    BY <1>3, <1>9, <1>10, <1>11
<1>12. CASE i \in 1..n /\ k \notin 1..n
    BY <1>3, <1>4, <1>5, <1>6, <1>7, <1>10, <1>12
<1>13. CASE i \notin 1..n /\ k \in 1..n
    BY <1>3, <1>4, <1>5, <1>6, <1>7, <1>10, <1>13
<1>14. CASE i \notin 1..n /\ k \notin 1..n
  <2>1. i - n \in 1..c /\ i = n + (i - n) /\ k - n \in 1..c /\ k = n + (k - n)
      BY <1>5, <1>10, <1>14
  <2>2. i - n = k - n
      BY <1>4, <1>8, <1>10, <2>1
  <2> QED BY <2>1, <2>2
<1> QED BY <1>11, <1>12, <1>13, <1>14

LEMMA PostedOnceIn ==
    ASSUME NEW d \in Decisions,
           NEW i \in OfKind(EventsOf(d), "PostingWritten"),
           NEW k \in OfKind(EventsOf(d), "PostingWritten"),
           EventsOf(d)[i].entry.about = EventsOf(d)[k].entry.about
    PROVE  i = k
<1> DEFINE s == EventsOf(d)
           es == EntriesFor(d)
           m == [j \in DOMAIN es |-> PostingWritten(es[j])]
<1>1. Parts(d)["PostingWritten"] = m /\ "PostingWritten" \in DOMAIN Parts(d)
    BY DEF Parts
<1>2. Holds(s, "PostingWritten", m)
  <2> HIDE DEF m
  <2> QED BY <1>1, EventsAreSorted DEF Sorted
<1>3. DOMAIN m = DOMAIN es /\ \A j \in DOMAIN es : m[j].entry = es[j]
    BY DEF PostingWritten
<1> HIDE DEF m
<1>4. PICK o \in Nat : /\ OfKind(s, "PostingWritten") = {o + j : j \in 1..Len(m)}
                       /\ \A j \in 1..Len(m) : s[o + j] = m[j]
    BY <1>2 DEF Holds
<1>5. DOMAIN m = 1..Len(m)
    BY <1>2 DEF Holds, Listed
<1>6. PICK j \in 1..Len(m) : i = o + j
    BY <1>4
<1>7. PICK n \in 1..Len(m) : k = o + n
    BY <1>4
<1>8. es[j].about = es[n].about
    BY <1>3, <1>4, <1>5, <1>6, <1>7
<1>9. j = n
    BY <1>3, <1>5, <1>8, EntriesDiffer
<1> QED BY <1>6, <1>7, <1>9

\* In a complete close, a line in scope that is not refused has an entry.
LEMMA EntryForEveryLine ==
    ASSUME NEW d \in Decisions, Complete(d), NEW a \in d.read \cap Anchors,
           a \notin Range(d.scope),
           a \in MatchedAnchors(d.refused)
             => a \in MatchedAnchors(d.kept) \cup Explained(d.raised)
    PROVE  \E i \in DOMAIN EntriesFor(d) : EntriesFor(d)[i].about = a
<1> DEFINE I == {j \in DOMAIN d.raised : Postable(d, d.raised[j])}
           c == Cardinality(I)
           es == EntriesFor(d)
           n == Len(d.kept)
<1>1. /\ n \in Nat /\ c \in Nat /\ DOMAIN d.kept = 1..n
      /\ Len(es) = n + c /\ DOMAIN es = 1..Len(es)
      /\ \A j \in DOMAIN d.kept : es[j] = MatchEntry(d.kept[j])
      /\ \A m \in 1..c : es[n + m] = ExceptionEntry(d, d.raised[Nth(I, m)])
    BY EntriesAre
<1>2. \A j \in I : Rank(I, j) \in 1..c /\ Nth(I, Rank(I, j)) = j
  <2>1. DOMAIN d.raised = 1..Len(d.raised) /\ Len(d.raised) \in Nat
      BY ListMapped
  <2>2. I \in SUBSET (1..Len(d.raised))
      BY <2>1
  <2> HIDE DEF I
  <2> QED BY <2>1, <2>2, NthIs
<1> HIDE DEF c, es, n
<1>3. /\ \A x : MatchEntry(x).about = x.anchor
      /\ \A x : ExceptionEntry(d, x).about = AnchorOf(x)
    BY DEF MatchEntry, ExceptionEntry
<1>4. CASE a \in MatchedAnchors(d.kept)
  <2>1. PICK j \in DOMAIN d.kept : d.kept[j].anchor = a
      BY <1>4 DEF MatchedAnchors
  <2>2. j \in DOMAIN es /\ es[j].about = a
      BY <1>1, <1>3, <2>1
  <2> QED BY <2>2 DEF es
<1>5. CASE a \notin MatchedAnchors(d.kept)
  <2>1. a \in InMatches(d.kept) \cup InMatches(d.refused) => a \in MatchedAnchors(d.refused)
      BY <1>5, DecisionsAreTyped DEF InMatches, MatchedAnchors
  <2>2. a \in Explained(d.raised)
    <3>1. Disposition(d, a) # "undisposed"
        BY DEF Complete
    <3> QED BY <1>5, <2>1, <3>1 DEF Disposition
  <2>3. PICK j \in DOMAIN d.raised :
            a \in Range(d.raised[j].on) \cup UNION d.raised[j].alternatives
      BY <2>2 DEF Explained
  <2> DEFINE x == d.raised[j]
  <2>4. a \in Range(x.on)
    <3>1. Anchors \cap UNION x.alternatives = {}
        BY <2>3, DecisionsKeepFatesApart
    <3> QED BY <2>3, <3>1
  <2>5. AnchorsAt(x) # {} /\ AnchorOf(x) = a
    <3>1. PICK p \in DOMAIN x.on : x.on[p] = a
        BY <2>4 DEF Range
    <3>2. \A q, r \in AnchorsAt(x) : q = r
        BY <2>3, DecisionsKeepFatesApart
    <3>3. AnchorsAt(x) \in SUBSET Nat
      <4>1. DOMAIN x.on = 1..Len(x.on) /\ Len(x.on) \in Nat
          BY <2>3, DecisionsAreTyped DEF Listed
      <4> QED BY <4>1 DEF AnchorsAt
    <3>4. p \in AnchorsAt(x)
        BY <3>1 DEF AnchorsAt
    <3>5. Min(AnchorsAt(x)) = p
        BY <3>2, <3>3, <3>4, MinIsLeast
    <3> QED BY <3>1, <3>4, <3>5 DEF AnchorOf
  <2>6. j \in I
      BY <2>3, <2>5, <1>5 DEF Postable
  <2> HIDE DEF I, x
  <2>7. Rank(I, j) \in 1..c /\ d.raised[Nth(I, Rank(I, j))] = x
      BY <1>2, <2>6 DEF x
  <2>8. n + Rank(I, j) \in DOMAIN es /\ es[n + Rank(I, j)].about = a
      BY <1>1, <1>3, <2>5, <2>7
  <2> QED BY <2>8 DEF es
<1> QED BY <1>4, <1>5

\* No bank line is posted twice, whatever part of the record was written; and a
\* complete record posts every line in scope that no refused match holds
\* (`entries_for`, `audit`).
THEOREM LinesArePostedOnce == RecordSpec => []CashIsPostedOnce
<1>1. RInv => CashIsPostedOnce
  <2> SUFFICES ASSUME RInv PROVE CashIsPostedOnce
      OBVIOUS
  <2>1. ASSUME NEW a \in Anchors PROVE Cardinality(Postings(a)) <= 1
    <3>1. ASSUME NEW i \in Postings(a), NEW k \in Postings(a) PROVE i = k
      <4>1. /\ i \in DOMAIN log /\ k \in DOMAIN log
            /\ log[i].kind = "PostingWritten" /\ log[k].kind = "PostingWritten"
            /\ log[i].entry.about = a /\ log[k].entry.about = a
          BY <3>1 DEF Postings, OfKind
      <4>2. Listed(log) /\ Listed(todo) /\ close \in Decisions /\ Beginning
        <5>1. Listed(log) /\ Listed(todo)
            BY DEF RInv
        <5>2. log # <<>>
            BY <4>1, <5>1 DEF Listed
        <5> QED BY <5>1, <5>2, Begun
      <4>3. DOMAIN log = 1..Len(log) /\ Len(log) \in Nat /\ Len(todo) \in Nat
          BY <4>2 DEF Listed
      <4>4. DOMAIN EventsOf(close) = 1..Len(EventsOf(close)) /\ Len(EventsOf(close)) \in Nat
          BY <4>2, EventsAreSorted DEF Listed
      <4>5. /\ log[i] = EventsOf(close)[i] /\ log[k] = EventsOf(close)[k]
            /\ Len(log) + Len(todo) <= Len(EventsOf(close))
          BY <4>1, <4>2, <4>3 DEF Beginning
      <4>6. i \in DOMAIN EventsOf(close) /\ k \in DOMAIN EventsOf(close)
          BY <4>1, <4>3, <4>4, <4>5
      <4>7. /\ i \in OfKind(EventsOf(close), "PostingWritten")
            /\ k \in OfKind(EventsOf(close), "PostingWritten")
          BY <4>1, <4>5, <4>6 DEF OfKind
      <4> QED BY <4>1, <4>2, <4>5, <4>7, PostedOnceIn
    <3>2. CASE Postings(a) = {}
        BY <3>2, FS_EmptySet
    <3>3. CASE Postings(a) # {}
      <4>1. PICK i \in Postings(a) : TRUE
          BY <3>3
      <4>2. Postings(a) = {i}
          BY <3>1, <4>1
      <4>3. Cardinality({i}) = 1
          BY FS_Singleton
      <4> QED BY <4>2, <4>3
    <3> QED BY <3>2, <3>3
  <2>2. ASSUME CompleteIn(log), NEW a \in close.read \cap Anchors, Postings(a) = {}
        PROVE  a \in Range(close.scope) \cup MatchedAnchors(close.refused)
    <3>1. Terminated(log)
        BY <2>2 DEF CompleteIn, Terminated
    <3>2. close \in Decisions /\ log = EventsOf(close)
        BY <3>1, TerminatedIsWhole
    <3>3. Complete(close)
        BY <2>2, <3>2, TerminatorIs
    <3>4. {log[i].entry : i \in OfKind(log, "PostingWritten")} = Range(EntriesFor(close))
        BY <3>2, RecordIs
    <3>5. SUFFICES ASSUME a \notin Range(close.scope) \cup MatchedAnchors(close.refused)
                   PROVE  FALSE
        OBVIOUS
    <3>6. PICK i \in DOMAIN EntriesFor(close) : EntriesFor(close)[i].about = a
        BY <3>2, <3>3, <3>5, EntryForEveryLine
    <3>7. PICK k \in OfKind(log, "PostingWritten") : log[k].entry = EntriesFor(close)[i]
        BY <3>4 DEF Range
    <3> QED BY <2>2, <3>6, <3>7 DEF Postings
  <2> QED BY <2>1, <2>2 DEF CashIsPostedOnce
<1> QED BY <1>1, RecordInvariant, PTL
-----------------------------------------------------------------------------
LEMMA DeskSteps == [DeskNext]_deskVars => [RecordNext]_recordVars
BY DEF DeskNext, deskVars, recordVars, Elsewhere, OpenItem, OpenClose, OpenWorklist, OpenPack,
       ReadPage, PressTake, PressDispose, PressSignOff, Show, Unmoved, RecordNext, Acknowledge,
       Dispose, SignOff

\* Whatever people do at the screens is something that the record allows.
THEOREM DeskKeepsTheRecord == DeskSpec => RecordSpec
<1>1. DeskInit => RecordInit
    BY DEF DeskInit
<1> QED BY <1>1, DeskSteps, PTL DEF DeskSpec, RecordSpec

LEMMA SubSeqJoined ==
    ASSUME NEW s, Listed(s), NEW from \in 0..Len(s), NEW n \in 0..(Len(s) - from)
    PROVE  SubSeq(s, 1, from) \o SubSeq(s, from + 1, from + n) = SubSeq(s, 1, from + n)
<1> DEFINE S == Range(s)
           a == SubSeq(s, 1, from)
           b == SubSeq(s, from + 1, from + n)
           c == SubSeq(s, 1, from + n)
<1>1. /\ s \in Seq(S) /\ Len(s) \in Nat /\ DOMAIN s = 1..Len(s)
      /\ from \in Nat /\ n \in Nat
    BY DEF Listed
<1>2. a \in Seq(S) /\ Len(a) = from /\ \A i \in 1..from : a[i] = s[i]
    BY <1>1
<1>3. b \in Seq(S) /\ Len(b) = n /\ \A i \in 1..n : b[i] = s[from + i]
    BY <1>1
<1>4. c \in Seq(S) /\ Len(c) = from + n /\ \A i \in 1..(from + n) : c[i] = s[i]
    BY <1>1
<1> HIDE DEF a, b, c, S
<1>5. /\ a \o b \in Seq(S) /\ Len(a \o b) = from + n
      /\ \A i \in 1..from : (a \o b)[i] = a[i]
      /\ \A i \in 1..n : (a \o b)[from + i] = b[i]
  <2>1. a \o b \in Seq(S) /\ Len(a \o b) = Len(a) + Len(b)
      BY <1>2, <1>3
  <2>2. \A i \in 1..(Len(a) + Len(b)) :
            (a \o b)[i] = IF i <= Len(a) THEN a[i] ELSE b[i - Len(a)]
      BY <1>2, <1>3
  <2>3. ASSUME NEW i \in 1..n PROVE (a \o b)[from + i] = b[i]
    <3>1. from + i \in 1..(from + n) /\ ~(from + i <= from) /\ (from + i) - from = i
        BY <1>1
    <3> QED BY <1>2, <1>3, <2>2, <3>1
  <2>4. ASSUME NEW i \in 1..from PROVE (a \o b)[i] = a[i]
    <3>1. i \in 1..(from + n) /\ i <= from
        BY <1>1
    <3> QED BY <1>2, <1>3, <2>2, <3>1
  <2> QED BY <1>2, <1>3, <2>1, <2>3, <2>4
<1>6. ASSUME NEW i \in 1..(from + n) PROVE (a \o b)[i] = c[i]
  <2>1. CASE i \in 1..from
      BY <1>2, <1>4, <1>5, <2>1
  <2>2. CASE i \notin 1..from
    <3>1. i - from \in 1..n /\ i = from + (i - from)
        BY <2>2
    <3> QED BY <1>3, <1>4, <1>5, <3>1
  <2> QED BY <2>1, <2>2
<1>7. a \o b = c
    BY <1>4, <1>5, <1>6
<1> QED BY <1>7 DEF a, b, c

LEMMA PageFits ==
    ASSUME NEW s, Listed(s), NEW from \in 0..Len(s), NEW limit \in Limits
    PROVE  Fitting(s, from, limit) \in 0..(Len(s) - from)
<1> DEFINE most == IF limit = None THEN Len(s) - from ELSE Min({limit, Len(s) - from})
           T == {n \in 0..most :
                   n <= 1 \/ WeightOf(SubSeq(s, from + 1, from + n)) <= ResultBudget}
<1>1. Len(s) \in Nat /\ Len(s) - from \in Nat
    BY DEF Listed
<1>2. most \in 0..(Len(s) - from)
  <2>1. CASE limit = None
      BY <1>1, <2>1
  <2>2. CASE limit # None
    <3>1. limit \in Nat
        BY <2>2, LimitsAreNumbers
    <3> DEFINE P == {limit, Len(s) - from}
    <3>2. P \in SUBSET Nat /\ P # {}
        BY <1>1, <3>1
    <3>3. Min(P) \in P /\ \A k \in P : Min(P) <= k
        BY <3>2, MinIsLeast
    <3>4. Min(P) \in 0..(Len(s) - from)
        BY <1>1, <3>1, <3>3
    <3> QED BY <2>2, <3>4
  <2> QED BY <2>1, <2>2
<1> HIDE DEF most
<1>3. T \in SUBSET (0..most) /\ 0 \in T
    BY <1>2
<1>4. Max(T) \in T
  <2> HIDE DEF T
  <2>1. most \in Nat /\ T # {}
      BY <1>2, <1>3
  <2> QED BY <1>3, <2>1, MaxIsGreatest
<1>5. Fitting(s, from, limit) = Max(T)
    BY DEF Fitting, most
<1> QED BY <1>1, <1>2, <1>4, <1>5

LEMMA CollectionsAreLists == ASSUME Listed(log), NEW what PROVE Listed(Collection(what))
<1> DEFINE I == {i \in DOMAIN log : log[i].kind \in {"MatchProven", "MatchRejected",
                                                   "RuleApplied", "ProposalRefused"}}
           d == Decided(log)
<1>1. DOMAIN log = 1..Len(log) /\ Len(log) \in Nat
    BY DEF Listed
<1>2. Cardinality(I) \in Nat
    BY <1>1, NthIs
<1>3. d = [n \in 1..Cardinality(I) |-> d[n]]
    BY DEF Decided, ItemsAt
<1> HIDE DEF d, I
<1>4. Listed(d)
    BY <1>2, <1>3, ListOf
<1> QED BY <1>4 DEF Collection, d

\* What a reader has is what its next offset says.
Tiled ==
    reader # None =>
        LET all == Collection(reader.what)
        IN  \/ reader.next = None /\ reader.items = SubSeq(all, 1, Len(all))
            \/ reader.next \in 0..Len(all) /\ reader.items = SubSeq(all, 1, reader.next)

LEMMA PageRead ==
    ASSUME RInv, Tiled, NEW what \in {"events", "decisions"}, NEW limit \in Limits,
           ReadPage(what, limit)
    PROVE  Tiled'
<1> DEFINE s == Collection(what)
           from == IF reader = None THEN 0 ELSE reader.next
           n == Fitting(s, from, limit)
           part == Paginate(s, from, limit)
<1>1. Listed(s)
    BY CollectionsAreLists DEF RInv
<1>2. Len(s) \in Nat
    BY <1>1 DEF Listed
<1>3. from \in 0..Len(s) /\ (reader # None => reader.items = SubSeq(s, 1, from))
  <2>1. reader # None => reader.what = what /\ reader.next # None
      BY DEF ReadPage
  <2> HIDE DEF s
  <2>2. CASE reader = None
      BY <1>2, <2>2
  <2>3. CASE reader # None
      BY <2>1, <2>3 DEF Tiled, s
  <2> QED BY <2>2, <2>3
<1>4. n \in 0..(Len(s) - from)
  <2> HIDE DEF s, from
  <2> QED BY <1>1, <1>3, PageFits
<1>5. /\ part.items = SubSeq(s, from + 1, from + n)
      /\ part.next = IF from + n < Len(s) THEN from + n ELSE None
    BY DEF Paginate
<1>6. reader' = [what |-> what, next |-> part.next,
                 items |-> IF reader = None THEN part.items ELSE reader.items \o part.items]
    BY DEF ReadPage
<1>7. /\ reader'.what = what /\ reader'.next = part.next
      /\ reader'.items = IF reader = None THEN part.items ELSE reader.items \o part.items
  <2> HIDE DEF part
  <2> QED BY <1>6
<1>8. (Collection(what))' = s
    BY DEF ReadPage, Unmoved, Collection
<1>9. reader = None => from = 0
    OBVIOUS
<1> HIDE DEF s, from, n, part
<1>10. reader'.items = SubSeq(s, 1, from + n)
  <2>1. CASE reader = None
    <3>1. from = 0 /\ from + 1 = 1
        BY <1>9, <2>1
    <3> QED BY <1>5, <1>7, <2>1, <3>1
  <2>2. CASE reader # None
    <3>1. reader'.items = SubSeq(s, 1, from) \o SubSeq(s, from + 1, from + n)
        BY <1>3, <1>5, <1>7, <2>2
    <3> QED BY <1>1, <1>3, <1>4, <3>1, SubSeqJoined
  <2> QED BY <2>1, <2>2
<1>11. CASE from + n < Len(s)
  <2>1. reader'.next = from + n /\ from + n \in 0..Len(s)
      BY <1>2, <1>3, <1>4, <1>5, <1>7, <1>11
  <2> QED BY <1>7, <1>8, <1>10, <2>1 DEF Tiled
<1>12. CASE ~(from + n < Len(s))
  <2>1. from + n = Len(s) /\ reader'.next = None
      BY <1>2, <1>3, <1>4, <1>5, <1>7, <1>12
  <2> QED BY <1>7, <1>8, <1>10, <2>1 DEF Tiled
<1> QED BY <1>11, <1>12

LEMMA TiledSteps == RInv /\ Tiled /\ [DeskNext]_deskVars => Tiled'
<1> SUFFICES ASSUME RInv, Tiled, [DeskNext]_deskVars PROVE Tiled'
    OBVIOUS
<1>1. ASSUME reader' = reader, log' = log PROVE Tiled'
    BY <1>1 DEF Tiled, Collection
<1>2. ASSUME reader' = None PROVE Tiled'
    BY <1>2 DEF Tiled
<1>3. CASE UNCHANGED deskVars
    BY <1>1, <1>3 DEF deskVars
<1>4. CASE Elsewhere
    BY <1>1, <1>2, <1>4 DEF Elsewhere
<1>5. CASE (\E x \in RaisedIn(log) : OpenItem(x)) \/ OpenClose \/ OpenWorklist \/ OpenPack
    BY <1>2, <1>5 DEF OpenItem, OpenClose, OpenWorklist, OpenPack, Show
<1>6. CASE PressTake \/ (\E e \in Endings : PressDispose(e)) \/ PressSignOff
    BY <1>1, <1>6 DEF PressTake, PressDispose, PressSignOff, Acknowledge, Dispose, SignOff
<1> QED BY <1>3, <1>4, <1>5, <1>6, PageRead DEF DeskNext

\* A reader who follows the offsets holds exactly the beginning of the collection,
\* nothing skipped and nothing twice, whatever each page was cut down to
\* (`_page`, `_budgeted`); a new log under him makes him start again.
THEOREM PagesTile == DeskSpec => []PagesTileTheRecord
<1>1. DeskInit => Tiled
    BY DEF DeskInit, Tiled
<1>2. DeskSpec => []RInv
    BY DeskKeepsTheRecord, RecordInvariant, PTL
<1>3. DeskSpec => []Tiled
    BY <1>1, <1>2, TiledSteps, PTL DEF DeskSpec
<1>4. Tiled => PagesTileTheRecord
  <2>1. \A n \in Nat : n # None
      BY LimitsAreNumbers
  <2>2. \A s : 0..Len(s) \subseteq Nat
      OBVIOUS
  <2> QED BY <2>1, <2>2 DEF Tiled, PagesTileTheRecord
<1> QED BY <1>3, <1>4, PTL

-----------------------------------------------------------------------------
LEMMA AnchorOfIs ==
    ASSUME NEW d \in Decisions, NEW i \in DOMAIN d.raised, AnchorsAt(d.raised[i]) # {}
    PROVE  /\ AnchorOf(d.raised[i]) \in Anchors
           /\ AnchorOf(d.raised[i]) \in Explained(d.raised)
<1> DEFINE x == d.raised[i]
<1>1. AnchorsAt(x) \in SUBSET Nat
  <2>1. DOMAIN x.on = 1..Len(x.on) /\ Len(x.on) \in Nat
      BY DecisionsAreTyped DEF Listed
  <2> QED BY <2>1 DEF AnchorsAt
<1>2. Min(AnchorsAt(x)) \in AnchorsAt(x)
    BY <1>1, MinIsLeast
<1>3. AnchorOf(x) \in Anchors /\ AnchorOf(x) \in Range(x.on)
    BY <1>2 DEF AnchorsAt, AnchorOf, Range
<1> QED BY <1>3 DEF Explained

\* The entries of a close: what each is about, its value and where it comes from.
LEMMA EntriesSay ==
    ASSUME NEW d \in Decisions
    PROVE  /\ \A e \in Range(EntriesFor(d)) :
                /\ e.debit = "bank" /\ e.value = Amount[e.about] /\ e.about \in Anchors
                /\ \/ e.about \in MatchedAnchors(d.kept)
                   \/ e.about \in Explained(d.raised)
           /\ \A v : v \in {e.origin : e \in Range(EntriesFor(d))} <=>
                \/ \E i \in DOMAIN d.kept : v = d.kept[i].id
                \/ \E i \in DOMAIN d.raised : Postable(d, d.raised[i]) /\ v = d.raised[i].id
<1> DEFINE I == {j \in DOMAIN d.raised : Postable(d, d.raised[j])}
           c == Cardinality(I)
           es == EntriesFor(d)
           n == Len(d.kept)
<1>1. /\ n \in Nat /\ c \in Nat /\ DOMAIN d.kept = 1..n
      /\ Len(es) = n + c /\ DOMAIN es = 1..Len(es)
      /\ \A j \in DOMAIN d.kept : es[j] = MatchEntry(d.kept[j])
      /\ \A m \in 1..c : es[n + m] = ExceptionEntry(d, d.raised[Nth(I, m)])
    BY EntriesAre
<1>2. /\ \A m \in 1..c : Nth(I, m) \in I
      /\ \A j \in I : Rank(I, j) \in 1..c /\ Nth(I, Rank(I, j)) = j
  <2>1. DOMAIN d.raised = 1..Len(d.raised) /\ Len(d.raised) \in Nat
      BY ListMapped
  <2>2. I \in SUBSET (1..Len(d.raised))
      BY <2>1
  <2> HIDE DEF I
  <2> QED BY <2>1, <2>2, NthIs
<1> HIDE DEF c, es, n
<1>3. \A j \in DOMAIN es : j \in 1..n \/ (j - n \in 1..c /\ j = n + (j - n))
    BY <1>1
<1>4. \A j \in 1..n : j \in DOMAIN es
    BY <1>1
<1>5. \A m \in 1..c : n + m \in DOMAIN es
    BY <1>1
<1>6. \A x : /\ MatchEntry(x).debit = "bank" /\ MatchEntry(x).about = x.anchor
             /\ MatchEntry(x).value = Amount[x.anchor] /\ MatchEntry(x).origin = x.id
    BY DEF MatchEntry
<1>7. \A x : /\ ExceptionEntry(d, x).debit = "bank"
             /\ ExceptionEntry(d, x).about = AnchorOf(x)
             /\ ExceptionEntry(d, x).value = Amount[AnchorOf(x)]
             /\ ExceptionEntry(d, x).origin = x.id
    BY DEF ExceptionEntry
<1>8. \A e : e \in Range(es) <=> \/ \E j \in DOMAIN d.kept : e = MatchEntry(d.kept[j])
                                 \/ \E j \in I : e = ExceptionEntry(d, d.raised[j])
  <2>1. \A e : e \in Range(es) <=> \E j \in DOMAIN es : e = es[j]
      BY DEF Range
  <2>2. ASSUME NEW j \in DOMAIN es
        PROVE  \/ \E k \in DOMAIN d.kept : es[j] = MatchEntry(d.kept[k])
               \/ \E k \in I : es[j] = ExceptionEntry(d, d.raised[k])
    <3>1. CASE j \in 1..n
        BY <1>1, <3>1
    <3>2. CASE j \notin 1..n
      <4>1. j - n \in 1..c /\ j = n + (j - n)
          BY <1>3, <3>2
      <4>2. es[j] = ExceptionEntry(d, d.raised[Nth(I, j - n)]) /\ Nth(I, j - n) \in I
        <5> HIDE DEF I
        <5> QED BY <1>1, <1>2, <4>1
      <4> QED BY <4>2
    <3> QED BY <3>1, <3>2
  <2>3. ASSUME NEW k \in DOMAIN d.kept
        PROVE  \E j \in DOMAIN es : MatchEntry(d.kept[k]) = es[j]
      BY <1>1, <1>4
  <2>4. ASSUME NEW k \in I
        PROVE  \E j \in DOMAIN es : ExceptionEntry(d, d.raised[k]) = es[j]
    <3> HIDE DEF I
    <3>1. n + Rank(I, k) \in DOMAIN es
        BY <1>2, <1>5
    <3>2. es[n + Rank(I, k)] = ExceptionEntry(d, d.raised[k])
        BY <1>1, <1>2
    <3> QED BY <3>1, <3>2
  <2> HIDE DEF I
  <2> QED BY <2>1, <2>2, <2>3, <2>4
<1>9. \A j \in I : j \in DOMAIN d.raised /\ AnchorsAt(d.raised[j]) # {}
    BY DEF Postable
<1>10. ASSUME NEW e \in Range(es)
       PROVE  /\ e.debit = "bank" /\ e.value = Amount[e.about] /\ e.about \in Anchors
              /\ \/ e.about \in MatchedAnchors(d.kept)
                 \/ e.about \in Explained(d.raised)
  <2>1. ASSUME NEW j \in DOMAIN d.kept, e = MatchEntry(d.kept[j])
        PROVE  /\ e.debit = "bank" /\ e.value = Amount[e.about] /\ e.about \in Anchors
               /\ e.about \in MatchedAnchors(d.kept)
    <3>1. d.kept[j].anchor \in Anchors /\ d.kept[j].anchor \in MatchedAnchors(d.kept)
        BY DecisionsAreTyped DEF MatchedAnchors
    <3> QED BY <1>6, <2>1, <3>1
  <2>2. ASSUME NEW j \in I, e = ExceptionEntry(d, d.raised[j])
        PROVE  /\ e.debit = "bank" /\ e.value = Amount[e.about] /\ e.about \in Anchors
               /\ e.about \in Explained(d.raised)
    <3>1. AnchorOf(d.raised[j]) \in Anchors /\ AnchorOf(d.raised[j]) \in Explained(d.raised)
        BY <1>9, AnchorOfIs
    <3> QED BY <1>7, <2>2, <3>1
  <2> HIDE DEF I
  <2> QED BY <1>8, <2>1, <2>2
<1>11. \A v : v \in {e.origin : e \in Range(es)} <=>
                \/ \E i \in DOMAIN d.kept : v = d.kept[i].id
                \/ \E i \in DOMAIN d.raised : Postable(d, d.raised[i]) /\ v = d.raised[i].id
  <2>1. \A v : v \in {e.origin : e \in Range(es)} <=>
                \/ \E i \in DOMAIN d.kept : v = d.kept[i].id
                \/ \E i \in I : v = d.raised[i].id
    <3> HIDE DEF I
    <3>1. ASSUME NEW e \in Range(es)
          PROVE  \/ \E i \in DOMAIN d.kept : e.origin = d.kept[i].id
                 \/ \E i \in I : e.origin = d.raised[i].id
      <4>1. CASE \E i \in DOMAIN d.kept : e = MatchEntry(d.kept[i])
          BY <1>6, <4>1
      <4>2. CASE \E i \in I : e = ExceptionEntry(d, d.raised[i])
          BY <1>7, <4>2
      <4> QED BY <1>8, <4>1, <4>2
    <3>2. ASSUME NEW i \in DOMAIN d.kept PROVE \E e \in Range(es) : d.kept[i].id = e.origin
        BY <1>6, <1>8
    <3>3. ASSUME NEW i \in I PROVE \E e \in Range(es) : d.raised[i].id = e.origin
        BY <1>7, <1>8
    <3> QED BY <3>1, <3>2, <3>3
  <2> QED BY <2>1
<1> QED BY <1>10, <1>11 DEF es

\* The lines of a close that must have reached the bank's account.
Due(d) ==
    (d.read \cap Anchors)
      \ (Range(d.scope)
           \cup (MatchedAnchors(d.refused)
                   \ (MatchedAnchors(d.kept) \cup Explained(d.raised))))

LEMMA BankIsTotal ==
    ASSUME NEW d \in Decisions, Complete(d), NEW j, j.posted = Range(EntriesFor(d))
    PROVE  BankTotal(j) = SumFunction([a \in Due(d) |-> Amount[a]])
<1> DEFINE es == EntriesFor(d)
           D == Range(es)
           f == [e \in D |-> e.value]
           h == [a \in Due(d) |-> Amount[a]]
           b == [e \in D |-> e.about]
<1>1. /\ \A e \in D : /\ e.debit = "bank" /\ e.value = Amount[e.about] /\ e.about \in Anchors
                      /\ \/ e.about \in MatchedAnchors(d.kept)
                         \/ e.about \in Explained(d.raised)
    BY EntriesSay
<1>2. {x \in j.posted : x.debit = "bank"} = D
    BY <1>1
<1>3. BankTotal(j) = SumFunctionOnSet(f, D)
    BY <1>2 DEF BankTotal, SumFunction
<1>4. SumFunction([a \in Due(d) |-> Amount[a]]) = SumFunctionOnSet(h, Due(d))
    BY DEF SumFunction
<1>5. IsFiniteSet(D)
  <2>1. DOMAIN es = 1..Len(es) /\ Len(es) \in Nat
      BY ListMapped
  <2>2. IsFiniteSet(1..Len(es))
      BY <2>1, FS_Interval
  <2> HIDE DEF es
  <2>3. [i \in 1..Len(es) |-> es[i]] \in Surjection(1..Len(es), D)
      BY <2>1 DEF Surjection, Range
  <2> QED BY <2>2, <2>3, FS_Surjection
<1>6. ASSUME NEW e \in D PROVE e.about \in Due(d)
  <2>1. e.about \in InMatches(d.kept) \cup Explained(d.raised)
      BY <1>1 DEF InMatches, MatchedAnchors
  <2>2. e.about \in d.read
      BY <2>1, DecisionsAreTyped
  <2>3. e.about \notin Range(d.scope)
      BY <2>1, DecisionsKeepFatesApart DEF Range
  <2> QED BY <1>1, <2>2, <2>3 DEF Due
<1>7. ASSUME NEW e \in D, NEW o \in D, e.about = o.about PROVE e = o
  <2>1. PICK i \in DOMAIN es : e = es[i]
      BY DEF Range
  <2>2. PICK k \in DOMAIN es : o = es[k]
      BY DEF Range
  <2>3. i = k
      BY <1>7, <2>1, <2>2, EntriesDiffer
  <2> QED BY <2>1, <2>2, <2>3
<1>8. ASSUME NEW a \in Due(d) PROVE \E e \in D : e.about = a
  <2>1. PICK i \in DOMAIN es : es[i].about = a
      BY EntryForEveryLine DEF Due
  <2> QED BY <2>1 DEF Range
<1>9. b \in Bijection(D, Due(d))
  <2> HIDE DEF D
  <2> QED BY <1>6, <1>7, <1>8 DEF Bijection, Injection, Surjection, IsInjective
<1>10. \A e \in D : f[e] \in Int /\ h[b[e]] = f[e]
  <2> HIDE DEF D
  <2> QED BY <1>1, <1>6, DecisionsAreTyped
<1>11. SumFunctionOnSet(f, D) = SumFunctionOnSet(h, Due(d))
  <2> HIDE DEF D, f, h, b
  <2> QED BY <1>5, <1>9, <1>10, SumsAgree
<1> QED BY <1>3, <1>4, <1>11

LEMMA UnpostedAre ==
    ASSUME NEW d \in Decisions
    PROVE  {x.id : x \in RaisedIn(EventsOf(d))} \ {e.origin : e \in Range(EntriesFor(d))}
             = {d.raised[i].id : i \in {k \in DOMAIN d.raised : ~Postable(d, d.raised[k])}}
<1>1. \A v : v \in {x.id : x \in RaisedIn(EventsOf(d))}
                <=> \E i \in DOMAIN d.raised : v = d.raised[i].id
  <2>1. RaisedIn(EventsOf(d)) = {[id |-> d.raised[i].id, value |-> d.raised[i].value,
                                  blocks |-> d.raised[i].blocks] : i \in DOMAIN d.raised}
      BY RecordIs
  <2>2. ASSUME NEW x \in RaisedIn(EventsOf(d))
        PROVE  \E i \in DOMAIN d.raised : x.id = d.raised[i].id
      BY <2>1
  <2>3. ASSUME NEW i \in DOMAIN d.raised
        PROVE  \E x \in RaisedIn(EventsOf(d)) : d.raised[i].id = x.id
    <3> DEFINE x == [id |-> d.raised[i].id, value |-> d.raised[i].value,
                     blocks |-> d.raised[i].blocks]
    <3>1. x \in RaisedIn(EventsOf(d)) /\ x.id = d.raised[i].id
        BY <2>1
    <3> HIDE DEF x
    <3> QED BY <3>1
  <2> QED BY <2>2, <2>3
<1>2. \A v : v \in {e.origin : e \in Range(EntriesFor(d))} <=>
                \/ \E i \in DOMAIN d.kept : v = d.kept[i].id
                \/ \E i \in DOMAIN d.raised : Postable(d, d.raised[i]) /\ v = d.raised[i].id
    BY EntriesSay
<1>3. /\ \A i, k \in DOMAIN d.raised : d.raised[i].id = d.raised[k].id => i = k
      /\ \A i \in DOMAIN d.raised : \A k \in DOMAIN d.kept : d.raised[i].id # d.kept[k].id
    BY DecisionsKeepFatesApart
<1> DEFINE A == {x.id : x \in RaisedIn(EventsOf(d))}
           B == {e.origin : e \in Range(EntriesFor(d))}
<1> HIDE DEF A, B
<1>4. ASSUME NEW v
      PROVE  v \in A \ B
                <=> \E i \in DOMAIN d.raised : ~Postable(d, d.raised[i]) /\ v = d.raised[i].id
  <2>1. ASSUME NEW i \in DOMAIN d.raised, v = d.raised[i].id
        PROVE  v \in B <=> Postable(d, d.raised[i])
      BY <1>2, <1>3, <2>1 DEF B
  <2>2. v \in A <=> \E i \in DOMAIN d.raised : v = d.raised[i].id
      BY <1>1 DEF A
  <2> QED BY <2>1, <2>2
<1>5. A \ B = {d.raised[i].id : i \in {k \in DOMAIN d.raised : ~Postable(d, d.raised[k])}}
  <2> DEFINE C == {d.raised[i].id : i \in {k \in DOMAIN d.raised : ~Postable(d, d.raised[k])}}
  <2>1. \A v : v \in C
                  <=> \E i \in DOMAIN d.raised : ~Postable(d, d.raised[i]) /\ v = d.raised[i].id
      BY Zenon
  <2> HIDE DEF C
  <2>2. A \ B = C
      BY <1>4, <2>1
  <2> QED BY <2>2 DEF C
<1> QED BY <1>5 DEF A, B

LEMMA DisjointUnion ==
    ASSUME NEW S, IsFiniteSet(S), NEW T, IsFiniteSet(T), S \cap T = {}
    PROVE  /\ IsFiniteSet(S \cup T) /\ Cardinality(S \cup T) \in Nat
           /\ Cardinality(S \cup T) = Cardinality(S) + Cardinality(T)
<1>1. IsFiniteSet(S \cup T)
      /\ Cardinality(S \cup T) = Cardinality(S) + Cardinality(T) - Cardinality(S \cap T)
    BY FS_Union
<1>2. Cardinality(S \cap T) = 0
    BY FS_EmptySet
<1>3. Cardinality(S) \in Nat /\ Cardinality(T) \in Nat
    BY FS_CardinalityType
<1> QED BY <1>1, <1>2, <1>3

LEMMA FourParts ==
    ASSUME NEW A, NEW B, NEW C, NEW D, IsFiniteSet(A), IsFiniteSet(B), IsFiniteSet(C),
           IsFiniteSet(D), A \cap B = {}, (A \cup B) \cap C = {}, (A \cup B \cup C) \cap D = {}
    PROVE  /\ Cardinality(A \cup B \cup C \cup D) \in Nat
           /\ Cardinality(A \cup B \cup C \cup D)
                = Cardinality(A) + Cardinality(B) + Cardinality(C) + Cardinality(D)
<1>1. IsFiniteSet(A \cup B) /\ Cardinality(A \cup B) = Cardinality(A) + Cardinality(B)
    BY DisjointUnion
<1>2. /\ IsFiniteSet(A \cup B \cup C)
      /\ Cardinality(A \cup B \cup C) = Cardinality(A \cup B) + Cardinality(C)
    BY <1>1, DisjointUnion
<1>3. /\ Cardinality(A \cup B \cup C \cup D) \in Nat
      /\ Cardinality(A \cup B \cup C \cup D) = Cardinality(A \cup B \cup C) + Cardinality(D)
    BY <1>2, DisjointUnion
<1> QED BY <1>1, <1>2, <1>3

LEMMA DecidedAre ==
    ASSUME NEW d \in Decisions
    PROVE  Len(Decided(EventsOf(d)))
             = Len(d.kept) + Len(d.refused) + Len(d.applied) + Len(d.inadmissible)
<1> DEFINE s == EventsOf(d)
           I == {i \in DOMAIN s : s[i].kind \in {"MatchProven", "MatchRejected",
                                                "RuleApplied", "ProposalRefused"}}
           A == OfKind(s, "MatchProven")
           B == OfKind(s, "MatchRejected")
           C == OfKind(s, "RuleApplied")
           D == OfKind(s, "ProposalRefused")
<1>1. DOMAIN s = 1..Len(s) /\ Len(s) \in Nat
    BY EventsAreSorted DEF Listed
<1>2. \A k \in DOMAIN Parts(d) : Cardinality(OfKind(s, k)) = Len(Parts(d)[k])
    BY SortedEvents DEF IsAll
<1>3. /\ Len(d.kept) \in Nat /\ Len(d.refused) \in Nat /\ Len(d.applied) \in Nat
      /\ Len(d.inadmissible) \in Nat /\ DOMAIN d.kept = 1..Len(d.kept)
      /\ DOMAIN d.refused = 1..Len(d.refused) /\ DOMAIN d.applied = 1..Len(d.applied)
      /\ DOMAIN d.inadmissible = 1..Len(d.inadmissible)
    BY DecisionsAreTyped DEF Listed
<1>4. {"MatchProven", "MatchRejected", "RuleApplied", "ProposalRefused"} \subseteq DOMAIN Parts(d)
    BY DEF Parts
<1>5. Cardinality(A) = Len(d.kept)
  <2> DEFINE m == [i \in DOMAIN d.kept |-> MatchProven(d.kept[i])]
  <2>1. Parts(d)["MatchProven"] = m /\ m = [i \in 1..Len(d.kept) |-> m[i]]
      BY <1>3 DEF Parts
  <2> HIDE DEF m, s
  <2> QED BY <1>2, <1>3, <1>4, <2>1, ListOf
<1>6. Cardinality(B) = Len(d.refused)
  <2> DEFINE m == [i \in DOMAIN d.refused |-> MatchRejected(d.refused[i])]
  <2>1. Parts(d)["MatchRejected"] = m /\ m = [i \in 1..Len(d.refused) |-> m[i]]
      BY <1>3 DEF Parts
  <2> HIDE DEF m, s
  <2> QED BY <1>2, <1>3, <1>4, <2>1, ListOf
<1>7. Cardinality(C) = Len(d.applied)
  <2> DEFINE m == [i \in DOMAIN d.applied |-> RuleApplied(d.applied[i])]
  <2>1. Parts(d)["RuleApplied"] = m /\ m = [i \in 1..Len(d.applied) |-> m[i]]
      BY <1>3 DEF Parts
  <2> HIDE DEF m, s
  <2> QED BY <1>2, <1>3, <1>4, <2>1, ListOf
<1>8. Cardinality(D) = Len(d.inadmissible)
  <2> DEFINE m == [i \in DOMAIN d.inadmissible |-> ProposalRefused(d.inadmissible[i])]
  <2>1. Parts(d)["ProposalRefused"] = m /\ m = [i \in 1..Len(d.inadmissible) |-> m[i]]
      BY <1>3 DEF Parts
  <2> HIDE DEF m, s
  <2> QED BY <1>2, <1>3, <1>4, <2>1, ListOf
<1> HIDE DEF s
<1>9. /\ IsFiniteSet(A) /\ IsFiniteSet(B) /\ IsFiniteSet(C) /\ IsFiniteSet(D)
  <2>1. IsFiniteSet(1..Len(s))
      BY <1>1, FS_Interval
  <2>2. A \in SUBSET (1..Len(s)) /\ B \in SUBSET (1..Len(s))
        /\ C \in SUBSET (1..Len(s)) /\ D \in SUBSET (1..Len(s))
      BY <1>1 DEF OfKind
  <2> HIDE DEF A, B, C, D
  <2> QED BY <2>1, <2>2, FS_Subset
<1>10. A \cap B = {} /\ (A \cup B) \cap C = {} /\ (A \cup B \cup C) \cap D = {}
    BY DEF OfKind
<1>11. I = A \cup B \cup C \cup D
    BY DEF OfKind
<1> HIDE DEF A, B, C, D, I
<1>12. /\ Cardinality(I) \in Nat
       /\ Cardinality(I) = Cardinality(A) + Cardinality(B) + Cardinality(C) + Cardinality(D)
    BY <1>9, <1>10, <1>11, FourParts
<1> DEFINE v == Decided(s)
<1>13. v = [n \in 1..Cardinality(I) |-> v[n]]
    BY DEF Decided, ItemsAt, I
<1> HIDE DEF v
<1>14. Len(v) = Cardinality(I)
    BY <1>12, <1>13, ListOf
<1> QED BY <1>5, <1>6, <1>7, <1>8, <1>12, <1>14 DEF v, s

\* What a page showed is so.
ItemHolds ==
    \A e \in page.enabled :
        /\ page.item.id \notin DisposedOf
        /\ e = "write_off" => WithinLimits(page.item)
CloseHolds ==
    page.panel = "offered" => signature = None /\ View(log).blocked = {} /\ BlockersLeft = {}
WorklistHolds == page.says \in {"sign", "done"} => \A x \in RaisedIn(log) : x.id \in DisposedOf
PackHolds ==
    /\ page.journal.posted = {log[i].entry : i \in OfKind(log, "PostingWritten")}
    /\ page.journal.balanced <=> HardBlockers(log) = {}
    /\ page.journal.unposted = {x.id : x \in RaisedIn(log)} \ {e.origin : e \in page.journal.posted}
    /\ page.audit.decisions = Len(Decided(log))
    /\ page.audit.holds <=> ~Disagrees(log)
PageHolds ==
    page # None =>
        /\ page.kind = "item" => ItemHolds
        /\ page.kind = "close" => CloseHolds
        /\ page.kind = "worklist" => WorklistHolds
        /\ page.kind = "pack" => PackHolds

LEMMA LimitsStand ==
    ASSUME log' = log, disposed' = disposed
    PROVE  \A x : WithinLimits(x)' = WithinLimits(x)
<1>1. WrittenOff' = WrittenOff
    BY DEF WrittenOff, MapThenSumSet, MapThenFoldSet
<1> QED BY <1>1 DEF WithinLimits

LEMMA NothingUntaken ==
    ASSUME RInv, RecordNext
    PROVE  DisposedOf \subseteq DisposedOf' /\ Taken \subseteq Taken'
<1>1. RInv'
    BY RecordSteps
<1>2. Listed(disposed) /\ Listed(disposed)'
    BY <1>1 DEF RInv
<1>3. /\ acknowledged \subseteq acknowledged'
      /\ disposed' = disposed \/ \E e : disposed' = Append(disposed, e)
    BY DEF RecordNext, RunClose, WriteNext, WriterDies, Acknowledge, Dispose, SignOff
<1> QED BY <1>2, <1>3, TakenGrows

LEMMA PageShown ==
    ASSUME \/ \E x \in RaisedIn(log) : OpenItem(x)
           \/ OpenClose \/ OpenWorklist \/ OpenPack
    PROVE  PageHolds'
<1>1. UNCHANGED <<log, disposed, acknowledged, signature>>
    BY DEF OpenItem, OpenClose, OpenWorklist, OpenPack, Show, Unmoved
<1>2. ASSUME NEW x \in RaisedIn(log), OpenItem(x) PROVE PageHolds'
  <2>1. page' = ItemPage(x)
      BY <1>2 DEF OpenItem, Show
  <2>2. page'.kind = "item" /\ page'.item = x /\ page'.enabled = Enabled(x)
      BY <2>1 DEF ItemPage
  <2>3. \A e \in Enabled(x) : x.id \notin DisposedOf /\ (e = "write_off" => WithinLimits(x))
      BY DEF Enabled
  <2>4. ItemHolds'
    <3>1. WithinLimits(x)' = WithinLimits(x)
        BY <1>1, LimitsStand
    <3>2. DisposedOf' = DisposedOf
        BY <1>1 DEF DisposedOf
    <3> QED BY <2>2, <2>3, <3>1, <3>2 DEF ItemHolds
  <2> QED BY <2>2, <2>4 DEF PageHolds
<1>3. ASSUME OpenClose PROVE PageHolds'
  <2>1. page' = ClosePage
      BY <1>3 DEF OpenClose, Show
  <2>2. page'.kind = "close" /\ page'.panel = SignOffPanel
      BY <2>1 DEF ClosePage
  <2>3. SignOffPanel = "offered" => signature = None /\ View(log).blocked = {} /\ BlockersLeft = {}
      BY DEF SignOffPanel
  <2>4. CloseHolds'
      BY <1>1, <2>2, <2>3 DEF CloseHolds, BlockersLeft, Taken, DisposedOf
  <2> QED BY <2>2, <2>4 DEF PageHolds
<1>4. ASSUME OpenWorklist PROVE PageHolds'
  <2>1. page' = WorklistPage
      BY <1>4 DEF OpenWorklist, Show
  <2>2. page'.kind = "worklist" /\ page'.says = Greeting
      BY <2>1 DEF WorklistPage
  <2>3. Greeting \in {"sign", "done"} => \A x \in RaisedIn(log) : x.id \in DisposedOf
      BY DEF Greeting, OpenItems
  <2>4. WorklistHolds'
      BY <1>1, <2>2, <2>3 DEF WorklistHolds, DisposedOf
  <2> QED BY <2>2, <2>4 DEF PageHolds
<1>5. ASSUME OpenPack PROVE PageHolds'
  <2>1. page' = ClosePack
      BY <1>5 DEF OpenPack, Show
  <2>2. page'.kind = "pack" /\ page'.journal = Journal /\ page'.audit = Audit
      BY <2>1 DEF ClosePack
  <2>3. /\ Journal.posted = {log[i].entry : i \in OfKind(log, "PostingWritten")}
        /\ Journal.unposted = {x.id : x \in RaisedIn(log)} \ {e.origin : e \in Journal.posted}
        /\ Audit.decisions = Len(Decided(log))
      BY DEF Journal, Audit
  <2>4. /\ Journal.balanced <=> HardBlockers(log) = {}
        /\ Audit.holds <=> ~Disagrees(log)
      BY Zenon DEF Journal, Audit
  <2>5. PackHolds'
      BY <1>1, <2>2, <2>3, <2>4 DEF PackHolds
  <2> QED BY <2>2, <2>5 DEF PageHolds
<1> QED BY <1>2, <1>3, <1>4, <1>5

LEMMA PageStays ==
    ASSUME RInv, PageHolds, RecordNext, page # None, Stands, page' = page
    PROVE  PageHolds'
<1>1. log' = log /\ signature' = signature
    BY DEF Stands
<1>2. DisposedOf \subseteq DisposedOf' /\ Taken \subseteq Taken'
    BY NothingUntaken
<1>3. ASSUME page.kind = "item" PROVE ItemHolds'
  <2>1. WrittenOff' = WrittenOff /\ page.item.id \notin DisposedOf' \ DisposedOf
      BY <1>3 DEF Stands
  <2>2. ItemHolds
      BY <1>3 DEF PageHolds
  <2> QED BY <1>1, <2>1, <2>2 DEF ItemHolds, WithinLimits
<1>4. ASSUME page.kind = "close" PROVE CloseHolds'
  <2>1. CloseHolds
      BY <1>4 DEF PageHolds
  <2> QED BY <1>1, <1>2, <2>1 DEF CloseHolds, BlockersLeft
<1>5. ASSUME page.kind = "worklist" PROVE WorklistHolds'
  <2>1. WorklistHolds
      BY <1>5 DEF PageHolds
  <2> QED BY <1>1, <1>2, <2>1 DEF WorklistHolds
<1>6. ASSUME page.kind = "pack" PROVE PackHolds'
  <2>1. PackHolds
      BY <1>6 DEF PageHolds
  <2> QED BY <1>1, <2>1 DEF PackHolds
<1> QED BY <1>3, <1>4, <1>5, <1>6 DEF PageHolds

LEMMA PageSteps == RInv /\ PageHolds /\ [DeskNext]_deskVars => PageHolds'
<1> SUFFICES ASSUME RInv, PageHolds, [DeskNext]_deskVars PROVE PageHolds'
    OBVIOUS
<1>1. ASSUME page' = None PROVE PageHolds'
    BY <1>1 DEF PageHolds
<1>2. ASSUME UNCHANGED <<log, disposed, acknowledged, signature, page>> PROVE PageHolds'
  <2>1. WithinLimits(page.item)' = WithinLimits(page.item)
      BY <1>2, LimitsStand
  <2>2. DisposedOf' = DisposedOf /\ BlockersLeft' = BlockersLeft
      BY <1>2 DEF DisposedOf, BlockersLeft, Taken
  <2> QED BY <1>2, <2>1, <2>2
          DEF PageHolds, ItemHolds, CloseHolds, WorklistHolds, PackHolds
<1>3. CASE UNCHANGED deskVars
    BY <1>2, <1>3 DEF deskVars
<1>4. CASE Elsewhere
  <2>1. CASE page # None /\ Stands
      BY <1>4, <2>1, PageStays DEF Elsewhere
  <2>2. CASE ~(page # None /\ Stands)
      BY <1>1, <1>4, <2>2 DEF Elsewhere
  <2> QED BY <2>1, <2>2
<1>5. CASE \E what \in {"events", "decisions"}, limit \in Limits : ReadPage(what, limit)
    BY <1>2, <1>5 DEF ReadPage, Unmoved
<1>6. CASE PressTake \/ (\E e \in Endings : PressDispose(e)) \/ PressSignOff
    BY <1>1, <1>6 DEF PressTake, PressDispose, PressSignOff
<1> QED BY <1>3, <1>4, <1>5, <1>6, PageShown DEF DeskNext

\* What a screen offers, the functions behind it allow, and what it says of a whole
\* record is so: the item page, the sign-off panel, the worklist and the evidence
\* pack, whose bank entries sum to the lines in scope (ui.py, service.py).
THEOREM PagesKeepTheirWord == DeskSpec => []PageKeepsItsWord
<1>1. DeskInit => PageHolds
    BY DEF DeskInit, PageHolds
<1>2. DeskSpec => []RInv
    BY DeskKeepsTheRecord, RecordInvariant, PTL
<1>3. DeskSpec => []PageHolds
    BY <1>1, <1>2, PageSteps, PTL DEF DeskSpec
<1>4. RInv /\ PageHolds => PageKeepsItsWord
  <2> SUFFICES ASSUME RInv, PageHolds, page # None
               PROVE  PageKeepsItsWord
      BY DEF PageKeepsItsWord
  <2>1. ASSUME page.kind = "item", page.item.value > 0, NEW e \in page.enabled \ {"book"}
        PROVE  MayDispose(page.item, e)
    <3>1. ItemHolds
        BY <2>1 DEF PageHolds
    <3> QED BY <2>1, <3>1 DEF ItemHolds, MayDispose
  <2>2. ASSUME page.kind = "close", page.panel = "offered"
        PROVE  signature = None /\ View(log).blocked = {} /\ BlockersLeft = {}
      BY <2>2 DEF PageHolds, CloseHolds
  <2>3. ASSUME page.kind = "worklist", page.says \in {"sign", "done"}, Terminated(log),
               NEW i \in DOMAIN close.raised
        PROVE  close.raised[i].id \in DisposedOf
    <3> DEFINE x == [id |-> close.raised[i].id, value |-> close.raised[i].value,
                     blocks |-> close.raised[i].blocks]
    <3>1. close \in Decisions /\ log = EventsOf(close)
        BY <2>3, TerminatedIsWhole
    <3>2. x \in RaisedIn(log) /\ x.id = close.raised[i].id
        BY <3>1, RecordIs
    <3> HIDE DEF x
    <3> QED BY <2>3, <3>2 DEF PageHolds, WorklistHolds
  <2>4. ASSUME page.kind = "pack", page.audit.holds PROVE Terminated(log)
      BY <2>4 DEF PageHolds, PackHolds, Disagrees
  <2>5. ASSUME page.kind = "pack", Terminated(log)
        PROVE  /\ page.journal.balanced <=> BlockedReasons(close) = {}
               /\ CompleteIn(log) =>
                    BankTotal(page.journal) = SumFunction([a \in InScope |-> Amount[a]])
               /\ page.journal.unposted =
                    {close.raised[i].id : i \in {k \in DOMAIN close.raised :
                                                   ~Postable(close, close.raised[k])}}
               /\ page.audit.decisions = Len(close.kept) + Len(close.refused)
                                           + Len(close.applied) + Len(close.inadmissible)
    <3>1. close \in Decisions /\ log = EventsOf(close)
        BY <2>5, TerminatedIsWhole
    <3>2. PackHolds
        BY <2>5 DEF PageHolds
    <3>3. page.journal.posted = Range(EntriesFor(close))
        BY <3>1, <3>2, RecordIs DEF PackHolds
    <3>4. page.journal.balanced <=> BlockedReasons(close) = {}
        BY <3>1, <3>2, BlockersAre DEF PackHolds
    <3>5. CompleteIn(log) => BankTotal(page.journal) = SumFunction([a \in InScope |-> Amount[a]])
      <4>1. InScope = Due(close)
          BY DEF InScope, Due
      <4>2. CompleteIn(log) => Complete(close)
          BY <3>1, TerminatorIs
      <4> QED BY <3>1, <3>3, <4>1, <4>2, BankIsTotal
    <3>6. page.journal.unposted =
            {close.raised[i].id : i \in {k \in DOMAIN close.raised :
                                           ~Postable(close, close.raised[k])}}
        BY <3>1, <3>2, <3>3, UnpostedAre DEF PackHolds
    <3>7. page.audit.decisions = Len(close.kept) + Len(close.refused)
                                   + Len(close.applied) + Len(close.inadmissible)
        BY <3>1, <3>2, DecidedAre DEF PackHolds
    <3> QED BY <3>4, <3>5, <3>6, <3>7
  <2> QED BY <2>1, <2>2, <2>3, <2>4, <2>5 DEF PageKeepsItsWord
<1> QED BY <1>2, <1>3, <1>4, PTL
=============================================================================
