----------------------------- MODULE PeriodProofs -----------------------------
(***************************************************************************)
(* For any number of files, uploads and closes: a run id stands for one    *)
(* set of rows, and a re-verification that holds is of the rows that were  *)
(* closed, as long as no file changed between the two reads of it.  And    *)
(* the job page never shows more than the close did.                       *)
(*                                                                         *)
(* Neither is inductive: both speak of what was sealed, not of what a      *)
(* thread holds while it reads.  Alike does: whoever has not been          *)
(* disturbed holds of every file the bytes that it has digested, or has    *)
(* read its rows and not yet its digest, and the file is still the same.   *)
(***************************************************************************)
EXTENDS Period, TLAPS

Locations == {"off", "over", "start", "rows", "digest", "loaded", "open", "sealed"}
RecordType ==
    [id : [Names -> Bytes], state : {"open", "half", "sealed"}, digests : [Names -> Bytes],
     rows : [Names -> Bytes], calm : BOOLEAN]

Typed ==
    /\ files \in [Names -> Bytes]
    /\ pc \in [Threads -> Locations]
    /\ at \in [Threads -> Nat]
    /\ rows \in [Threads -> [Names -> Bytes]]
    /\ digests \in [Threads -> [Names -> Bytes]]
    /\ records \subseteq RecordType /\ sealed \subseteq RecordType
    /\ verdict \in [of : SUBSET RecordType, holds : BOOLEAN]
    /\ \A t \in Threads : pc[t] \in {"rows", "digest"} => at[t] \in 1..Len(Sources)

\* What t has read of a file is what it has digested; of the one that it is about to
\* digest, what the file still holds.
Pending(t, s) == pc[t] = "digest" /\ Sources[at[t]] = s
Alike(t) ==
    \A s \in Names :
        /\ Pending(t, s) => rows[t][s] = files[s]
        /\ ~Pending(t, s) => rows[t][s] = digests[t][s]
AllAlike == \A t \in Threads : t \in disturbed \/ Alike(t)

\* A thread that does not run holds nothing.
Empty == \A j \in Jobs : pc[j] \in {"off", "over"} => rows[j] = digests[j]

\* A record's id is its digests; a calm one's digests are of its rows.
True(r) == r.id = r.digests /\ (r.calm => r.rows = r.digests)
AllTrue == \A r \in records \cup sealed \cup verdict.of : True(r)

\* A verdict that holds compared the digests the auditor still has.
Compared ==
    verdict.holds => pc[Auditor] = "over" /\ \A r \in verdict.of : r.digests = digests[Auditor]

IInv == Typed /\ AllAlike /\ Empty /\ AllTrue /\ Compared
-----------------------------------------------------------------------------
LEMMA SourceFacts ==
    /\ Len(Sources) \in Nat \ {0}
    /\ \A i \in 1..Len(Sources) : Sources[i] \in Names
    /\ Nothing \in Bytes
    /\ Sample \in Writers /\ Uploads \subseteq Writers /\ Nobody \notin Writers
    /\ Auditor \in Threads /\ Jobs \subseteq Threads /\ Auditor \notin Jobs
BY PeriodAssumption DEF Names, Writers, Bytes, Nothing, Threads

LEMMA Begins == Init => IInv
<1> SUFFICES ASSUME Init PROVE IInv
    OBVIOUS
<1> USE SourceFacts
<1>1. Typed
    BY DEF Init, Typed, Locations, RecordType
<1>2. AllAlike /\ Empty /\ AllTrue /\ Compared
    BY DEF Init, AllAlike, Alike, Pending, Empty, AllTrue, Compared
<1> QED BY <1>1, <1>2 DEF IInv

\* A file changes: whoever has read its rows and not its digest is disturbed.
LEMMA FileChanges ==
    ASSUME IInv, NEW s \in Names, NEW bytes \in Bytes, Put(s, bytes),
           UNCHANGED <<pc, at, rows, digests, closing, verdict>>
    PROVE  IInv'
<1> USE SourceFacts DEF IInv, Put
<1>1. Typed'
    BY DEF Typed, closing
<1>2. AllAlike'
  <2> SUFFICES ASSUME NEW t \in Threads, t \notin disturbed', NEW x \in Names
               PROVE  /\ Pending(t, x) => rows[t][x] = files'[x]
                      /\ ~Pending(t, x) => rows[t][x] = digests[t][x]
      BY DEF AllAlike, Alike, Pending
  <2>1. /\ Pending(t, x) => rows[t][x] = files[x]
        /\ ~Pending(t, x) => rows[t][x] = digests[t][x]
      BY DEF AllAlike, Alike, Pending
  <2>2. t \notin Between(s)
      OBVIOUS
  <2> QED BY <2>1, <2>2 DEF Between, Typed, Pending
<1>3. Empty' /\ AllTrue' /\ Compared'
    BY DEF Empty, AllTrue, True, Compared, closing
<1> QED BY <1>1, <1>2, <1>3

\* Nothing that the invariant speaks of changes.
LEMMA Elsewhere ==
    ASSUME IInv, UNCHANGED <<files, pc, reading, records, sealed, verdict>>
    PROVE  IInv'
BY DEF IInv, Typed, AllAlike, Alike, Pending, Empty, AllTrue, True, Compared, reading
-----------------------------------------------------------------------------
(* A thread reads its files.                                                 *)

LEMMA Reads ==
    ASSUME IInv, NEW t \in Threads, ReadRows(t)
    PROVE  IInv'
<1> DEFINE src == Sources[at[t]]
<1> USE SourceFacts
<1>1. /\ pc[t] = "rows" /\ src \in Names /\ files[src] \in Bytes
      /\ rows' = [rows EXCEPT ![t] = [rows[t] EXCEPT ![src] = files[src]]]
      /\ pc' = [pc EXCEPT ![t] = "digest"]
      /\ UNCHANGED <<files, at, digests, closing, verdict>>
      /\ disturbed \subseteq disturbed'
    BY DEF IInv, Typed, ReadRows, Goto, directory
<1>2. Typed'
    BY <1>1 DEF IInv, Typed, Locations, closing
<1>3. AllAlike'
  <2> SUFFICES ASSUME NEW u \in Threads, u \notin disturbed' PROVE Alike(u)'
      BY DEF AllAlike
  <2>1. u \notin disturbed
      BY <1>1
  <2>2. CASE u = t
    <3>1. \A x \in Names : rows[t][x] = digests[t][x]
        BY <1>1, <2>1, <2>2 DEF IInv, AllAlike, Alike, Pending
    <3>2. pc'[t] = "digest" /\ at'[t] = at[t] /\ rows'[t] = [rows[t] EXCEPT ![src] = files[src]]
        BY <1>1 DEF IInv, Typed
    <3> QED BY <1>1, <2>2, <3>1, <3>2 DEF IInv, Typed, Alike, Pending
  <2>3. CASE u # t
      BY <1>1, <2>1, <2>3 DEF IInv, Typed, AllAlike, Alike, Pending
  <2> QED BY <2>2, <2>3
<1>4. Empty' /\ AllTrue' /\ Compared'
    BY <1>1 DEF IInv, Typed, Empty, AllTrue, True, Compared, closing
<1> QED BY <1>2, <1>3, <1>4 DEF IInv

\* The step to the next file keeps within them.
LEMMA Turns ==
    ASSUME IInv, NEW t \in Threads, pc[t] \in {"rows", "digest"}, NextSource(t)
    PROVE  /\ pc' \in [Threads -> Locations] /\ at' \in [Threads -> Nat]
           /\ pc'[t] \in {"rows", "loaded"}
           /\ pc'[t] = "rows" => at'[t] \in 1..Len(Sources)
           /\ \A u \in Threads \ {t} : pc'[u] = pc[u] /\ at'[u] = at[u]
<1> USE SourceFacts DEF IInv, Typed
<1>1. CASE at[t] = Len(Sources)
    BY <1>1 DEF NextSource, Goto, Locations
<1>2. CASE at[t] # Len(Sources)
  <2>1. pc' = [pc EXCEPT ![t] = "rows"] /\ at' = [at EXCEPT ![t] = @ + 1]
      BY <1>2 DEF NextSource, Goto
  <2>2. at[t] \in 1..Len(Sources)
      OBVIOUS
  <2>3. at[t] + 1 \in 1..Len(Sources)
      BY <1>2, <2>2
  <2> QED BY <2>1, <2>3 DEF Locations
<1> QED BY <1>1, <1>2

LEMMA CannotReads ==
    ASSUME IInv, NEW t \in Threads, CannotRead(t)
    PROVE  IInv'
<1>1. /\ pc[t] = "rows" /\ NextSource(t)
      /\ UNCHANGED <<files, rows, digests, closing, verdict>>
      /\ disturbed \subseteq disturbed'
    BY DEF CannotRead, directory
<1>2. /\ pc' \in [Threads -> Locations] /\ at' \in [Threads -> Nat]
      /\ pc'[t] \in {"rows", "loaded"}
      /\ pc'[t] = "rows" => at'[t] \in 1..Len(Sources)
      /\ \A u \in Threads \ {t} : pc'[u] = pc[u] /\ at'[u] = at[u]
    BY <1>1, Turns
<1>3. Typed'
    BY <1>1, <1>2 DEF IInv, Typed, closing
<1>4. AllAlike'
    BY <1>1, <1>2 DEF IInv, AllAlike, Alike, Pending
<1>5. Empty' /\ AllTrue' /\ Compared'
    BY <1>1, <1>2, SourceFacts DEF IInv, Typed, Empty, AllTrue, True, Compared, closing
<1> QED BY <1>3, <1>4, <1>5 DEF IInv

LEMMA Digests ==
    ASSUME IInv, NEW t \in Threads, ReadDigest(t)
    PROVE  IInv'
<1> DEFINE src == Sources[at[t]]
<1> USE SourceFacts
<1>1. /\ pc[t] = "digest" /\ src \in Names /\ files[src] \in Bytes /\ NextSource(t)
      /\ digests' = [digests EXCEPT ![t] = [digests[t] EXCEPT ![src] = files[src]]]
      /\ UNCHANGED <<files, rows, closing, verdict>>
      /\ disturbed \subseteq disturbed'
    BY DEF IInv, Typed, ReadDigest, directory
<1>2. /\ pc' \in [Threads -> Locations] /\ at' \in [Threads -> Nat]
      /\ pc'[t] \in {"rows", "loaded"}
      /\ pc'[t] = "rows" => at'[t] \in 1..Len(Sources)
      /\ \A u \in Threads \ {t} : pc'[u] = pc[u] /\ at'[u] = at[u]
    BY <1>1, Turns
<1>3. Typed'
    BY <1>1, <1>2 DEF IInv, Typed, closing
<1>4. AllAlike'
  <2> SUFFICES ASSUME NEW u \in Threads, u \notin disturbed' PROVE Alike(u)'
      BY DEF AllAlike
  <2>1. u \notin disturbed
      BY <1>1
  <2>2. CASE u = t
    <3>1. \A x \in Names \ {src} : rows[t][x] = digests[t][x]
        BY <1>1, <2>1, <2>2 DEF IInv, AllAlike, Alike, Pending
    <3>2. rows[t][src] = files[src]
        BY <1>1, <2>1, <2>2 DEF IInv, AllAlike, Alike, Pending
    <3> QED BY <1>1, <1>2, <2>2, <3>1, <3>2 DEF IInv, Typed, Alike, Pending
  <2>3. CASE u # t
      BY <1>1, <1>2, <2>1, <2>3 DEF IInv, Typed, AllAlike, Alike, Pending
  <2> QED BY <2>2, <2>3
<1>5. Empty' /\ AllTrue' /\ Compared'
    BY <1>1, <1>2 DEF IInv, Typed, Empty, AllTrue, True, Compared, closing
<1> QED BY <1>3, <1>4, <1>5 DEF IInv
-----------------------------------------------------------------------------
(* A close.                                                                  *)

\* The threads' reading stays, and t is somewhere it does not read.
LEMMA Moves ==
    ASSUME IInv, NEW t \in Threads, NEW l \in Locations \ {"rows", "digest"},
           pc[t] # "digest", Goto(t, l), UNCHANGED <<files, at, rows, digests, disturbed>>
    PROVE  /\ AllAlike'
           /\ pc' \in [Threads -> Locations]
           /\ \A u \in Threads : pc'[u] \in {"rows", "digest"} => at'[u] \in 1..Len(Sources)
<1>1. pc' = [pc EXCEPT ![t] = l] /\ l \notin {"rows", "digest"}
    BY DEF Goto
<1>2. AllAlike'
    BY <1>1 DEF IInv, Typed, AllAlike, Alike, Pending
<1> QED BY <1>1, <1>2 DEF IInv, Typed

LEMMA Starts ==
    ASSUME IInv, NEW j \in Jobs, DoClose(j)
    PROVE  IInv'
<1> USE SourceFacts
<1>1. /\ pc[j] \in {"off", "over"} /\ pc' = [pc EXCEPT ![j] = "start"]
      /\ disturbed' = disturbed \ {j}
      /\ UNCHANGED <<files, at, rows, digests, records, sealed, verdict>>
    BY DEF DoClose, Goto, directory
<1>2. rows[j] = digests[j]
    BY <1>1 DEF IInv, Empty
<1>3. Typed'
    BY <1>1 DEF IInv, Typed, Locations
<1>4. AllAlike'
    BY <1>1, <1>2 DEF IInv, Typed, AllAlike, Alike, Pending
<1>5. Empty' /\ AllTrue' /\ Compared'
    BY <1>1 DEF IInv, Typed, Empty, AllTrue, True, Compared
<1> QED BY <1>3, <1>4, <1>5 DEF IInv

LEMMA Enters ==
    ASSUME IInv, NEW j \in Jobs, BeginRun(j)
    PROVE  IInv'
<1> USE SourceFacts
<1>1. /\ pc[j] = "start" /\ pc' = [pc EXCEPT ![j] = "rows"] /\ at' = [at EXCEPT ![j] = 1]
      /\ UNCHANGED <<files, rows, digests, disturbed, records, sealed, verdict>>
    BY DEF BeginRun, Goto, directory
<1>2. Typed'
    BY <1>1 DEF IInv, Typed, Locations
<1>3. AllAlike'
    BY <1>1 DEF IInv, Typed, AllAlike, Alike, Pending
<1>4. Empty' /\ AllTrue' /\ Compared'
    BY <1>1 DEF IInv, Typed, Empty, AllTrue, True, Compared
<1> QED BY <1>2, <1>3, <1>4 DEF IInv

\* A thread that does not await a digest holds what it has digested.
LEMMA Settled ==
    ASSUME IInv, NEW t \in Threads, t \notin disturbed, pc[t] # "digest"
    PROVE  rows[t] = digests[t]
<1>1. \A s \in Names : rows[t][s] = digests[t][s]
    BY DEF IInv, AllAlike, Alike, Pending
<1>2. rows[t] \in [Names -> Bytes] /\ digests[t] \in [Names -> Bytes]
    BY DEF IInv, Typed
<1> QED BY <1>1, <1>2

LEMMA RecordIsTrue ==
    ASSUME IInv, NEW j \in Jobs, pc[j] # "digest", NEW state \in {"open", "half", "sealed"}
    PROVE  Record(j, state) \in RecordType /\ True(Record(j, state))
<1>1. Record(j, state) \in RecordType
    BY SourceFacts DEF IInv, Typed, Record, RecordType, RunId
<1>2. True(Record(j, state))
    BY Settled, SourceFacts DEF Record, True, RunId
<1> QED BY <1>1, <1>2

LEMMA Opens ==
    ASSUME IInv, NEW j \in Jobs, OpenRecord(j)
    PROVE  IInv'
<1> USE SourceFacts
<1>1. /\ pc[j] = "loaded" /\ Goto(j, "open")
      /\ records' = Others(j) \cup {Record(j, "open")}
      /\ UNCHANGED <<files, at, rows, digests, disturbed, sealed, verdict>>
    BY DEF OpenRecord, directory, reading
<1>2. Record(j, "open") \in RecordType /\ True(Record(j, "open"))
    BY <1>1, RecordIsTrue
<1>3. /\ AllAlike' /\ pc' \in [Threads -> Locations]
      /\ \A u \in Threads : pc'[u] \in {"rows", "digest"} => at'[u] \in 1..Len(Sources)
    BY <1>1, Moves DEF Locations
<1>4. Typed'
    BY <1>1, <1>2, <1>3 DEF IInv, Typed, Others
<1>5. Empty' /\ AllTrue' /\ Compared'
    BY <1>1, <1>2 DEF IInv, Typed, Goto, Empty, AllTrue, True, Compared, Others
<1> QED BY <1>3, <1>4, <1>5 DEF IInv

LEMMA Seals ==
    ASSUME IInv, NEW j \in Jobs, SealRecord(j)
    PROVE  IInv'
<1> USE SourceFacts
<1>1. /\ pc[j] = "open" /\ Goto(j, "sealed")
      /\ records' = Others(j) \cup {Record(j, "sealed")}
      /\ sealed' = sealed \cup {Record(j, "sealed")}
      /\ UNCHANGED <<files, at, rows, digests, disturbed, verdict>>
    BY DEF SealRecord, directory, reading
<1>2. Record(j, "sealed") \in RecordType /\ True(Record(j, "sealed"))
    BY <1>1, RecordIsTrue
<1>3. /\ AllAlike' /\ pc' \in [Threads -> Locations]
      /\ \A u \in Threads : pc'[u] \in {"rows", "digest"} => at'[u] \in 1..Len(Sources)
    BY <1>1, Moves DEF Locations
<1>4. Typed'
    BY <1>1, <1>2, <1>3 DEF IInv, Typed, Others
<1>5. Empty' /\ AllTrue' /\ Compared'
    BY <1>1, <1>2 DEF IInv, Typed, Goto, Empty, AllTrue, True, Compared, Others
<1> QED BY <1>3, <1>4, <1>5 DEF IInv

\* A thread ends, finished or failed.
LEMMA Ends ==
    ASSUME IInv, NEW j \in Jobs, EndThread(j), pc[j] # "digest",
           records' \subseteq RecordType, \A r \in records' : True(r),
           UNCHANGED <<files, sealed, verdict>>
    PROVE  IInv'
<1> DEFINE Blank == [s \in Names |-> Nothing]
<1> USE SourceFacts
<1>1. /\ pc' = [pc EXCEPT ![j] = "over"] /\ at' = [at EXCEPT ![j] = 0]
      /\ rows' = [rows EXCEPT ![j] = Blank] /\ digests' = [digests EXCEPT ![j] = Blank]
      /\ UNCHANGED disturbed
    BY DEF EndThread, Goto
<1>2. Blank \in [Names -> Bytes]
    OBVIOUS
<1> HIDE DEF Blank
<1>3. Typed'
    BY <1>1, <1>2 DEF IInv, Typed, Locations
<1>4. AllAlike'
  <2> SUFFICES ASSUME NEW u \in Threads, u \notin disturbed' PROVE Alike(u)'
      BY DEF AllAlike
  <2>1. CASE u = j
      BY <1>1, <2>1 DEF IInv, Typed, Alike, Pending
  <2>2. CASE u # j
      BY <1>1, <2>2 DEF IInv, Typed, AllAlike, Alike, Pending
  <2> QED BY <2>1, <2>2
<1>5. Empty'
    BY <1>1 DEF IInv, Typed, Empty
<1>6. AllTrue' /\ Compared'
    BY <1>1 DEF IInv, Typed, AllTrue, True, Compared
<1> QED BY <1>3, <1>4, <1>5, <1>6 DEF IInv

LEMMA Finishes ==
    ASSUME IInv, NEW j \in Jobs, Finish(j)
    PROVE  IInv'
BY Ends DEF Finish, directory, IInv, Typed, AllTrue

LEMMA Fails ==
    ASSUME IInv, NEW j \in Jobs, Fail(j)
    PROVE  IInv'
<1>1. /\ pc[j] # "digest" /\ LeaveRecord(j) /\ EndThread(j)
      /\ UNCHANGED <<files, sealed, verdict>>
    BY DEF Fail, FailAs, directory
<1>2. Record(j, "half") \in RecordType /\ True(Record(j, "half"))
    BY <1>1, RecordIsTrue
<1>3. records' \subseteq RecordType /\ \A r \in records' : True(r)
    BY <1>1, <1>2 DEF LeaveRecord, Others, IInv, Typed, AllTrue
<1> QED BY <1>1, <1>3, Ends

LEMMA FailsToWrite ==
    ASSUME IInv, NEW j \in Jobs, FailEntering(j) \/ FailFinishing(j)
    PROVE  IInv'
BY Ends DEF FailEntering, FailFinishing, FailAs, directory, IInv, Typed, AllTrue
-----------------------------------------------------------------------------
(* The audit, and the death of the process.                                  *)

LEMMA BeginsReverify ==
    ASSUME IInv, NEW r \in records, BeginReverify(r)
    PROVE  IInv'
<1> USE SourceFacts
<1>1. /\ pc[Auditor] = "off" /\ pc' = [pc EXCEPT ![Auditor] = "rows"]
      /\ at' = [at EXCEPT ![Auditor] = 1] /\ verdict' = [of |-> {r}, holds |-> FALSE]
      /\ UNCHANGED <<files, rows, digests, disturbed, records, sealed>>
    BY DEF BeginReverify, Goto, directory, closing
<1>2. Typed'
    BY <1>1 DEF IInv, Typed, Locations
<1>3. AllAlike'
    BY <1>1 DEF IInv, Typed, AllAlike, Alike, Pending
<1>4. Empty' /\ AllTrue' /\ Compared'
    BY <1>1 DEF IInv, Typed, Empty, AllTrue, True, Compared
<1> QED BY <1>2, <1>3, <1>4 DEF IInv

LEMMA EndsReverify ==
    ASSUME IInv, NEW proofsHold \in BOOLEAN, EndReverify(proofsHold)
    PROVE  IInv'
<1> USE SourceFacts
<1>1. PICK r \in verdict.of :
          /\ pc[Auditor] = "loaded" /\ Goto(Auditor, "over")
          /\ verdict' = [of |-> {r}, holds |-> Holds(r, proofsHold)]
          /\ UNCHANGED <<files, at, rows, digests, disturbed, records, sealed>>
    BY DEF EndReverify, directory, reading, closing
<1>2. Holds(r, proofsHold) \in BOOLEAN /\ r \in RecordType
    BY DEF Holds, IInv, Typed
<1>3. /\ AllAlike' /\ pc' \in [Threads -> Locations]
      /\ \A u \in Threads : pc'[u] \in {"rows", "digest"} => at'[u] \in 1..Len(Sources)
    BY <1>1, Moves DEF Locations
<1>4. Typed'
    BY <1>1, <1>2, <1>3 DEF IInv, Typed
<1>5. Empty' /\ AllTrue'
    BY <1>1 DEF IInv, Typed, Goto, Empty, AllTrue, True
<1>6. Compared'
    BY <1>1 DEF IInv, Typed, Goto, Compared, Holds
<1> QED BY <1>3, <1>4, <1>5, <1>6 DEF IInv

LEMMA Dies ==
    ASSUME IInv, Die
    PROVE  IInv'
<1> DEFINE Ended(r) == [r EXCEPT !.state = IF @ = "open" THEN "half" ELSE @]
<1> USE SourceFacts
<1>1. ASSUME NEW r \in RecordType
      PROVE  Ended(r) \in RecordType /\ (True(r) => True(Ended(r)))
  <2>1. PICK st \in {"open", "half", "sealed"} : Ended(r) = [r EXCEPT !.state = st]
      BY DEF RecordType
  <2>2. [r EXCEPT !.state = st] \in RecordType
      BY DEF RecordType
  <2>3. \A q \in {[r EXCEPT !.state = st]} :
            q.id = r.id /\ q.digests = r.digests /\ q.rows = r.rows /\ q.calm = r.calm
      BY DEF RecordType
  <2> QED BY <2>1, <2>2, <2>3 DEF True
<1>2. records' = {Ended(r) : r \in records}
    BY DEF Die
<1> HIDE DEF Ended
<1>3. records' \subseteq RecordType /\ \A r \in records' : True(r)
    BY <1>1, <1>2 DEF IInv, Typed, AllTrue
<1>4. /\ pc' = [t \in Threads |-> IF pc[t] = "off" THEN "off" ELSE "over"]
      /\ at' = [t \in Threads |-> 0]
      /\ rows' = [t \in Threads |-> [s \in Names |-> Nothing]] /\ digests' = rows'
      /\ verdict' = [of |-> {}, holds |-> FALSE]
      /\ files' = [s \in Names |->
           [files[s] EXCEPT !.state = IF @ = "writing" THEN "half" ELSE @]]
      /\ UNCHANGED sealed
    BY DEF Die
<1>5. rows' \in [Threads -> [Names -> Bytes]] /\ digests' \in [Threads -> [Names -> Bytes]]
    BY <1>4
<1>6. pc' \in [Threads -> Locations] /\ \A t \in Threads : pc'[t] \in {"off", "over"}
    BY <1>4 DEF Locations
<1>10. files' \in [Names -> Bytes]
  <2>1. \A s \in Names : files[s] \in Bytes
      BY DEF IInv, Typed
  <2>2. \A b \in Bytes : [b EXCEPT !.state = IF @ = "writing" THEN "half" ELSE @] \in Bytes
      BY DEF Bytes
  <2> QED BY <1>4, <2>1, <2>2
<1>7. Typed'
    BY <1>3, <1>4, <1>5, <1>6, <1>10 DEF IInv, Typed
<1>8. AllAlike' /\ Empty'
    BY <1>4, <1>6 DEF AllAlike, Alike, Pending, Empty
<1>9. AllTrue' /\ Compared'
    BY <1>3, <1>4 DEF IInv, AllTrue, Compared
<1> QED BY <1>7, <1>8, <1>9 DEF IInv
-----------------------------------------------------------------------------
LEMMA CloseSteps ==
    ASSUME IInv, NEW j \in Jobs, DoClose(j) \/ Close(j)
    PROVE  IInv'
<1>1. CASE NextStage(j)
    BY <1>1, Elsewhere DEF NextStage, directory
<1> QED BY <1>1, Starts, Enters, Reads, CannotReads, Digests, Opens, Seals, Finishes, Fails,
           FailsToWrite, SourceFacts DEF Close

\* Whoever writes puts bytes in place of bytes.
LEMMA Opened ==
    ASSUME IInv, NEW w \in Writers, NEW s \in Names, Open(w, s),
           UNCHANGED <<pc, at, rows, digests, closing, verdict>>
    PROVE  IInv'
<1>1. [from |-> w, rest |-> Nobody, state |-> "writing"] \in Bytes
    BY DEF Bytes
<1> QED BY <1>1, FileChanges DEF Open

LEMMA Filled ==
    ASSUME IInv, NEW w \in Writers, NEW s \in Names, NEW state \in {"half", "whole"},
           Fill(w, s, state), UNCHANGED <<pc, at, rows, digests, closing, verdict>>
    PROVE  IInv'
<1>1. PICK rest \in {Nobody, files[s].from},
           st \in {"writing", "half", "whole"} :
          Put(s, [from |-> w, rest |-> rest, state |-> st])
    BY DEF Fill
<1>2. rest \in Writers \cup {Nobody}
    BY DEF IInv, Typed, Bytes
<1>3. [from |-> w, rest |-> rest, state |-> st] \in Bytes
    BY <1>2 DEF Bytes
<1> QED BY <1>1, <1>3, FileChanges

LEMMA UploadSteps ==
    ASSUME IInv, NEW u \in Uploads,
           \/ \E attached \in SUBSET Names : BeginUpload(u, attached)
           \/ \E s \in Names : OpenFile(u, s) \/ FillFile(u, s) \/ BreakFile(u, s)
           \/ EndUpload(u)
    PROVE  IInv'
<1> USE SourceFacts
<1>1. ASSUME NEW s \in Names, OpenFile(u, s) PROVE IInv'
    BY <1>1, Opened DEF OpenFile
<1>2. ASSUME NEW s \in Names, FillFile(u, s) \/ BreakFile(u, s) PROVE IInv'
    BY <1>2, Filled DEF FillFile, BreakFile
<1>3. ASSUME NEW attached \in SUBSET Names, BeginUpload(u, attached) PROVE IInv'
    BY <1>3, Elsewhere DEF BeginUpload, closing
<1>4. CASE EndUpload(u)
    BY <1>4, Elsewhere DEF EndUpload, closing
<1> QED BY <1>1, <1>2, <1>3, <1>4

LEMMA SampleSteps ==
    ASSUME IInv,
           \/ BeginSample \/ EndSample
           \/ \E s \in Names : OpenSample(s) \/ FillSample(s)
    PROVE  IInv'
<1> USE SourceFacts
<1>1. CASE BeginSample \/ EndSample
    BY <1>1, Elsewhere DEF BeginSample, EndSample, closing
<1>2. ASSUME NEW s \in Names, OpenSample(s) PROVE IInv'
    BY <1>2, Opened DEF OpenSample
<1>3. ASSUME NEW s \in Names, FillSample(s) PROVE IInv'
    BY <1>3, Filled DEF FillSample
<1> QED BY <1>1, <1>2, <1>3

LEMMA Steps == IInv /\ [Next]_vars => IInv'
<1> SUFFICES ASSUME IInv, [Next]_vars PROVE IInv'
    OBVIOUS
<1>1. CASE UNCHANGED vars
    BY <1>1, Elsewhere DEF vars, directory, closing
<1>2. CASE ReadRows(Auditor) \/ CannotRead(Auditor) \/ ReadDigest(Auditor)
    BY <1>2, Reads, CannotReads, Digests, SourceFacts
<1> QED BY <1>1, <1>2, UploadSteps, SampleSteps, CloseSteps, BeginsReverify, EndsReverify, Dies
        DEF Next

LEMMA Invariance == Spec => []IInv
BY Begins, Steps, PTL DEF Spec

\* Two calm closes under one run id decided over the same rows, whatever else ran,
\* was uploaded or died meanwhile (loop.run_id_for, readers.sha256_of).
THEOREM RunIdsStandForRows == Spec => []SameRunSameRows
<1>1. IInv => SameRunSameRows
    BY DEF IInv, AllTrue, True, SameRunSameRows
<1> QED BY <1>1, Invariance, PTL

\* A re-verification that holds, over files that nobody was writing, is of the rows
\* that were closed; the proofs' own word is not needed for it (service.reverify).
THEOREM VerdictsAreOfTheRows == Spec => []HoldsOnTheRowsClosed
<1>1. ASSUME IInv PROVE HoldsOnTheRowsClosed
  <2> SUFFICES ASSUME NEW r \in verdict.of, verdict.holds, r.calm, Auditor \notin disturbed
               PROVE  rows[Auditor] = r.rows
      BY DEF HoldsOnTheRowsClosed
  <2>1. rows[Auditor] = digests[Auditor]
      BY <1>1, Settled, SourceFacts DEF IInv, Compared
  <2> QED BY <1>1, <2>1 DEF IInv, AllTrue, True, Compared
<1> QED BY <1>1, Invariance, PTL
-----------------------------------------------------------------------------
(* The job page.  A close has done what comes before the stage it is in.     *)

JobType ==
    [state : {"none", "running", "complete", "failed"}, current : 0..Len(Stages),
     stages : [StageNames -> {"waiting", "running", "done", "failed"}]]

Honest(j) ==
    /\ \A s \in StageNames : job[j].stages[s] = "done" => s \in performed[j]
    /\ job[j].state = "complete" => performed[j] = StageNames

InOrder(j) ==
    /\ pc[j] = "start" => job[j].current = 0
    /\ pc[j] \in {"rows", "digest", "loaded", "open", "sealed"} =>
         /\ job[j].current > 0
         /\ \A i \in 1..(job[j].current - 1) : Stages[i] \in performed[j]
    /\ pc[j] \in {"open", "sealed"} => job[j].current = Len(Stages)
    /\ pc[j] = "sealed" => "record" \in performed[j]

Progress ==
    /\ job \in [Jobs -> JobType]
    /\ performed \in [Jobs -> SUBSET StageNames]
    /\ \A j \in Jobs : Honest(j) /\ InOrder(j)

LEMMA StageFacts ==
    /\ Len(Stages) \in Nat \ {0, 1}
    /\ \A i \in 1..Len(Stages) : Stages[i] \in StageNames
    /\ StageNames = {Stages[i] : i \in 1..Len(Stages)}
    /\ Stages[Len(Stages)] = "record"
BY PeriodAssumption DEF StageNames

LEMMA Entered ==
    ASSUME NEW b \in JobType, NEW i \in 1..Len(Stages)
    PROVE  /\ EnterStage(b, i) \in JobType
           /\ EnterStage(b, i).current = i /\ EnterStage(b, i).state = b.state
           /\ \A s \in StageNames : EnterStage(b, i).stages[s] = "done" =>
                 b.stages[s] = "done" \/ (b.current > 0 /\ s = Current(b))
<1> DEFINE mark(s) == IF s = Stages[i] THEN "running"
                      ELSE IF b.current > 0 /\ s = Current(b) /\ b.stages[s] = "running"
                      THEN "done" ELSE b.stages[s]
           marks == [s \in StageNames |-> mark(s)]
<1>1. \A s \in StageNames :
         /\ mark(s) \in {"waiting", "running", "done", "failed"}
         /\ mark(s) = "done" => b.stages[s] = "done" \/ (b.current > 0 /\ s = Current(b))
    BY DEF JobType
<1>2. EnterStage(b, i) = [b EXCEPT !.current = i, !.stages = marks]
    BY DEF EnterStage
<1> HIDE DEF mark
<1>3. /\ marks \in [StageNames -> {"waiting", "running", "done", "failed"}]
      /\ \A s \in StageNames : marks[s] = mark(s)
    BY <1>1
<1>4. i \in 0..Len(Stages)
    BY StageFacts
<1> HIDE DEF marks
<1> QED BY <1>1, <1>2, <1>3, <1>4 DEF JobType

LEMMA Marked ==
    ASSUME NEW b \in JobType
    PROVE  /\ FinishJob(b) \in JobType /\ FailJob(b) \in JobType
           /\ FinishJob(b).current = b.current /\ FailJob(b).state = "failed"
           /\ \A s \in StageNames :
                /\ FinishJob(b).stages[s] = "done" =>
                     b.stages[s] = "done" \/ (b.current > 0 /\ s = Current(b))
                /\ FailJob(b).stages[s] = "done" => b.stages[s] = "done"
BY DEF FinishJob, FailJob, MarkCurrent, JobType

LEMMA Blank ==
    /\ NoJob \in JobType /\ NoJob.current = 0
    /\ \A s \in StageNames : NoJob.stages[s] = "waiting"
BY StageFacts DEF NoJob, JobType

LEMMA ProgressBegins == Init => Progress
<1> SUFFICES ASSUME Init PROVE Progress
    OBVIOUS
<1>1. NoJob \in JobType /\ \A s \in StageNames : NoJob.stages[s] = "waiting"
    BY Blank
<1>2. \A j \in Jobs : job[j] = NoJob /\ performed[j] = {} /\ pc[j] = "off"
    BY SourceFacts DEF Init
<1>3. job \in [Jobs -> JobType] /\ performed \in [Jobs -> SUBSET StageNames]
    BY <1>1 DEF Init
<1>4. NoJob.state = "none"
    BY DEF NoJob
<1> QED BY <1>1, <1>2, <1>3, <1>4 DEF Progress, Honest, InOrder

\* No job moves: whoever reads stays between the same stages.
LEMMA JobsStay ==
    ASSUME IInv, Progress, UNCHANGED <<job, performed>>,
           \A j \in Jobs :
             \/ pc'[j] = pc[j]
             \/ pc'[j] \in {"off", "over"}
             \/ pc[j] \in {"rows", "digest"} /\ pc'[j] \in {"rows", "digest", "loaded"}
             \/ pc[j] = "loaded" /\ pc'[j] = "open" /\ job[j].current = Len(Stages)
    PROVE  Progress'
BY DEF Progress, Honest, InOrder

\* A job that fails, in the file or only in memory, after it has done p.
LEMMA Failed ==
    ASSUME IInv, Progress, NEW j \in Jobs, NEW b \in JobType, NEW p \in SUBSET StageNames,
           FailAs(j, b), performed' = [performed EXCEPT ![j] = p], performed[j] \subseteq p,
           \A s \in StageNames : b.stages[s] = "done" => s \in p
    PROVE  Progress'
<1>1. job \in [Jobs -> JobType] /\ performed \in [Jobs -> SUBSET StageNames] /\ Honest(j)
    BY DEF Progress
<1>2. pc' = [pc EXCEPT ![j] = "over"] /\ pc'[j] = "over" /\ performed'[j] = p
    BY <1>1, SourceFacts DEF FailAs, EndThread, Goto, IInv, Typed
<1>3. InOrder(j)'
    BY <1>2 DEF InOrder
<1>4. job' \in [Jobs -> JobType] /\ Honest(j)'
  <2>1. CASE job' = [job EXCEPT ![j] = FailJob(b)]
    <3>1. job'[j] = FailJob(b)
        BY <1>1, <2>1
    <3> QED BY <1>1, <1>2, <2>1, <3>1, Marked DEF Honest
  <2>2. CASE UNCHANGED job
      BY <1>1, <1>2, <2>2 DEF Honest
  <2> QED BY <2>1, <2>2 DEF FailAs
<1>5. ASSUME NEW k \in Jobs \ {j} PROVE Honest(k)' /\ InOrder(k)'
  <2>1. job'[k] = job[k] /\ performed'[k] = performed[k] /\ pc'[k] = pc[k]
      BY <1>1, <1>2, SourceFacts DEF FailAs, IInv, Typed
  <2> QED BY <2>1 DEF Progress, Honest, InOrder
<1> QED BY <1>1, <1>3, <1>4, <1>5 DEF Progress

LEMMA JobMoves ==
    ASSUME IInv, Progress, NEW j \in Jobs,
           \/ DoClose(j) \/ BeginRun(j) \/ NextStage(j) \/ SealRecord(j) \/ Finish(j)
    PROVE  Progress'
<1> USE SourceFacts
<1>0. job[j] \in JobType /\ pc \in [Threads -> Locations]
    BY DEF Progress, IInv, Typed
<1> DEFINE Moved(b, p, l) ==
        /\ job' = [job EXCEPT ![j] = b] /\ performed' = [performed EXCEPT ![j] = p]
        /\ pc' = [pc EXCEPT ![j] = l]
<1>1. SUFFICES \E b \in JobType, p \in SUBSET StageNames, l \in Locations :
          Moved(b, p, l) /\ Honest(j)' /\ InOrder(j)'
    BY <1>0 DEF Progress, Honest, InOrder
<1>2. CASE DoClose(j)
  <2> DEFINE b == [NoJob EXCEPT !.state = "running"]
  <2>1. b \in JobType /\ b.state = "running" /\ \A s \in StageNames : b.stages[s] = "waiting"
      BY Blank DEF JobType
  <2> HIDE DEF b
  <2>2. b.current = 0
      BY Blank DEF b, JobType
  <2>3. Moved(b, {}, "start")
      BY <1>2 DEF DoClose, Goto, b
  <2>4. Honest(j)' /\ InOrder(j)'
      BY <1>0, <2>1, <2>2, <2>3 DEF Progress, Honest, InOrder
  <2> QED BY <2>1, <2>3, <2>4 DEF Locations
<1>3. CASE BeginRun(j)
  <2>1. Moved(EnterStage(job[j], 1), performed[j], "rows") /\ job[j].current = 0
      BY <1>3 DEF BeginRun, Goto, Progress, InOrder
  <2> DEFINE b == EnterStage(job[j], 1)
  <2>2. /\ b \in JobType /\ b.current = 1 /\ b.state = job[j].state
        /\ \A s \in StageNames : b.stages[s] = "done" => job[j].stages[s] = "done"
    <3>1. 1 \in 1..Len(Stages)
        BY StageFacts
    <3> QED BY <1>0, <2>1, <3>1, Entered
  <2> HIDE DEF b
  <2>3. /\ job'[j] = b /\ performed'[j] = performed[j] /\ pc'[j] = "rows"
        /\ Honest(j) /\ performed[j] \in SUBSET StageNames
      BY <1>0, <2>1 DEF Progress, b
  <2>4. Honest(j)'
      BY <2>2, <2>3 DEF Honest
  <2>5. InOrder(j)'
      BY <2>2, <2>3, StageFacts DEF InOrder
  <2> QED BY <2>1, <2>2, <2>3, <2>4, <2>5 DEF Locations, b
<1>4. CASE NextStage(j)
  <2>1. /\ Moved(EnterStage(job[j], job[j].current + 1),
                 performed[j] \cup {Current(job[j])}, "loaded")
        /\ job[j].current \in 1..(Len(Stages) - 1) /\ pc[j] = "loaded"
      BY <1>0, <1>4, StageFacts DEF NextStage, Progress, InOrder, JobType
  <2>2. Current(job[j]) \in StageNames
      BY <2>1, StageFacts DEF Current
  <2> DEFINE b == EnterStage(job[j], job[j].current + 1)
             p == performed[j] \cup {Current(job[j])}
  <2>3. /\ b \in JobType /\ b.current = job[j].current + 1 /\ b.state = job[j].state
        /\ \A s \in StageNames : b.stages[s] = "done" =>
              job[j].stages[s] = "done" \/ s = Current(job[j])
    <3>1. job[j].current + 1 \in 1..Len(Stages) /\ job[j].current > 0
        BY <2>1, StageFacts
    <3> QED BY <1>0, <3>1, Entered
  <2> HIDE DEF b
  <2>4. p \in SUBSET StageNames /\ Honest(j) /\ InOrder(j)
      BY <2>2 DEF Progress
  <2>5. job'[j] = b /\ performed'[j] = p /\ pc'[j] = "loaded"
      BY <1>0, <2>1 DEF Progress, b
  <2>6. Honest(j)'
    <3>1. ASSUME NEW s \in StageNames, b.stages[s] = "done" PROVE s \in p
        BY <2>3, <2>4, <3>1 DEF Honest
    <3>2. b.state = "complete" => p = StageNames
        BY <2>3, <2>4 DEF Honest
    <3> HIDE DEF p
    <3> QED BY <2>5, <3>1, <3>2 DEF Honest
  <2>7. \A i \in 1..(b.current - 1) : Stages[i] \in p
    <3> SUFFICES ASSUME NEW i \in 1..(b.current - 1) PROVE Stages[i] \in p
        OBVIOUS
    <3>1. CASE i = job[j].current
        BY <3>1 DEF Current
    <3>2. CASE i # job[j].current
        BY <2>1, <2>3, <2>4, <3>2 DEF InOrder
    <3> QED BY <3>1, <3>2
  <2>8. b.current > 0
      BY <2>1, <2>3
  <2>9. InOrder(j)'
    <3> HIDE DEF p
    <3> QED BY <2>5, <2>7, <2>8 DEF InOrder
  <2> QED BY <2>1, <2>3, <2>4, <2>6, <2>9 DEF Locations, b
<1>5. CASE SealRecord(j)
  <2>1. Moved(job[j], performed[j] \cup {"record"}, "sealed") /\ pc[j] = "open"
      BY <1>0, <1>5 DEF SealRecord, Goto, Progress
  <2>2. "record" \in StageNames
      BY StageFacts
  <2>3. Honest(j)' /\ InOrder(j)'
      BY <1>0, <2>1, <2>2 DEF Progress, Honest, InOrder
  <2> QED BY <1>0, <2>1, <2>2, <2>3 DEF Locations, Progress
<1>6. CASE Finish(j)
  <2>1. Moved(FinishJob(job[j]), performed[j], "over") /\ pc[j] = "sealed"
      BY <1>0, <1>6 DEF Finish, EndThread, Goto, Progress
  <2>2. performed[j] = StageNames /\ Current(job[j]) \in performed[j]
      BY <1>0, <2>1, StageFacts DEF Progress, InOrder, Current
  <2>3. Honest(j)' /\ InOrder(j)'
      BY <1>0, <2>1, <2>2, Marked DEF Progress, Honest, InOrder
  <2> QED BY <1>0, <2>1, <2>3, Marked DEF Locations, Progress
<1> QED BY <1>2, <1>3, <1>4, <1>5, <1>6

LEMMA JobFails ==
    ASSUME IInv, Progress, NEW j \in Jobs, Fail(j) \/ FailEntering(j) \/ FailFinishing(j)
    PROVE  Progress'
<1>0. /\ job[j] \in JobType /\ performed \in [Jobs -> SUBSET StageNames]
      /\ Honest(j) /\ InOrder(j)
    BY DEF Progress
<1>1. CASE Fail(j)
  <2>1. FailAs(j, job[j]) /\ performed' = [performed EXCEPT ![j] = performed[j]]
      BY <1>0, <1>1 DEF Fail
  <2> QED BY <1>0, <2>1, Failed DEF Honest
<1>2. CASE FailEntering(j)
  <2> DEFINE i == job[j].current + 1
             b == EnterStage(job[j], i)
             p == IF pc[j] = "start" THEN performed[j]
                  ELSE performed[j] \cup {Current(job[j])}
  <2>1. /\ i \in 1..Len(Stages)
        /\ pc[j] = "start" => job[j].current = 0
        /\ pc[j] # "start" => job[j].current \in 1..Len(Stages)
      BY <1>0, <1>2, StageFacts DEF FailEntering, InOrder, JobType
  <2>2. FailAs(j, b) /\ performed' = [performed EXCEPT ![j] = p]
      BY <1>0, <1>2 DEF FailEntering
  <2>3. p \in SUBSET StageNames
      BY <1>0, <2>1, StageFacts DEF Current
  <2>4. /\ b \in JobType
        /\ \A s \in StageNames : b.stages[s] = "done" =>
              job[j].stages[s] = "done" \/ (job[j].current > 0 /\ s = Current(job[j]))
      BY <1>0, <2>1, Entered
  <2>5. \A s \in StageNames : b.stages[s] = "done" => s \in p
      BY <1>0, <2>1, <2>4 DEF Honest
  <2>6. performed[j] \subseteq p
      OBVIOUS
  <2> HIDE DEF b, p
  <2> QED BY <2>2, <2>3, <2>4, <2>5, <2>6, Failed
<1>3. CASE FailFinishing(j)
  <2>1. /\ FailAs(j, FinishJob(job[j])) /\ pc[j] = "sealed"
        /\ performed' = [performed EXCEPT ![j] = performed[j]]
      BY <1>0, <1>3 DEF FailFinishing
  <2>2. performed[j] = StageNames
    <3>1. \A i \in 1..Len(Stages) : Stages[i] \in performed[j]
        BY <1>0, <2>1, StageFacts DEF InOrder
    <3> QED BY <1>0, <3>1, StageFacts
  <2> QED BY <1>0, <2>1, <2>2, Marked, Failed
<1> QED BY <1>1, <1>2, <1>3

LEMMA ProgressSteps == IInv /\ Progress /\ [Next]_vars => Progress'
<1> SUFFICES ASSUME IInv, Progress, [Next]_vars PROVE Progress'
    OBVIOUS
<1>0. pc \in [Threads -> Locations] /\ Jobs \subseteq Threads /\ Auditor \notin Jobs
    BY SourceFacts DEF IInv, Typed
<1>1. CASE UNCHANGED vars
    BY <1>1, JobsStay DEF vars, closing
<1>2. ASSUME NEW t \in Threads, ReadRows(t) \/ CannotRead(t) \/ ReadDigest(t)
      PROVE  Progress'
  <2>1. UNCHANGED <<job, performed>>
      BY <1>2 DEF ReadRows, CannotRead, ReadDigest, closing
  <2>2. \A j \in Jobs : pc'[j] = pc[j] \/
            (pc[j] \in {"rows", "digest"} /\ pc'[j] \in {"rows", "digest", "loaded"})
      BY <1>0, <1>2 DEF ReadRows, CannotRead, ReadDigest, NextSource, Goto
  <2> QED BY <2>1, <2>2, JobsStay
<1>3. ASSUME NEW j \in Jobs, OpenRecord(j) PROVE Progress'
  <2>1. UNCHANGED <<job, performed>>
      BY <1>3 DEF OpenRecord
  <2>2. \A k \in Jobs : pc'[k] = pc[k] \/
            (pc[k] = "loaded" /\ pc'[k] = "open" /\ job[k].current = Len(Stages))
      BY <1>0, <1>3 DEF OpenRecord, Goto
  <2> QED BY <2>1, <2>2, JobsStay
<1>4. ASSUME NEW u \in Uploads,
             \/ \E attached \in SUBSET Names : BeginUpload(u, attached)
             \/ \E s \in Names : OpenFile(u, s) \/ FillFile(u, s) \/ BreakFile(u, s)
             \/ EndUpload(u)
      PROVE  Progress'
    BY <1>4, JobsStay DEF BeginUpload, OpenFile, FillFile, BreakFile, EndUpload, closing
<1>5. CASE \/ BeginSample \/ EndSample
           \/ \E s \in Names : OpenSample(s) \/ FillSample(s)
    BY <1>5, JobsStay DEF BeginSample, EndSample, OpenSample, FillSample, closing
<1>6. ASSUME NEW r, BeginReverify(r) PROVE Progress'
    BY <1>0, <1>6, JobsStay DEF BeginReverify, Goto, closing
<1>7. ASSUME NEW h, EndReverify(h) PROVE Progress'
    BY <1>0, <1>7, JobsStay DEF EndReverify, Goto, closing
<1>8. CASE Die
  <2>1. UNCHANGED <<job, performed>>
      BY <1>8 DEF Die
  <2>2. \A j \in Jobs : pc'[j] \in {"off", "over"}
      BY <1>0, <1>8 DEF Die
  <2> QED BY <2>1, <2>2, JobsStay
<1>9. ASSUME NEW j \in Jobs, DoClose(j) \/ Close(j) PROVE Progress'
  <2>1. CASE ReadRows(j) \/ CannotRead(j) \/ ReadDigest(j)
      BY <1>0, <1>2, <2>1
  <2> QED BY <1>3, <1>9, <2>1, JobMoves, JobFails DEF Close
<1> QED BY <1>0, <1>1, <1>2, <1>4, <1>5, <1>6, <1>7, <1>8, <1>9, SourceFacts DEF Next

\* A stage that a page shows done was performed, and a close it shows complete sealed
\* its record, however its thread or the process ended (progress.Tracker).
THEOREM JobsTellTheTruth == Spec => []JobTellsTheTruth
<1>1. Progress => JobTellsTheTruth
    BY DEF Progress, Honest, JobTellsTheTruth
<1> QED BY <1>1, ProgressBegins, ProgressSteps, Invariance, PTL DEF Spec
=============================================================================
