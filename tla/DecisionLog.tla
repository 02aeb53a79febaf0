----------------------------- MODULE DecisionLog -----------------------------
(***************************************************************************)
(* The decision log of one run id: closes that delete it and write it      *)
(* again (run_close), and requests that read it (service.events, behind    *)
(* every view).  A run id is derived from the inputs, so two closes of one *)
(* period write the SAME file.  Reads and rewrites hold the log's lock,    *)
(* taken here from RWLock, which JournalLock implements; the test for the  *)
(* file's existence (`_log_path`) holds nothing.                           *)
(*                                                                         *)
(* An event is abstracted to what the hash chain binds: the close that     *)
(* wrote it (no two agree on a timestamp, hence on a hash), its seq and    *)
(* kind, and the hash before it.  The file is absent exactly when it is    *)
(* empty: the first append creates it.                                     *)
(***************************************************************************)
EXTENDS Integers, SequencesExt

CONSTANTS
    Closers,    \* threads that run closes of this period
    Readers,    \* threads that serve views of it
    Bodies,     \* what a close may find, between header and terminator
    MaxCloses,  \* bound: closes started
    MaxCrashes  \* bound: process deaths

Kinds == {"CloseStarted", "MatchProven", "ExceptionRaised", "PostingWritten",
          "CloseBlocked", "CloseCompleted"}

ASSUME LogAssumption ==
    /\ Bodies \subseteq Seq(Kinds \ {"CloseStarted", "CloseCompleted"})
    /\ MaxCloses \in Nat /\ MaxCrashes \in Nat

Threads == Closers \cup Readers

VARIABLES
    file,       \* decisions.jsonl
    holding,    \* the lock of the log (RWLock)
    pc,         \* where each thread is
    body,       \* body[c]: what the close of c found
    id,         \* id[c]: which close c writes, in the order they got the lock
    count,      \* count[c]: events c's Journal object has written
    seen,       \* seen[t]: the log t read, until its request ends
    opened,     \* closes that have opened the log
    started,    \* closes started, against MaxCloses
    crashes,    \* deaths, against MaxCrashes
    published   \* history: the file as the last holder of the write lock left it

vars == <<file, holding, pc, body, id, count, seen, opened, started, crashes, published>>

Lock == INSTANCE RWLock

Genesis == <<0, 0>>
Hashes == Nat \X Nat
Events == [close : Nat, seq : Nat, kind : Kinds, prev : Hashes]
Locations == {"idle", "closing", "opening", "deriving", "writing", "written",
              "lookup", "asking", "reading", "read", "answered", "missing",
              "busy", "failed"}

TypeOK ==
    /\ file \in Seq(Events) /\ published \in Seq(Events)
    /\ holding \in [Threads -> {"none", "read", "write"}]
    /\ pc \in [Threads -> Locations]
    /\ body \in [Closers -> Seq(Kinds)]
    /\ id \in [Closers -> Nat] /\ count \in [Closers -> Nat]
    /\ seen \in [Threads -> Seq(Events)]
    /\ opened \in Nat /\ started \in Nat /\ crashes \in Nat

Init ==
    /\ file = <<>> /\ published = <<>>
    /\ Lock!RWInit
    /\ pc = [t \in Threads |-> "idle"]
    /\ body = [c \in Closers |-> <<>>]
    /\ id = [c \in Closers |-> 0] /\ count = [c \in Closers |-> 0]
    /\ seen = [t \in Threads |-> <<>>]
    /\ opened = 0 /\ started = 0 /\ crashes = 0

Goto(t, l) == pc' = [pc EXCEPT ![t] = l]
-----------------------------------------------------------------------------
\* Ingest, match, verify and post: all that precedes the lock.
StartClose(c, b) ==
    /\ pc[c] = "idle"
    /\ started < MaxCloses
    /\ started' = started + 1
    /\ body' = [body EXCEPT ![c] = <<"CloseStarted">> \o b \o <<"CloseCompleted">>]
    /\ Goto(c, "closing")
    /\ UNCHANGED <<file, holding, id, count, seen, opened, crashes, published>>

\* Mutant: the lock was taken on the file that the other close deleted.
EnterWriteUnlocked(c) ==
    /\ pc[c] = "closing"
    /\ holding' = [holding EXCEPT ![c] = "write"]
    /\ Goto(c, "opening")
    /\ UNCHANGED <<file, body, id, count, seen, opened, started, crashes, published>>

EnterWrite(c) ==
    /\ pc[c] = "closing"
    /\ Lock!Acquire(c, "write")
    /\ Goto(c, "opening")
    /\ UNCHANGED <<file, body, id, count, seen, opened, started, crashes, published>>

\* `Journal(path, fresh=True)`: whatever log is there is unlinked.
OpenFresh(c) ==
    /\ pc[c] = "opening"
    /\ opened' = opened + 1
    /\ id' = [id EXCEPT ![c] = opened + 1]
    /\ count' = [count EXCEPT ![c] = 0]
    /\ file' = <<>>
    /\ Goto(c, "deriving")
    /\ UNCHANGED <<holding, body, seen, started, crashes, published>>

\* `derive`, called with the old log already gone.
Derive(c) ==
    /\ pc[c] = "deriving"
    /\ Goto(c, "writing")
    /\ UNCHANGED <<file, holding, body, id, count, seen, opened, started, crashes, published>>

\* DerivationError: the close ends with no log at all.
DeriveFails(c) ==
    /\ pc[c] = "deriving"
    /\ Lock!Release({c})
    /\ published' = file
    /\ Goto(c, "failed")
    /\ UNCHANGED <<file, body, id, count, seen, opened, started, crashes>>

\* The event that `append` seals next.  seq and prev_hash are the Journal
\* object's own count and head; an event's hash is named by its close and place.
NextEvent(c) ==
    [close |-> id[c], seq |-> count[c], kind |-> body[c][count[c] + 1],
     prev |-> IF count[c] = 0 THEN Genesis ELSE <<id[c], count[c]>>]

\* One `append`.  The terminator is the last and seals the log.
WriteEvent(c) ==
    /\ pc[c] = "writing"
    /\ count[c] < Len(body[c])
    /\ file' = Append(file, NextEvent(c))
    /\ count' = [count EXCEPT ![c] = @ + 1]
    /\ Goto(c, IF count[c] + 1 = Len(body[c]) THEN "written" ELSE "writing")
    /\ UNCHANGED <<holding, body, id, seen, opened, started, crashes, published>>

\* The close has its record; service.close goes on to view it.
LeaveWrite(c) ==
    /\ pc[c] = "written"
    /\ Lock!Release({c})
    /\ published' = file
    /\ Goto(c, "lookup")
    /\ UNCHANGED <<file, body, id, count, seen, opened, started, crashes>>
-----------------------------------------------------------------------------
\* A request for a view of the run.
Ask(r) ==
    /\ pc[r] = "idle"
    /\ Goto(r, "lookup")
    /\ UNCHANGED <<file, holding, body, id, count, seen, opened, started, crashes, published>>

\* `_log_path`: does the file exist?  Nothing is held.
Lookup(t) ==
    /\ pc[t] = "lookup"
    /\ Goto(t, IF file = <<>> THEN "missing" ELSE "asking")
    /\ UNCHANGED <<file, holding, body, id, count, seen, opened, started, crashes, published>>

EnterRead(t) ==
    /\ pc[t] = "asking"
    /\ Lock!Acquire(t, "read")
    /\ Goto(t, "reading")
    /\ UNCHANGED <<file, body, id, count, seen, opened, started, crashes, published>>

\* The read; a file that has gone since the lookup gives an error, not a log.
ReadLog(t) ==
    /\ pc[t] = "reading"
    /\ seen' = [seen EXCEPT ![t] = file]
    /\ Goto(t, "read")
    /\ UNCHANGED <<file, holding, body, id, count, opened, started, crashes, published>>

LeaveRead(t) ==
    /\ pc[t] = "read"
    /\ Lock!Release({t})
    /\ Goto(t, IF seen[t] = <<>> THEN "missing" ELSE "answered")
    /\ UNCHANGED <<file, body, id, count, seen, opened, started, crashes, published>>

\* JournalBusy: given up while another thread is inside.
Busy(t) ==
    /\ pc[t] \in {"closing", "asking"}
    /\ \E u \in Threads \ {t} : holding[u] # "none"
    /\ Goto(t, "busy")
    /\ UNCHANGED <<file, holding, body, id, count, seen, opened, started, crashes, published>>

\* The request has its answer or its error.
Finish(t) ==
    /\ pc[t] \in {"answered", "missing", "busy", "failed"}
    /\ seen' = [seen EXCEPT ![t] = <<>>]
    /\ Goto(t, "idle")
    /\ UNCHANGED <<file, holding, body, id, count, opened, started, crashes, published>>

\* The process of t dies.  The kernel frees its lock; the file stays as it is.
Crash(t) ==
    /\ pc[t] # "idle"
    /\ crashes < MaxCrashes
    /\ crashes' = crashes + 1
    /\ Lock!Release({t})
    /\ published' = IF holding[t] = "write" THEN file ELSE published
    /\ seen' = [seen EXCEPT ![t] = <<>>]
    /\ Goto(t, "idle")
    /\ UNCHANGED <<file, body, id, count, opened, started>>

Next ==
    \/ \E c \in Closers :
         \/ \E b \in Bodies : StartClose(c, b)
         \/ EnterWrite(c) \/ OpenFresh(c) \/ Derive(c) \/ DeriveFails(c)
         \/ WriteEvent(c) \/ LeaveWrite(c)
    \/ \E r \in Readers : Ask(r)
    \/ \E t \in Threads :
         \/ Lookup(t) \/ EnterRead(t) \/ ReadLog(t) \/ LeaveRead(t)
         \/ Busy(t) \/ Finish(t) \/ Crash(t)

Spec == Init /\ [][Next]_vars
-----------------------------------------------------------------------------
(* `verify_chain`. *)

Hash(e) == <<e.close, e.seq + 1>>

\* Every seq is its position and every prev_hash follows.
Chained(s) ==
    \A i \in DOMAIN s :
        /\ s[i].seq = i - 1
        /\ s[i].prev = IF i = 1 THEN Genesis ELSE Hash(s[i - 1])
-----------------------------------------------------------------------------
\* The log implements the record that changes in one step, from one chained log to
\* another: closes of one period that collide never tell a reader that the log was
\* tampered with (the failure that test_concurrent_closes records).
Abstract == INSTANCE AtomicRecord WITH
    Logs <- {s \in Seq(Events) : Chained(s)}, NoLog <- <<>>, record <- published, taken <- seen

ImplementsAtomicRecord == Abstract!ASpec
=============================================================================
