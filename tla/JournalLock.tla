----------------------------- MODULE JournalLock -----------------------------
(***************************************************************************)
(* The reader-writer lock in front of every log (journal/__init__.py,      *)
(* `_locked`): one `_Gate` per process -- a condition variable with a      *)
(* reader count -- and one POSIX record lock on a sidecar file between     *)
(* processes.  The record lock has no shared mode, so the first reader of  *)
(* a process takes it and the last one drops it.  A thread that must wait  *)
(* for the file lock polls for it while it HOLDS the gate's guard.         *)
(*                                                                         *)
(* One log is modelled; the threads of a process reach the same gate (the  *)
(* registry keys gates by path).                                           *)
(***************************************************************************)
EXTENDS Naturals, FiniteSets

CONSTANTS
    Threads,        \* the threads that lock this log, over all processes
    Procs,          \* the processes
    ProcOf,         \* ProcOf[t]: the process thread t runs in
    NoOne,          \* nobody holds the guard / the file lock
    MaxRequests,    \* bound: lock requests per thread
    MaxCrashes      \* bound: process deaths

ASSUME LockAssumption ==
    /\ IsFiniteSet(Threads)
    /\ ProcOf \in [Threads -> Procs]
    /\ NoOne \notin Threads
    /\ NoOne \notin Procs
    /\ MaxRequests \in Nat
    /\ MaxCrashes \in Nat

VARIABLES
    pc,         \* where each thread is in `_locked`
    mode,       \* the mode it asked for
    expired,    \* the threads whose LOCK_WAIT_SECONDS have run out
    guard,      \* guard[p]: the thread that keeps the guard of p's gate
    gate,       \* gate[p]: the _Gate fields of process p
    fileLock,   \* the process that owns the record lock
    requests,   \* requests made, against MaxRequests
    crashes     \* deaths so far, against MaxCrashes

vars == <<pc, mode, expired, guard, gate, fileLock, requests, crashes>>

Modes == {"read", "write"}
Locations == {"idle", "entering", "waiting", "notified", "polling", "refused",
              "inside", "leaving", "busy"}
Gates == [readers : Nat, writing : BOOLEAN, handle : BOOLEAN]
NewGate == [readers |-> 0, writing |-> FALSE, handle |-> FALSE]

TypeOK ==
    /\ pc \in [Threads -> Locations]
    /\ mode \in [Threads -> Modes]
    /\ expired \in SUBSET Threads
    /\ guard \in [Procs -> Threads \cup {NoOne}]
    /\ gate \in [Procs -> Gates]
    /\ fileLock \in Procs \cup {NoOne}
    /\ requests \in [Threads -> Nat]
    /\ crashes \in Nat

Gate(t) == gate[ProcOf[t]]
Polling(t) == pc[t] \in {"polling", "refused"}
Pending(t) == pc[t] \in {"entering", "waiting", "notified"} \/ Polling(t)
Holding(t) == pc[t] \in {"inside", "leaving"}
GuardFree(t) == guard[ProcOf[t]] = NoOne
Goto(t, l) == pc' = [pc EXCEPT ![t] = l]

Init ==
    /\ pc = [t \in Threads |-> "idle"]
    /\ mode = [t \in Threads |-> "read"]
    /\ expired = {}
    /\ guard = [p \in Procs |-> NoOne]
    /\ gate = [p \in Procs |-> NewGate]
    /\ fileLock = NoOne
    /\ requests = [t \in Threads |-> 0]
    /\ crashes = 0
-----------------------------------------------------------------------------
\* `with exclusive(path)` / `with shared(path)`: the deadline is set here.
Request(t, m) ==
    /\ pc[t] = "idle"
    /\ requests[t] < MaxRequests
    /\ requests' = [requests EXCEPT ![t] = @ + 1]
    /\ mode' = [mode EXCEPT ![t] = m]
    /\ expired' = expired \ {t}
    /\ Goto(t, "entering")
    /\ UNCHANGED <<guard, gate, fileLock, crashes>>

\* Time passes the deadline of a thread that has not been let in yet.
Expire(t) ==
    /\ Pending(t)
    /\ expired' = expired \cup {t}
    /\ UNCHANGED <<pc, mode, guard, gate, fileLock, requests, crashes>>

\* The predicate given to `wait_for`.
Admissible(t) ==
    /\ ~Gate(t).writing
    /\ mode[t] = "write" => Gate(t).readers = 0

\* t has the guard: on entry to the `with`, or back from `wait`.
HasGuard(t) == pc[t] \in {"entering", "notified"} /\ GuardFree(t)

\* A reader beside readers of its own process never sees the file lock.
JoinReaders(t) ==
    /\ HasGuard(t)
    /\ Admissible(t)
    /\ mode[t] = "read" /\ Gate(t).readers > 0
    /\ gate' = [gate EXCEPT ![ProcOf[t]].readers = @ + 1]
    /\ Goto(t, "inside")
    /\ UNCHANGED <<mode, expired, guard, fileLock, requests, crashes>>

\* The first of its process goes for the file lock.
IsFirst(t) == Admissible(t) /\ (mode[t] = "write" \/ Gate(t).readers = 0)

\* It keeps the guard.
BeginPoll(t) ==
    /\ HasGuard(t)
    /\ IsFirst(t)
    /\ guard' = [guard EXCEPT ![ProcOf[t]] = t]
    /\ Goto(t, "polling")
    /\ UNCHANGED <<mode, expired, gate, fileLock, requests, crashes>>

\* The sidecar cannot be opened: an OSError to the caller of `_locked`.
OpenFails(t) ==
    /\ HasGuard(t)
    /\ IsFirst(t)
    /\ Goto(t, "idle")
    /\ UNCHANGED <<mode, expired, guard, gate, fileLock, requests, crashes>>

\* `gate.guard.wait`: the guard is released while t sleeps.
Wait(t) ==
    /\ HasGuard(t)
    /\ ~Admissible(t)
    /\ t \notin expired
    /\ Goto(t, "waiting")
    /\ UNCHANGED <<mode, expired, guard, gate, fileLock, requests, crashes>>

\* Mutant: `wait()` without a timeout; only a change of the gate wakes t.
WakeByTimeoutIfAdmissible(t) ==
    /\ pc[t] = "waiting"
    /\ t \in expired
    /\ Admissible(t)
    /\ Goto(t, "notified")
    /\ UNCHANGED <<mode, expired, guard, gate, fileLock, requests, crashes>>

\* `wait` returns because its timeout ran out; t must take the guard again.
WakeByTimeout(t) ==
    /\ pc[t] = "waiting"
    /\ t \in expired
    /\ Goto(t, "notified")
    /\ UNCHANGED <<mode, expired, guard, gate, fileLock, requests, crashes>>

\* JournalBusy from `wait_for`.
GateBusy(t) ==
    /\ HasGuard(t)
    /\ ~Admissible(t)
    /\ t \in expired
    /\ Goto(t, "busy")
    /\ UNCHANGED <<mode, expired, guard, gate, fileLock, requests, crashes>>
-----------------------------------------------------------------------------
\* Mutant: the writer is let in without being written down in the gate.
TakeFileLockUnmarked(t) ==
    LET p == ProcOf[t] IN
    /\ pc[t] = "polling"
    /\ fileLock \in {NoOne, p}
    /\ fileLock' = p
    /\ gate' = [gate EXCEPT ![p] =
                  [readers |-> IF mode[t] = "read" THEN @.readers + 1 ELSE @.readers,
                   writing |-> @.writing,
                   handle  |-> TRUE]]
    /\ guard' = [guard EXCEPT ![p] = NoOne]
    /\ Goto(t, "inside")
    /\ UNCHANGED <<mode, expired, requests, crashes>>

\* `lockf(LOCK_EX | LOCK_NB)` succeeds: nobody has the record lock, or this
\* very process has (a record lock never conflicts with its own process).
TakeFileLock(t) ==
    LET p == ProcOf[t] IN
    /\ pc[t] = "polling"
    /\ fileLock \in {NoOne, p}
    /\ fileLock' = p
    /\ gate' = [gate EXCEPT ![p] =
                  [readers |-> IF mode[t] = "read" THEN @.readers + 1 ELSE @.readers,
                   writing |-> @.writing \/ mode[t] = "write",
                   handle  |-> TRUE]]
    /\ guard' = [guard EXCEPT ![p] = NoOne]
    /\ Goto(t, "inside")
    /\ UNCHANGED <<mode, expired, requests, crashes>>

\* Closing any descriptor of the sidecar drops the process's record lock.
CloseHandle(p) == fileLock' = IF fileLock = p THEN NoOne ELSE fileLock

\* Mutant: the deadline is tested before the lock is tried.
LockRefusedUntried(t) ==
    /\ pc[t] = "polling"
    /\ t \in expired \/ fileLock \notin {NoOne, ProcOf[t]}
    /\ Goto(t, "refused")
    /\ UNCHANGED <<mode, expired, guard, gate, fileLock, requests, crashes>>

\* `lockf` raises: another process has the record lock.  It may let go of it before
\* t looks at the clock.
LockRefused(t) ==
    /\ pc[t] = "polling"
    /\ fileLock \notin {NoOne, ProcOf[t]}
    /\ Goto(t, "refused")
    /\ UNCHANGED <<mode, expired, guard, gate, fileLock, requests, crashes>>

\* Before the deadline it sleeps and tries again.
PollAgain(t) ==
    /\ pc[t] = "refused"
    /\ t \notin expired
    /\ Goto(t, "polling")
    /\ UNCHANGED <<mode, expired, guard, gate, fileLock, requests, crashes>>

\* JournalBusy from `_take_file_lock`: the handle is closed, the guard freed.
PollBusy(t) ==
    /\ pc[t] = "refused"
    /\ t \in expired
    /\ CloseHandle(ProcOf[t])
    /\ guard' = [guard EXCEPT ![ProcOf[t]] = NoOne]
    /\ Goto(t, "busy")
    /\ UNCHANGED <<mode, expired, gate, requests, crashes>>

\* The caller of `_locked` sees JournalBusy and gives up.
Raise(t) ==
    /\ pc[t] = "busy"
    /\ Goto(t, "idle")
    /\ UNCHANGED <<mode, expired, guard, gate, fileLock, requests, crashes>>

\* The body of the `with` ends, normally or by an exception.
Leave(t) ==
    /\ pc[t] = "inside"
    /\ Goto(t, "leaving")
    /\ UNCHANGED <<mode, expired, guard, gate, fileLock, requests, crashes>>

\* The gate after t has been counted out of it (the `finally` of `_locked`).
CountedOut(t) ==
    LET g == Gate(t) IN
    [readers |-> IF mode[t] = "read" THEN g.readers - 1 ELSE g.readers,
     writing |-> g.writing /\ mode[t] = "read",
     handle  |-> g.handle]

Empty(g) == ~g.writing /\ g.readers = 0

\* Mutant: only a writer on its way out notifies.
NotifyAfterWriter(t) ==
    pc' = [u \in Threads |->
             IF u = t THEN "idle"
             ELSE IF /\ pc[u] = "waiting" /\ ProcOf[u] = ProcOf[t]
                     /\ mode[t] = "write"
                  THEN "notified"
             ELSE pc[u]]

\* `notify_all`: every sleeper of the process goes for the guard.
NotifyAll(t) ==
    pc' = [u \in Threads |->
             IF u = t THEN "idle"
             ELSE IF pc[u] = "waiting" /\ ProcOf[u] = ProcOf[t] THEN "notified"
             ELSE pc[u]]

Release(t) ==
    LET p == ProcOf[t]
        g == CountedOut(t)
    IN  /\ pc[t] = "leaving"
        /\ GuardFree(t)
        /\ IF Empty(g) /\ g.handle
             THEN /\ CloseHandle(p)
                  /\ gate' = [gate EXCEPT ![p] = [g EXCEPT !.handle = FALSE]]
             ELSE /\ gate' = [gate EXCEPT ![p] = g]
                  /\ UNCHANGED fileLock
        /\ NotifyAll(t)
        /\ UNCHANGED <<mode, expired, guard, requests, crashes>>

\* A process dies: its gates go with it and the kernel drops its lock.
Crash(p) ==
    /\ crashes < MaxCrashes
    /\ crashes' = crashes + 1
    /\ pc' = [t \in Threads |-> IF ProcOf[t] = p THEN "idle" ELSE pc[t]]
    /\ gate' = [gate EXCEPT ![p] = NewGate]
    /\ guard' = [guard EXCEPT ![p] = NoOne]
    /\ CloseHandle(p)
    /\ UNCHANGED <<mode, expired, requests>>

-----------------------------------------------------------------------------
\* What the thread does on its own once it is scheduled.
Advance(t) ==
    \/ JoinReaders(t) \/ BeginPoll(t) \/ Wait(t) \/ WakeByTimeout(t) \/ GateBusy(t)
    \/ TakeFileLock(t) \/ LockRefused(t) \/ PollAgain(t) \/ PollBusy(t)
    \/ Release(t) \/ Raise(t)

Next ==
    \/ \E t \in Threads :
         \/ \E m \in Modes : Request(t, m)
         \/ Expire(t)
         \/ Advance(t)
         \/ Leave(t)
         \/ OpenFails(t)
    \/ \E p \in Procs : Crash(p)

Spec == Init /\ [][Next]_vars

\* The scheduler runs every thread that can move, and time passes.  Nothing is
\* assumed of the body: a holder may stay inside for ever; nor of a sidecar that
\* cannot be opened, which answers its caller as well.
FairSpec ==
    /\ Spec
    /\ \A t \in Threads : WF_vars(Advance(t)) /\ WF_vars(Expire(t) /\ t \notin expired)
-----------------------------------------------------------------------------
Holders(p) == {t \in Threads : ProcOf[t] = p /\ Holding(t)}
ReadersIn(p) == {t \in Holders(p) : mode[t] = "read"}

\* Two threads are inside a log together only as two readers, and then of one
\* process: the promise of `exclusive` and `shared` across threads and processes.
MutualExclusion ==
    \A s, t \in Threads :
        s # t /\ Holding(s) /\ Holding(t) =>
            /\ ProcOf[s] = ProcOf[t]
            /\ mode[s] = "read" /\ mode[t] = "read"

\* The record lock belongs to the process whose threads are inside and to no
\* other: it is neither lost while one is inside (a handle closed by the first
\* reader out, by a refused poll) nor left behind when the last one is gone.
FileLockFollowsHolders ==
    \A p \in Procs : fileLock = p <=> Holders(p) # {}

\* A sleeping thread still has something to wait for: whoever empties the gate
\* wakes it (`notify_all` on every way out).
NoLostWakeup ==
    \A t \in Threads : pc[t] = "waiting" => ~Admissible(t)

\* The guard is kept through a poll only in a process with nobody inside, so a
\* holder on its way out never queues behind thirty seconds of polling.
PollNeverBlocksRelease ==
    \A t \in Threads : Holding(t) => GuardFree(t)

\* A caller is refused, by the gate or by the last try of the file lock before its
\* JournalBusy, only while some other thread really is inside.
BusyMeansHeld ==
    [][\A t \in Threads :
         pc'[t] \in {"refused", "busy"} /\ pc[t] \notin {"refused", "busy"} =>
             \E u \in Threads \ {t} : Holding(u)]_vars

\* A caller is let in or refused, even beside a holder that never leaves.
EveryRequestAnswered ==
    \A t \in Threads : Pending(t) ~> ~Pending(t)

\* The lock implements the abstract reader-writer lock.
Abstract == INSTANCE RWLock WITH
    holding <- [t \in Threads |-> IF Holding(t) THEN mode[t] ELSE "none"]

ImplementsRWLock == Abstract!RWSpec
=============================================================================
