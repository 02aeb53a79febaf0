------------------------------- MODULE RWLock -------------------------------
(***************************************************************************)
(* What `exclusive` and `shared` promise to their callers, and nothing     *)
(* about how: a log has either one writer or any number of readers.        *)
(* JournalLock is the detailed module and is shown to implement this one;  *)
(* DecisionLog takes its lock from here.                                   *)
(***************************************************************************)
CONSTANT Threads

VARIABLE holding        \* holding[t]: the mode in which t is inside, or "none"

Modes == {"read", "write"}

RWTypeOK == holding \in [Threads -> Modes \cup {"none"}]

RWInit == holding = [t \in Threads |-> "none"]

\* t may be let in with mode m: a writer alone, a reader beside readers.
Compatible(t, m) ==
    \A u \in Threads \ {t} :
        /\ holding[u] # "write"
        /\ m = "write" => holding[u] = "none"

Acquire(t, m) ==
    /\ holding[t] = "none"
    /\ Compatible(t, m)
    /\ holding' = [holding EXCEPT ![t] = m]

\* The threads of S leave together: one that finished its body, or all those
\* of a process that died.
Release(S) ==
    holding' = [t \in Threads |-> IF t \in S THEN "none" ELSE holding[t]]

RWNext ==
    \/ \E t \in Threads, m \in Modes : Acquire(t, m)
    \/ \E S \in SUBSET Threads : Release(S)

RWSpec == RWInit /\ [][RWNext]_holding
=============================================================================
