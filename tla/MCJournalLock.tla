---------------------------- MODULE MCJournalLock ----------------------------
(* An instance of JournalLock for TLC: process A serves two threads and      *)
(* process B one.                                                            *)
EXTENDS JournalLock

CONSTANTS a1, a2, b1, A, B

MCProcOf == [t \in Threads |-> IF t = b1 THEN B ELSE A]
=============================================================================
