---------------------------- MODULE AtomicRecord ----------------------------
(***************************************************************************)
(* What a reader of a run's decision log may count on: the record changes  *)
(* in one step, from one close's to another's, and a reader takes all of   *)
(* it.  DecisionLog, in which a close deletes the file and writes it again *)
(* event by event, is shown to implement this.                             *)
(***************************************************************************)
CONSTANTS Threads, Logs, NoLog

VARIABLES record, taken     \* taken[t]: what t holds of the record

AInit == record = NoLog /\ taken = [t \in Threads |-> NoLog]

Publish == record' \in Logs /\ UNCHANGED taken

Take(t) == taken' = [taken EXCEPT ![t] = record] /\ UNCHANGED record

Drop(t) == taken' = [taken EXCEPT ![t] = NoLog] /\ UNCHANGED record

ANext == Publish \/ \E t \in Threads : Take(t) \/ Drop(t)

ASpec == AInit /\ [][ANext]_<<record, taken>>
=============================================================================
