------------------------------ MODULE MCPeriod ------------------------------
\* A bank statement and a settlement report, in the order they are ingested.
EXTENDS Period

MCSources == <<"bank", "settlement">>

\* `match` stands for all that is decided from the rows: block, match, verify, post.
MCStages == <<"ingest", "match", "record">>

\* Bound: the audit does not overlap a close.  The one takes its record at its
\* first step and the other never looks at the audit, so no order of their steps
\* tells either anything.
Ended(t) == pc[t] \in {"off", "over"}
AuditedApart == Ended(Auditor) \/ \A j \in Jobs : Ended(j)
\* Bound: nothing follows an audit, whose verdict no later step reads; and no audit is
\* followed that HoldsOnTheRowsClosed says nothing of.
AuditIsLast == pc[Auditor] = "over" => verdict.of = {}
AuditedCalm == Auditor \notin disturbed /\ \A r \in verdict.of : r.calm

\* Bound: the last close follows one that sealed a record, and it is not followed when
\* SameRunSameRows says nothing of the pair.  The first close meets everything.
SecondIsCalm == closes = MaxCloses /\ MaxCloses > 1 =>
    sealed # {} /\ disturbed = {} /\ \A r \in sealed : r.calm
=============================================================================
