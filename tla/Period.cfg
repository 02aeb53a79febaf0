CONSTANTS
    Sources <- MCSources
    Stages <- MCStages
    Uploads = {u1}
    Unreadable = {}
    Sample = sample
    Nobody = nobody
    Jobs = {j1}
    Auditor = auditor
    MaxCloses = 2
    MaxDeaths = 1
SPECIFICATION FairSpec
CONSTRAINTS
    AuditedApart
    AuditIsLast
    AuditedCalm
    SecondIsCalm
INVARIANTS
    JobTellsTheTruth
    SameRunSameRows
    HoldsOnTheRowsClosed
PROPERTIES
    JobEnds
CHECK_DEADLOCK FALSE
