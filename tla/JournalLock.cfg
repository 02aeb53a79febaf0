CONSTANTS
    a1 = a1
    a2 = a2
    b1 = b1
    A = A
    B = B
    Threads = {a1, a2, b1}
    Procs = {A, B}
    ProcOf <- MCProcOf
    NoOne = NoOne
    MaxRequests = 2
    MaxCrashes = 1
SPECIFICATION FairSpec
INVARIANTS
    NoLostWakeup
PROPERTIES
    BusyMeansHeld
    ImplementsRWLock
    EveryRequestAnswered
CHECK_DEADLOCK FALSE
