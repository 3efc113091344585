SPECIFICATION FairSpec
CONSTANTS
    p1 = p1  p2 = p2  p3 = p3
    None = None  Dead = Dead
    Procs = {p1, p2}
    LiveAges = FALSE
    MaxRequests = 2
    MaxTries = 3
    MaxCrashes = 1
    MaxFaults = 2
INVARIANTS
    HolderKeepsRecord
PROPERTIES
    ImplementsLockService
    AcquireReturns
    DeadHolderReaped
CHECK_DEADLOCK FALSE
