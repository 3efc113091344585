SPECIFICATION FairSpec
CONSTANTS
    p1 = p1  p2 = p2  p3 = p3
    None = None  Dead = Dead
    Procs = {p1, p2}
    LiveAges = FALSE
    MaxRequests = 2
    MaxTries = 1
    MaxCrashes = 1
    MaxFaults = 0
PROPERTIES
    AbandonedLockReaped
CHECK_DEADLOCK FALSE
