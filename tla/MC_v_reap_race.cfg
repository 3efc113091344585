SPECIFICATION Spec
CONSTANTS
    p1 = p1  p2 = p2  p3 = p3
    None = None  Dead = Dead
    Procs = {p1, p2, p3}
    LiveAges = FALSE
    MaxRequests = 3
    MaxTries = 1
    MaxCrashes = 1
    MaxFaults = 0
PROPERTIES
    LiveLockKept
CHECK_DEADLOCK FALSE
