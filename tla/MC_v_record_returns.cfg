SPECIFICATION Spec
CONSTANTS
    p1 = p1  p2 = p2  p3 = p3
    None = None  Dead = Dead
    Procs = {p1, p2}
    LiveAges = TRUE
    MaxRequests = 3
    MaxTries = 1
    MaxCrashes = 0
    MaxFaults = 0
PROPERTIES
    RefusedStaysRefused
CHECK_DEADLOCK FALSE
