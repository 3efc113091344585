SPECIFICATION Spec
CONSTANTS
    p1 = p1  p2 = p2  p3 = p3
    None = None  Dead = Dead
    Procs = {p1, p2}
    LiveAges = TRUE
    MaxRequests = 4
    MaxTries = 1
    MaxCrashes = 1
    MaxFaults = 1
PROPERTIES
    LossIsFinal
CHECK_DEADLOCK FALSE
