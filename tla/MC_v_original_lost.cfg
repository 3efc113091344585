SPECIFICATION Spec
CONSTANTS
    p1 = p1  p2 = p2  A = A  B = B  v1 = v1  v2 = v2  d1 = d1  d2 = d2
    None = None  UserBytes = UserBytes  Dead = Dead
    NumKeys = 2
    Versions = {v1, v2}
    Digests = {d1, d2}
    Products = {A}
    Procs = {p1, p2}
    ProductOf <- OneProduct
    Bundles <- BundlesA
    Legacies <- NoLegacies
    InitialTrees <- LegacyTree
    EditContents = {UserBytes}
    MaxApplies = 2
    MaxCrashes = 1
    MaxFaults = 0
    MaxEdits = 0
    MaxExpiries = 0
INVARIANTS
    OriginalsKept
CHECK_DEADLOCK FALSE
