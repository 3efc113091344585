SPECIFICATION DoctorSpec
CONSTANTS
    p1 = p1  A = A  v1 = v1  v2 = v2  d1 = d1  d2 = d2  s = s
    None = None  UserBytes = UserBytes  Dead = Dead
    NumKeys = 2
    Versions = {v1, v2}
    Digests = {d1, d2}
    Products = {A}
    Procs = {p1}
    ProductOf <- OneProduct
    Bundles <- BundlesA
    Legacies <- NoLegacies
    InitialTrees <- EmptyTrees
    EditContents = {UserBytes}
    MaxApplies = 3
    MaxCrashes = 1
    MaxFaults = 0
    MaxEdits = 1
    MaxExpiries = 0
    Subject = A
    Expected = {None, v2}
    Skills = {s}
    SkillOf <- OneSkill
INVARIANTS
    HealthyWasTrue
    SettledIsHealthy
    CompatibleAreIntact
CHECK_DEADLOCK FALSE
