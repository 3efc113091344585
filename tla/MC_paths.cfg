SPECIFICATION Spec
CONSTANTS
    None = None  UserBytes = UserBytes
    Runtimes = {1, 2}
    Places = {1, 2, 3, 4}
    Homes <- MCHomes
    Allowed = {1, 2, 3}
    Digests = {d1, d2}
    MaxPlans = 3
    MaxLinks = 2
    MaxEdits = 1
INVARIANTS
    ReviewedPlacesOnly
    ClaimsHold
CHECK_DEADLOCK FALSE
