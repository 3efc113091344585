SPECIFICATION FairSpec
CONSTANTS
    old = old  new = new
    None = None  Partial = Partial  User = User  NoTree = NoTree  NoFile = NoFile
    Values <- Journals
    Contents = {old, new}
    Files = {1, 2, 3}
    Origins <- MCOrigins
    Results <- MCResults
    MaxFaults = 2
    MaxCrashes = 2
    MaxEdits = 1
INVARIANTS
    OriginalInOnePlace
    RolledBackIsWhole
    CommittedIsWhole
PROPERTIES
    UserFilesKept
    ContentReplacedWhole
    MoveEnds
CHECK_DEADLOCK FALSE
