SPECIFICATION Spec
CONSTANTS
    wanted = wanted  other = other  x = x  y = y  z = z  w = w  big = big
    Dir = Dir  Unfit = Unfit  None = None  Wanted = wanted
    Releases <- MCReleases
    Uploads <- MCUploads
    SourceOf <- MCSourceOf
    SizeOf <- MCSizeOf
    LengthOf <- MCLengthOf
    MaxMetadata = 3
    MaxBundle = 8
    MaxTotal = 7
    MaxEntries = 5
    Rank <- MCRank
    Queries <- MCQueries
    MaxUploads = 1
    MaxFaults = 1
INVARIANTS
    OneBuild
    AcceptedIsExact
    ExtractionContained
    NoFalseReject
    SearchIgnoresOrder
    SuggestKeepsBest
CHECK_DEADLOCK FALSE
