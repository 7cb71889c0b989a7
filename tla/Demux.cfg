\* Any frames may be lost, and one may arrive damaged; 4-octet zones, 2-octet headers.
SPECIFICATION Spec
CONSTANTS
    ZoneLen = 4
    HdrLen = 2
    NoHeader = 5
    CounterMod = 3
    LenMod = 9
    MaxFrame = 3
    MaxGarbled = 1
    Repeats = FALSE
    Sizes = {3, 5, 10}
    Nil = Nil
    Layouts <- MCLayouts
INVARIANTS
    TypeOK
    AlignedScan
    PartialHasFrame
    NothingElseLost
    OneSplicePerGap
PROPERTIES
    GapReported
    StreamSpec
CHECK_DEADLOCK FALSE
