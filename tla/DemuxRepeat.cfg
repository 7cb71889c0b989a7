\* The link may deliver a frame twice.
SPECIFICATION Spec
CONSTANTS
    ZoneLen = 4
    HdrLen = 2
    NoHeader = 5
    CounterMod = 3
    LenMod = 9
    MaxFrame = 2
    MaxGarbled = 0
    Repeats = TRUE
    Sizes = {3, 5}
    Nil = Nil
    Layouts <- MCLayouts
PROPERTY DuplicateReported
CHECK_DEADLOCK FALSE
