\* Two texts on two APIDs.
SPECIFICATION Spec
CONSTANTS
    Meta <- Texts
    Streams <- MCStreams
    Cols = 4
    Word = 64
    ZoneLen = 16
    HdrLen = 1
    StripLen = 1
    HeadLen = 1
    CrcLen = 1
    Nil = Nil
INVARIANT CRCMatches
CHECK_DEADLOCK FALSE
