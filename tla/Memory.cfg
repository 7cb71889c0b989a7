\* A text, a single packet and a packed image; three to five frames.
SPECIFICATION Spec
CONSTANTS
    Meta <- Neighbours
    Streams <- MCStreams
    Cols = 6
    Word = 64
    ZoneLen = 14
    HdrLen = 1
    StripLen = 1
    HeadLen = 1
    CrcLen = 1
    Nil = Nil
INVARIANTS
    TypeOK
    SpoiltOnlyInTheWay
CHECK_DEADLOCK FALSE
