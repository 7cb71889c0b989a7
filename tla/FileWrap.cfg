\* An image whose SDUs in one frame straddle a wrap of the counter.
SPECIFICATION Spec
CONSTANTS
    Meta <- WrapPicture
    Streams <- MCStreams
    Cols = 2
    Word = 64
    CtrMod = 8
    MaxRun = 3
    MaxBad = 0
    Losable = {}
    DecodeFails = FALSE
    BufferSize = 1
    Nil = Nil
INVARIANT GapOnlyIfMissing
CHECK_DEADLOCK FALSE
