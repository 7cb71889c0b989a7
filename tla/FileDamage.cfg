\* Any SDUs may be lost, bad SDUs with any header appear, the counter wraps.
SPECIFICATION Spec
CONSTANTS
    Meta <- Trio
    Streams <- MCStreams
    Cols = 2
    Word = 64
    CtrMod = 4
    MaxRun = 4
    MaxBad = 1
    Losable <- AnySDU
    DecodeFails = TRUE
    BufferSize = 1
    Nil = Nil
INVARIANT UndisturbedDelivered
CHECK_DEADLOCK FALSE
