\* Any start, channels that are full, and one flush, with or without the Reset behind it.
SPECIFICATION FairSpec
CONSTANTS
    FrameLen = 3
    SyncLen = 2
    ShortLen = 3
    MaxRecheck = 3
    SymbolBuffer = 3
    FrameBuffer = 1
    LastSymbol = 13
    MaxFaults = 0
    MaxFlushes = 1
    Nil = Nil
INVARIANT Resynchronises
PROPERTY SymbolsDrained
CHECK_DEADLOCK FALSE
