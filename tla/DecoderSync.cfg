\* Any start, and one fault: a symbol damaged, or a run of symbols lost.
SPECIFICATION Spec
CONSTANTS
    FrameLen = 4
    SyncLen = 2
    ShortLen = 3
    MaxRecheck = 3
    SymbolBuffer = 4
    FrameBuffer = 1
    LastSymbol = 23
    MaxFaults = 1
    MaxFlushes = 0
    Nil = Nil
INVARIANTS
    TypeOK
    Resynchronises
PROPERTY LinkSpec
CHECK_DEADLOCK FALSE
