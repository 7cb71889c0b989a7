\* Any SDUs but the first of a file may be lost; fairness, full channels.
SPECIFICATION FairSpec
CONSTANTS
    Meta <- Varied
    Streams <- MCStreams
    Cols = 2
    Word = 64
    CtrMod = 16
    MaxRun = 3
    MaxBad = 0
    Losable <- NotFirst
    DecodeFails = FALSE
    BufferSize = 1
    Nil = Nil
INVARIANTS
    TypeOK
    UndisturbedDelivered
PROPERTY
    DeliverySpec
    EventuallyDelivered
CHECK_DEADLOCK FALSE
