\* Every kind of header; SDUs that end anywhere; bursts of up to 16 bits.
SPECIFICATION Spec
CONSTANTS
    Files <- MCFiles
    Bursts <- MCBursts
    Fragile <- MCFragile
    Word = 100000
    StripLen = 10
    Nil = Nil
INVARIANTS
    AcceptedIffUndamaged
    HeadersAsSent
    PanicsOnlyIf
    RefusedOnlyIf
    ReadBack
CHECK_DEADLOCK FALSE
