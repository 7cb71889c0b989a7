\* Any registrations, then two calls while two blocks are demodulated.
SPECIFICATION FairSpec
CONSTANTS
    MaxBlocks = 2
    SymbolsPerBlock = 1
    BufferSize = 1
    DoFFT = TRUE
    Nil = Nil
    MaxRegistrations = 3
    MaxCalls = 2
INVARIANTS
    TypeOK
    Wired
    OneSpectrum
    SendPanicOnlyCaught
    CountsSinceReset
PROPERTY
    SpectraInOrder
    SpectraGoOn
CHECK_DEADLOCK FALSE
