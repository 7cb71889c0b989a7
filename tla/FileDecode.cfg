\* A compressed image with a row that does not decode.
SPECIFICATION Spec
CONSTANTS
    Meta <- PackedPicture
    Streams <- MCStreams
    Cols = 2
    Word = 64
    CtrMod = 16
    MaxRun = 3
    MaxBad = 0
    Losable = {}
    DecodeFails = TRUE
    BufferSize = 1
    Nil = Nil
INVARIANT NoCompressedRows
CHECK_DEADLOCK FALSE
