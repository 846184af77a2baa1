SPECIFICATION MCSpec
CONSTANTS
    Bufs = 2
    Word <- MCLongWord
    SegSize = 2
    MaxLen <- MCLongMaxLen
    MaxSegs = 3
    AnyCut = TRUE
    AnyTrim = FALSE
    Reference = {r1, r2, r3}
INVARIANT BuffersKeepTheirBytes
CHECK_DEADLOCK FALSE
