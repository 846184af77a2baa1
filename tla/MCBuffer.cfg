SPECIFICATION MCSpec
CONSTANTS
    Bufs = 2
    Word <- MCWord
    SegSize = 3
    MaxLen <- MCMaxLen
    MaxSegs = 2
    AnyCut = FALSE
    AnyTrim = FALSE
    Reference = {r1, r2, r3}
INVARIANTS SegmentsSound BuffersKeepTheirBytes SharedInv
CHECK_DEADLOCK FALSE
