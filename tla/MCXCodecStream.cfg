SPECIFICATION FairSpec
CONSTANTS
    Hash <- MCHash
    Segment <- MCSegment
    HashOf <- MCHashOf
    WINDOW_COUNT = 2
    MaxSent = 3
INVARIANTS StreamIntegrity IInv
PROPERTY EverythingDecoded
CHECK_DEADLOCK FALSE
