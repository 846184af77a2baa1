SPECIFICATION MCSpec
CONSTANTS
    SEGMENT_LENGTH = 2
    SUM_MOD = 16
    BITS_SHIFT = 2
    BYTES_SHIFT = 2
    MIX_SHIFT = 4
    HASH_MOD = 5
    WINDOW_COUNT = 1
    Byte = {0, 1, 2}
    MAGIC = 1
    MaxInput = 5
    MaxCalls = 2
    Hash <- MCHash
    Segment <- MCSegment
INVARIANTS CodecsInv DecodedAsSent
PROPERTY MonitorProgress
CHECK_DEADLOCK FALSE
