SPECIFICATION MCSpec
CONSTANTS
    NULL = NULL
    ReadSize = 2
    Space = 1
    ReadAmounts = {0, 2}
    WriteAmounts = {3}
    MaxIn = 3
    MaxOut = 3
    Block = {1, 2}
    Torn = 3
    None = 0
INVARIANTS HandlesInv TransfersAreFaithful PollNotLost
PROPERTY HandlesProgress
CHECK_DEADLOCK FALSE
