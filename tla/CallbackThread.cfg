SPECIFICATION FairSpec
CONSTANTS
    NULL = NULL
    Object = {x1, x2, x3}
    Callback = {p1, p2, p3, p4}
    MaxSchedules = 5
INVARIANTS ThreadInv NoLostWakeup
PROPERTIES ExitLosesNothing ThreadProgress
CHECK_DEADLOCK FALSE
