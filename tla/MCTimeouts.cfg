SPECIFICATION MCSpec
CONSTANTS
    a = a
    b = b
    c = c
    Never = Never
    Timer = {a, b}
    Second = 3
    Delay = {0, 2, 4}
    MaxTime = 6
    Client = {a, b, c}
    MaxStops = 2
INVARIANTS TimeoutInv NoTimeoutMissed WithinASecond HandlerOnce
PROPERTIES TimeoutProgress StopReachesAll
CHECK_DEADLOCK FALSE
