SPECIFICATION MCSpec
CONSTANTS
    MaxBytes = 3
    Chains <- MCChains
    a = a
    b = b
    c = c
    Conn = {a, b, c}
    None = None
INVARIANTS ProxyInv SpliceInOrder EndIsLast GoneIsQuiet ServedAsAsked
PROPERTIES StreamEnds ProxyProgress
CHECK_DEADLOCK FALSE
