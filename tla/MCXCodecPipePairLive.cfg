SPECIFICATION FairSpec
CONSTANTS
    A = A
    B = B
    c1 = c1
    c2 = c2
    Peer <- MCPeer
    Conn <- MCConn
    Hash <- MCHash
    Segment <- MCSegment
    HashOf <- MCHashOf
    Inputs <- MCInputs
    WINDOW_COUNT = 1
    MAX_FRAME = 3
    MaxSend <- MCOneWay
    MaxFaults = 0
PROPERTY DeliveredEventually
CHECK_DEADLOCK FALSE
