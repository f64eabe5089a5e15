SPECIFICATION HttpSpec
CONSTANTS
    NumHdrs = 3
    HdrAt <- MCHdrAt
    PageLen = 9
    SndBuf = 5
    Mss = 2
    MaxRetries = 4
    MaxRequests = 3

INVARIANTS HttpTypeOK InOrderOnce ClosedComplete
PROPERTIES ConnectionEnds
CHECK_DEADLOCK FALSE
