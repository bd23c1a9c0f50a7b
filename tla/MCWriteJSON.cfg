SPECIFICATION FairStream
CONSTANTS
    MaxInt = 255
    StreamBuf = 20
    MaxNumElem = 6
    MaxReplElem = 8
    dEnd = 40
    Requests <- MCRequests
INVARIANTS ElementsAreRight FitsBuffer ShowsTheNumber
PROPERTIES StreamsTheArray Returns
\* WriteJSON returns.
CHECK_DEADLOCK FALSE
