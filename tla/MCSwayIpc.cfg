CONSTANTS
    Messages <- MCMessages
    Junk <- MCJunk
    HeaderSize = 3
    SizeAt = 2
    TypeAt = 3
    SizeMax = 7
    Requests <- MCRequests
    OpenMayFail = TRUE
    AllocMayFail = TRUE
    SendMayFail = TRUE
    RecvMayFail = TRUE
    MaxMessages = 3
SPECIFICATION FairSpec
CHECK_DEADLOCK FALSE
INVARIANTS
    TypeOK
    FramingIsExact
    RequestsAreWhole
PROPERTIES
    ReturnsTheStream
    EveryMessageArrives
    EveryRequestArrives
