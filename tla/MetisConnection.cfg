CONSTANTS
    Stream     <- Mixed
    HeaderSize  = 2
    DequeMax    = 2
    DequeueMax  = 1
    OutMax      = 0
    SendBuffer  = 1
    MsgSize     = 2
    ErrorEvents <- AnyReport
    MaxDown     = 3
    MayPause    = TRUE
    MayFail     = TRUE
SPECIFICATION FairSpec
INVARIANTS FramingIsKept NothingLostOrReordered
PROPERTIES PacketsGoUp OutputDrains
CHECK_DEADLOCK FALSE
