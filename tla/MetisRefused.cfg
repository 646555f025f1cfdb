CONSTANTS
    Stream     <- OnePacket
    HeaderSize  = 2
    DequeMax    = 2
    DequeueMax  = 1
    OutMax      = 0
    SendBuffer  = 2
    MsgSize     = 3
    ErrorEvents <- WriteReport
    MaxDown     = 2
    MayPause    = FALSE
    MayFail     = TRUE
SPECIFICATION Spec
INVARIANT RefusalIsReported
CHECK_DEADLOCK FALSE
