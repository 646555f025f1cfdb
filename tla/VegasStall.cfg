CONSTANTS
    MaxCwnd     = 8
    NoFinal     = 99
    LastChunk   = 2
    FinalChunk  <- Announced
    Begins      <- NoChunkOnly
    RttValues   <- Rtts
    MaxCopies   = 1
    MaxSessions = 1
    MayCancel   = FALSE
    MayRepeat   = FALSE
    MayPause    = FALSE
SPECIFICATION Spec
INVARIANT RtoFindsSegment
CHECK_DEADLOCK FALSE
