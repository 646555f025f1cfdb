CONSTANTS
    MaxCwnd     = 8
    NoFinal     = 99
    LastChunk   = 3
    FinalChunk  <- Extended
    Begins      <- NoChunkOnly
    RttValues   <- Rtts
    MaxCopies   = 1
    MaxSessions = 1
    MayCancel   = FALSE
    MayRepeat   = FALSE
    MayPause    = FALSE
SPECIFICATION Spec
INVARIANT FinishedMeansComplete
CHECK_DEADLOCK FALSE
