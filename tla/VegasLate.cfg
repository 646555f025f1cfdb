CONSTANTS
    MaxCwnd     = 8
    NoFinal     = 99
    LastChunk   = 2
    FinalChunk  <- LastOnly
    Begins      <- NoChunkOnly
    RttValues   <- Rtts
    MaxCopies   = 1
    MaxSessions = 2
    MayCancel   = TRUE
    MayRepeat   = FALSE
    MayPause    = FALSE
SPECIFICATION Spec
INVARIANT OutsideWindowIsDropped
CHECK_DEADLOCK FALSE
