CONSTANTS
    MaxCwnd     = 4
    NoFinal     = 99
    LastChunk   = 6
    FinalChunk  <- LastOnly
    Begins      <- NoChunkOnly
    RttValues   <- FastRtt
    MaxCopies   = 1
    MaxSessions = 1
    MayCancel   = FALSE
    MayRepeat   = FALSE
    MayPause    = FALSE
SPECIFICATION Spec
INVARIANT TailAlwaysFree
CHECK_DEADLOCK FALSE
