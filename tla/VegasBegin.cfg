CONSTANTS
    MaxCwnd     = 4
    NoFinal     = 99
    LastChunk   = 2
    FinalChunk <- Announced
    Begins     <- FromChunk1
    RttValues  <- FastRtt
    MaxCopies   = 1
    MaxSessions = 1
    MayCancel   = FALSE
    MayRepeat   = FALSE
    MayPause    = FALSE
SPECIFICATION Spec
INVARIANTS StartsWhereAsked
CHECK_DEADLOCK FALSE
