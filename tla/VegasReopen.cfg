CONSTANTS
    MaxCwnd     = 4
    NoFinal     = 99
    LastChunk   = 2
    FinalChunk <- Announced
    Begins     <- FromChunk1
    RttValues  <- Rtts
    MaxCopies   = 1
    MaxSessions = 2
    MayCancel   = TRUE
    MayRepeat   = TRUE
    MayPause    = TRUE
SPECIFICATION Spec
INVARIANTS InOrderDelivery
PROPERTIES StreamSpec
CHECK_DEADLOCK FALSE
