CONSTANTS
    MaxCwnd     = 8
    NoFinal     = 99
    LastChunk   = 4
    FinalChunk <- LastOnly
    Begins     <- NoChunkOnly
    RttValues  <- Rtts
    MaxCopies   = 2
    MaxSessions = 1
    MayCancel   = FALSE
    MayRepeat   = FALSE
    MayPause    = FALSE
SPECIFICATION FairSpec
INVARIANTS WindowConsistent NoTrap NothingHeldBack
PROPERTIES SessionFinishes
CHECK_DEADLOCK FALSE
