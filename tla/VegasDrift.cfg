CONSTANTS
    Samples     = {64}
    LongestRtt  = 64
    InitRtt     = 16
    MaxRtt      = 640
    InitRto     = 160
    Second      = 160
    IntMax      = 999
    Late        = 0
    MaxRto      = 320
SPECIFICATION Spec
INVARIANTS SmoothedIsAMean
CHECK_DEADLOCK FALSE
