CONSTANTS
    Samples     = {1, 3, 8}
    LongestRtt  = 8
    InitRtt     = 2
    MaxRtt      = 6
    InitRto     = 4
    Second      = 4
    IntMax      = 99
    Late        = 1
    MaxRto      = 16
SPECIFICATION Spec
INVARIANTS BaseIsLeast SmoothedIsBounded DeadlinesAreNoticed
CHECK_DEADLOCK FALSE
