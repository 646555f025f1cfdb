CONSTANTS
    Stacks      = {s1, s2}
    Conns       = {c1, c2}
    Fds         = {f1, f2}
    Msgs        = {m1, m2}
    NoStack     = NoStack
    NoConn      = NoConn
    NoFd        = NoFd
    DequeueMax  = 1
    MayBlock    = TRUE
    DecodeFails = FALSE
SPECIFICATION FairSpec
INVARIANTS RefsAreHolders QueueCount OpenIsWired ReadsWhenUnblocked NothingOutlivesStack
PROPERTIES ClosedStaysQuiet PoolSpec ClosedIsFreed
CHECK_DEADLOCK FALSE
