CONSTANTS
    Stacks      = {s1}
    Conns       = {c1}
    Fds         = {f1}
    Msgs        = {m1}
    NoStack     = NoStack
    NoConn      = NoConn
    NoFd        = NoFd
    DequeueMax  = 1
    MayBlock    = FALSE
    DecodeFails = TRUE
SPECIFICATION Spec
INVARIANTS NothingOutlivesStack
CHECK_DEADLOCK FALSE
