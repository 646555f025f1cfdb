CONSTANTS
    Callers     = {t1, t2}
    Configs     = {a, b}
    Fds         = {f1, f2}
    NoCaller    = NoCaller
    NoConfig    = NoConfig
    NoFd        = NoFd
    RingSize    = 8
    SerialCalls = TRUE
    ReopenDestroyed = FALSE
SPECIFICATION FairSpec
INVARIANTS NoAbort ListMatchesStacks NothingLeft
PROPERTIES OpenIsServed DestroyReturns
CHECK_DEADLOCK FALSE
