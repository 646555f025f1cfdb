CONSTANTS
    Callers     = {t1, t2}
    Configs     = {a}
    Fds         = {f1, f2}
    NoCaller    = NoCaller
    NoConfig    = NoConfig
    NoFd        = NoFd
    RingSize    = 6
    SerialCalls = FALSE
    ReopenDestroyed = FALSE
SPECIFICATION Spec
INVARIANTS NoAbort
CHECK_DEADLOCK FALSE
