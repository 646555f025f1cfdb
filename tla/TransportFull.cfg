CONSTANTS
    Callers     = {t1}
    Configs     = {a}
    Fds         = {f1}
    NoCaller    = NoCaller
    NoConfig    = NoConfig
    NoFd        = NoFd
    RingSize    = 1
    SerialCalls = TRUE
    ReopenDestroyed = FALSE
SPECIFICATION Spec
INVARIANTS NoAbort
CHECK_DEADLOCK FALSE
