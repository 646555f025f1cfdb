CONSTANTS
    Senders     = {t1, t2}
    Receivers   = {t2}
    DownMsgs    = {d1, d2, pause}
    UpMsgs      = {u1, u2}
    Control     = {pause, u2}
    Pauses      = {pause}
    SocketSize  = 2
    MayBlock    = TRUE
    NoMsg       = NoMsg
SPECIFICATION FairSpec
INVARIANTS PointersAreAlive OrderKept
PROPERTIES CloseEnds
CHECK_DEADLOCK FALSE
