CONSTANTS
    Senders     = {t1}
    Receivers   = {t2}
    DownMsgs    = {d1}
    UpMsgs      = {}
    Control     = {}
    Pauses      = {}
    SocketSize  = 2
    MayBlock    = FALSE
    NoMsg       = NoMsg
SPECIFICATION Spec
INVARIANT NothingLeaks
CHECK_DEADLOCK FALSE
