CONSTANTS
    Senders     = {t1}
    Receivers   = {t1, t2}
    DownMsgs    = {d1}
    UpMsgs      = {u1, u2}
    Control     = {}
    Pauses      = {}
    SocketSize  = 2
    MayBlock    = FALSE
    NoMsg       = NoMsg
SPECIFICATION Spec
INVARIANT RecvDoesNotWait
CHECK_DEADLOCK FALSE
