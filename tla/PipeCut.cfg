CONSTANTS
    Clients = {c1, c2, c3}
    HeaderSize = 1
    Body <- OneUnit
    MaxConn = 2
    MsgLimit = 2
    Delays = {1}
    Buffers = {8}
    MayLose = FALSE
    Reports <- OneEvent
    MayParams = FALSE
    MayStop = FALSE
    MayRestart = FALSE
    Senders = {c1}
    Closers = {c1}
    Opened <- InAnyOrder
    MayPause = FALSE
    Graceful = FALSE
    c1 = c1
    c2 = c2
    c3 = c3
SPECIFICATION Spec
INVARIANTS FramesAreWhole
CHECK_DEADLOCK FALSE
