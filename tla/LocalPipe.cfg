CONSTANTS
    Clients = {c1, c2, c3}
    HeaderSize = 2
    Body <- WithLong
    MaxConn = 2
    MsgLimit = 2
    Delays = {1, 2}
    Buffers = {7}
    MayLose = TRUE
    Reports <- OneEvent
    MayParams = TRUE
    MayStop = TRUE
    MayRestart = FALSE
    Senders = {c1}
    Closers = {c1}
    Opened <- LastIsLast
    MayPause = FALSE
    Graceful = TRUE
    c1 = c1
    c2 = c2
    c3 = c3
SPECIFICATION FairSpec
INVARIANTS FramesAreWhole InOrder CountsAgree HeadIsTimed AbortsHaveCauses
PROPERTIES NothingIsLost StreamsDrain CallsReturn
CHECK_DEADLOCK FALSE
