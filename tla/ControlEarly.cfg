CONSTANTS
    Conns = {c1, c2}
    Setup <- TwoSetups
    Requests <- AllRequests
    Menu <- FewMenus
    MaxRequests = 2
    Fd <- Descriptors
    Interfaces <- TwoInterfaces
    Connections <- TwoConnections
    Patient <- Nobody
    c1 = c1
    c2 = c2
SPECIFICATION FairSpec
PROPERTIES Answered
CHECK_DEADLOCK FALSE
