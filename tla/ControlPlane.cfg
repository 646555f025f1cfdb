CONSTANTS
    Conns = {c1, c2}
    Setup <- TwoSetups
    Requests <- AllRequests
    Menu <- Menus
    MaxRequests = 2
    Fd <- Descriptors
    Interfaces <- TwoInterfaces
    Connections <- TwoConnections
    Patient <- Metis
    c1 = c1
    c2 = c2
SPECIFICATION FairSpec
INVARIANTS AnswersMatch OpensAsConfigured
PROPERTIES Answered
CHECK_DEADLOCK FALSE
