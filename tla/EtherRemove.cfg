CONSTANTS
    Conns = {c1, c2}
    Setup <- TwoSetups
    Requests <- AllRequests
    Menu <- EtherMenus
    MaxRequests = 2
    Fd <- Descriptors
    Interfaces <- TwoInterfaces
    Connections <- TwoConnections
    Patient <- Metis
    c1 = c1
    c2 = c2
SPECIFICATION Spec
INVARIANTS DecodesAsBuilt
CHECK_DEADLOCK FALSE
