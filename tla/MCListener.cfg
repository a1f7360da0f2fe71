CONSTANTS
    a = a
    b = b
    Inbounds = {a, b}
    Clients <- MCClients
    InboundOf <- MCInboundOf
    MaxConnections = 2
    Backlog = 2
    FdLimit = 3
    Xhttp = {b}
    MaxSessions = 2
    Held = {1}
SPECIFICATION ListenerFairSpec
INVARIANTS PermitsConserved
PROPERTIES Served
CHECK_DEADLOCK FALSE
