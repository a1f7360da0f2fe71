SPECIFICATION FairSpec
CONSTANTS
    Conns = {c1}
    MaxData = 2
    SockCap = 1
INVARIANTS EndsHonestly
PROPERTIES RelayIsPipe RelayEnds
CHECK_DEADLOCK FALSE
