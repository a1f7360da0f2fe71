CONSTANTS
    Requests = {r1, r2, r3, r4}
SPECIFICATION H2FairSpec
PROPERTIES WatchdogSpares ClosesAfterPeer
CHECK_DEADLOCK FALSE
