SPECIFICATION FairSpec
CONSTANTS
    Plans <- MCPlans
    PeekCap = 5
    ReadCap = 2
    RecHdr = 2
    MaxHello = 4
INVARIANTS StreamIntact GenuineClientServed
PROPERTIES Decided
CHECK_DEADLOCK FALSE
