CONSTANTS
    Plans <- MCPlans
    HdrLen = 2
    MaxMsg = 2
    DuplexCap = 2
    MaxDown = 2
CHECK_DEADLOCK FALSE
SPECIFICATION StandaloneFairSpec
INVARIANTS Deframed ResponseExact
PROPERTIES ResetEnds
