SPECIFICATION Spec
CONSTANTS
    Plans <- MCPlans
    RecordLen = 2
    DefaultSkip = 3
    MaxEarly = 2
    MaxData = 1
INVARIANTS
    OnlyJustifiedFailure
    Agreement
    DataExact
    ResumesWhenPossible
    NoStall
