SPECIFICATION Spec
CONSTANTS
    Scripts <- MCScripts
    Hdr = 1
    Tag = 1
    HsHdr = 2
    MaxFrag = 2
    ReadSize = 3
    MaxWire = 5
    MaxHs = 9
    TlsLimit = 4
    MaxIov = 2
    SoftLimit = 4
    HardLimit = 5
    MaxArrival = 2
INVARIANTS
    BufferExact
    InOrder
    HonestEnd
    OneEpoch
PROPERTY
    Arrives
