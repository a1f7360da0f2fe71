CONSTANTS
    CertListMax = 24
    Samples <- MCSamples
    OtherBytes = {0, 1, 2, 41, 255}
    Trailer <- MCTrailer
    Users <- MCUsers
SPECIFICATION Spec
INVARIANTS RoundTrip BinderCovers ParsersAgree
CHECK_DEADLOCK FALSE
