SPECIFICATION Spec
CONSTANTS
    g1 = g1
    g2 = g2
    p1 = p1
    p2 = p2
    k1 = k1
    Gets = {g1, g2}
    Posts = {p1}
    Paths = {k1}
    PathOf <- SharedPath
    NoGet = NoGet
    MaxPolls = 2
    MaxChunks = 2
    MaxDown = 0
    DuplexCap = 1
INVARIANTS SessionOwnerLive LiveGetReachable UploadPrefix
CHECK_DEADLOCK FALSE
