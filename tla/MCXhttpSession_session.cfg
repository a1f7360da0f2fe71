SPECIFICATION FairSpec
CONSTANTS
    g1 = g1
    g2 = g2
    p1 = p1
    p2 = p2
    k1 = k1
    Gets = {g1}
    Posts = {p1, p2}
    Paths = {k1}
    PathOf <- SharedPath
    NoGet = NoGet
    MaxPolls = 1
    MaxChunks = 1
    MaxDown = 1
    DuplexCap = 1
INVARIANTS SequentialPosts NoSilentLoss
PROPERTIES ResetReleased
CHECK_DEADLOCK FALSE
