SPECIFICATION FairSpec
CONSTANTS
    p1 = p1
    p2 = p2
    a = a
    b = b
    c = c
    d = d
    Peer = {p1, p2}
    Hash = {a, b, c, d}
    Deps <- IslandDeps
    Local <- OrphanLocal
    FalsePositive = {}
    OutOfOrder = TRUE
    MayLoseData = FALSE
    MaxWire = 1
    MaxReconnect = 0
INVARIANTS
    SilentOnlyWhenEqual
CHECK_DEADLOCK FALSE
