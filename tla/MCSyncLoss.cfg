SPECIFICATION FairSpec
CONSTANTS
    p1 = p1
    p2 = p2
    a = a
    b = b
    c = c
    d = d
    Peer = {p1, p2}
    Hash = {a, b, c}
    Deps <- ChainDeps
    Local <- SplitLocal
    FalsePositive = {}
    OutOfOrder = FALSE
    MayLoseData = TRUE
    MaxWire = 2
    MaxReconnect = 1
INVARIANTS
    SentIsNotLost
    SilentOnlyWhenEqual
PROPERTIES
    EventuallySilent
CHECK_DEADLOCK FALSE
