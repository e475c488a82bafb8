SPECIFICATION FairSpec
CONSTANTS
    p1 = p1
    p2 = p2
    a = a
    b = b
    c = c
    d = d
    Peer = {p1, p2}
    Hash = {a, b, c}
    Deps <- ChainDeps
    Local <- ChainLocal
    FalsePositive = {a, c}
    OutOfOrder = FALSE
    MayLoseData = FALSE
    MaxWire = 1
    MaxReconnect = 0
INVARIANTS
    TypeOK
    SentIsNotLost
    SharedHeadsAreShared
    SilentOnlyWhenEqual
PROPERTIES
    EventuallySilent
    ImplementsExchange
CHECK_DEADLOCK FALSE
