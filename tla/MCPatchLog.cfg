SPECIFICATION Spec
CONSTANTS
    ActorId = {1, 2, 3, 4, 5}
    Own <- MCOwn
    Peer = {1, 3}
    MaxSeq = 2
    MaxChanges = 2
    DiffIsolated = FALSE
CHECK_DEADLOCK FALSE
INVARIANT NeverMismatched
