SPECIFICATION Spec
CONSTANTS
    r1 = r1
    r2 = r2
    a1 = a1
    a2 = a2
    a3 = a3
    Replica = {r1, r2}
    Base = {a1, a2, a3}
    MaxLevel = 1
    MaxSeq = 2
    MaxOp = 3
    MaxChanges = 3
SYMMETRY Symmetric
INVARIANTS
    TypeOK
    CausallyClosed
    QueueWaits
    HeadsExact
    HeadsDetermineGraph
    MissingDepsSuffice
    NoSeqGapInOrder
    OrderedButForEmpty
    GetHashesExact
    OpCounterExact
    OpIdsUnique
PROPERTIES
    ChangesImmutable
    LoadRestores
    TransfersComplete
CHECK_DEADLOCK FALSE
