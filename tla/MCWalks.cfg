SPECIFICATION WalkSpec
CONSTANTS
    r1 = r1
    r2 = r2
    a1 = a1
    a2 = a2
    a3 = a3
    Replica = {r1, r2}
    Base = {a1, a2, a3}
    MaxLevel = 0
    MaxSeq = 2
    MaxOp = 3
    MaxChanges = 3
SYMMETRY Symmetric
INVARIANTS
    MergeCollects
PROPERTIES
    ImplementsDocument
CHECK_DEADLOCK FALSE
