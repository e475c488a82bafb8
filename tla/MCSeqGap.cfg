SPECIFICATION Spec
CONSTANTS
    r1 = r1
    r2 = r2
    a1 = a1
    a2 = a2
    a3 = a3
    Replica = {r1, r2}
    Base = {a1, a2}
    MaxLevel = 0
    MaxSeq = 2
    MaxOp = 2
    MaxChanges = 2
SYMMETRY Symmetric
INVARIANTS
    NoSeqGap
CHECK_DEADLOCK FALSE
