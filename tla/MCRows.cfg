CONSTANTS
    r1 = r1
    r2 = r2
    Replica = {r1, r2}
    Own <- MCOwn
    Objects = {"list"}
    Scalar = {1}
    Inserted = {"set"}
    MaxOps = 4
    Isolation = FALSE
    MixedIncrements = FALSE
SPECIFICATION Spec
INVARIANTS
    ChangesComeBack
CHECK_DEADLOCK FALSE
