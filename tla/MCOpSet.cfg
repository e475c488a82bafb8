CONSTANTS
    r1 = r1
    r2 = r2
    Replica = {r1, r2}
    Own <- MCOwn
    Objects = {"map", "list"}
    Scalar = {1}
    Inserted = {"set"}
    MaxOps = 4
    Isolation = TRUE
    MixedIncrements = FALSE
SPECIFICATION Spec
INVARIANTS
    TypeOK
    Converges
    LoadRebuilds
    InTreeOrder
    CursorsReturn
    CursorsStay
PROPERTIES
    EditsShow
    PatchesSuffice
CHECK_DEADLOCK FALSE
