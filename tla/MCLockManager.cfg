SPECIFICATION Spec
CONSTANTS
    t1 = t1
    t2 = t2
    t3 = t3
    table = table
    row1 = row1
    row2 = row2
    row3 = row3
    Tx <- ThreeTx
    Keys <- FourKeys
    Shared <- OneShared
SYMMETRY Symmetry
INVARIANTS
    TypeOK
    LockExclusion
    NoLostWakeup
    Acyclic
