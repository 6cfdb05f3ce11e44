SPECIFICATION FairSpec
CONSTANTS
    t1 = t1
    t2 = t2
    Tx <- TwoTx
    Tables <- OneTable
    ValUnique = TRUE
    InitRows <- Keyed
    Plans <- KeyedPlans
    ReadSets <- ReadOne
    DirectOps <- KeyedDirect
    DdlTables <- NoTables
    MaxCsn = 2
INVARIANTS
    CommitAccepted
    UniqueRows
PROPERTIES
    MergeExact
    ImplementsLocks
    LockRequestsReturn
