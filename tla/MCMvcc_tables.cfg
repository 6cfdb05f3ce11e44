SPECIFICATION Spec
CONSTANTS
    t1 = t1
    t2 = t2
    Tx <- TwoTx
    Tables <- TwoTables
    ValUnique = FALSE
    InitRows <- Pair
    Plans <- PairPlans
    ReadSets <- ReadEither
    DirectOps <- NoOps
    DdlTables <- SecondTable
    MaxCsn = 2
SYMMETRY TxSymmetry
INVARIANTS
    SnapshotStable
    HeapPublished
PROPERTIES
    MergeExact
    SerializableReads
