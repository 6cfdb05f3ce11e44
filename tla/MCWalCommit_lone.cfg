SPECIFICATION Spec
CONSTANTS
    Rows <- AllRows
    Groups <- TwoInserts
    InitPages <- OneRow
    RowsPerPage = 2
    MaxGroups = 1
    MaxCrashes = 1
INVARIANTS
    NeverHalf
