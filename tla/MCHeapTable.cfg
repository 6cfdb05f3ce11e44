SPECIFICATION Spec
CONSTANTS
    Order = 3
    TableRows <- DistinctRows
    DeleteLists <- DistinctDeletes
    Rewrites <- DistinctRewrites
    PageSize = 7
    RowSize = 2
    ReopenSparse = FALSE
    MaxCalls = 6
INVARIANTS
    LookupAgrees
    RangeAgrees
    IdsUnique
    ShardsAgree
