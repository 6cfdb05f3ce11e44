SPECIFICATION Spec
CONSTANTS
    Order = 4
    TableRows <- SharedRows
    DeleteLists <- SharedDeletes
    Rewrites <- SharedRewrites
    PageSize = 12
    RowSize = 2
    ReopenSparse = FALSE
    MaxCalls = 5
INVARIANTS
    LookupAgrees
