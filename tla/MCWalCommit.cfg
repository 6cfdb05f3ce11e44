SPECIFICATION Spec
CONSTANTS
    Rows <- KeyedRows
    Groups <- AllGroups
    InitPages <- TwoRows
    RowsPerPage = 2
    MaxGroups = 3
    MaxCrashes = 3

    
    
    
PROPERTIES
    LsnNeverBack
