SPECIFICATION Spec
CONSTANTS
    w1 = w1
    w2 = w2
    Rows <- ThreeRows
    Columns <- OneColumn
    Readers = {r1}
    Workers <- TwoWorkers
    MaxCsn = 4
    MaxObjects = 2
    MaxCopies = 2
    MaxCrashes = 1
SYMMETRY Symmetry
INVARIANTS
    RowsOnDisk
    IndexesFit
    RetiredAreDead
    SnapshotsKeepFiles
    TargetThere
