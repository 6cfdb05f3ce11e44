SPECIFICATION Spec
CONSTANTS
    w1 = w1
    w2 = w2
    Rows <- ThreeRows
    Columns <- OneColumn
    Readers = {r1}
    Workers <- TwoWorkers
    MaxCsn = 4
    MaxObjects = 2
    MaxCopies = 2
    MaxCrashes = 0
SYMMETRY Symmetry
INVARIANT
    SnapshotsRetain
