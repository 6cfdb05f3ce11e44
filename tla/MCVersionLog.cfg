SPECIFICATION Spec
CONSTANTS
    Readers = {r1}
    Values = {"a", "b"}
    Catalogs <- TwoTables
    Legacy <- OldFormat
    MaxCommits = 3
    MaxFaults = 2
INVARIANTS
    OpenAccepted
    FilesHoldVersion
    ReadersSeeCommit
    RedoAccepted
