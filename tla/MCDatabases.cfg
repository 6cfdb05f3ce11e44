SPECIFICATION FairSpec
CONSTANTS
    Names <- TwoNames
    Clients = {c1, c2}
    MaxRequests = 4
    MaxBirths = 4
    MaxFaults = 1
INVARIANTS
    TypeOK
    IdsNeverReused
    AckedStay
    RunsOnBound
PROPERTIES
    RequestsEnd
CHECK_DEADLOCK FALSE
