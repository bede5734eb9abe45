SPECIFICATION MCSpec
CONSTANTS
    Flows = {f1}
    Zones = {east, west}
    Unknown = Unknown
    Sizes = {1}
    CostPerGB = 1
    NoSnapshot = NoSnapshot
    east = east
    west = west
    Ends <- MCCrossing
    MaxConnects = 0
    MaxTime = 3
    MaxBytes = 1
    Times <- MCTimes
    Records <- MCRecords
    RingCap = 1
    MaxFaults = 0
    Malformed = Malformed
    NoTail = NoTail
    NoStore = NoStore
    MaxFetching = 2
    NoAnswer = NoAnswer
    NoPage = NoPage
INVARIANTS
    DashboardTypeOK
    ServedTogether
PROPERTIES
    PageMovesForward
    PageCatchesUp
CHECK_DEADLOCK FALSE
