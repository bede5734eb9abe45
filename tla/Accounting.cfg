SPECIFICATION Spec
CONSTANTS
    Flows = {f1, f2}
    Zones = {east, west}
    Unknown = Unknown
    Sizes = {1}
    CostPerGB = 3
    NoSnapshot = NoSnapshot
    east = east
    west = west
    Ends <- MCEnds
    MaxConnects = 1
    MaxTime = 3
    MaxBytes = 1
    Times <- MCTimes
    Records <- MCRecords
    RingCap = 1
    MaxFaults = 1
    Malformed = Malformed
    NoTail = NoTail
    NoStore = NoStore
INVARIANTS
    TypeOK
    Conservation
    RestoredTotals
PROPERTY
    ImplementsHistory
CHECK_DEADLOCK FALSE
