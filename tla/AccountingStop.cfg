SPECIFICATION Spec
CONSTANTS
    Flows = {f1}
    Zones = {east, west}
    Unknown = Unknown
    Sizes = {1}
    CostPerGB = 3
    NoSnapshot = NoSnapshot
    east = east
    west = west
    Ends <- MCEnds
    MaxConnects = 1
    MaxTime = 2
    MaxBytes = 1
    Times <- MCTimes
    Records <- MCRecords
    RingCap = 1
    MaxFaults = 0
    Malformed = Malformed
    NoTail = NoTail
    NoStore = NoStore
PROPERTY
    StopLosesNothing
CHECK_DEADLOCK FALSE
