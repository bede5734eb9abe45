SPECIFICATION Spec
CONSTANTS
    Flows = {f1, f2}
    Zones = {east, west}
    Unknown = Unknown
    east = east
    west = west
    Ends <- MCEnds
    Sizes = {2}
    CostPerGB = 1
    NoSnapshot = NoSnapshot
    MaxEvents = 3
INVARIANTS
    TypeOK
    TableMatchesLog
PROPERTIES
    PublishedIsHandedOver
    FlowsArePublished
CHECK_DEADLOCK FALSE
