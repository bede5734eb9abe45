SPECIFICATION HistorySpec
CONSTANTS
    MaxRecords = 5
    Times <- MCTimes
    RingCap = 2
    MaxFaults = 3
    Records <- MCRecords
    Malformed = Malformed
    NoTail = NoTail
    NoStore = NoStore
INVARIANTS
    HistoryTypeOK
    LossPotential
    LossBounded
    ReplayIsHonest
    SinceDatesTheTotals
PROPERTY
    ImplementsDurableLog
CHECK_DEADLOCK FALSE
