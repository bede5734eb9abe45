SPECIFICATION HistorySpec
CONSTANTS
    MaxRecords = 3
    Times <- MCTimes
    RingCap = 2
    MaxFaults = 1
    Records <- MCRecords
    Malformed = Malformed
    NoTail = NoTail
    NoStore = NoStore
INVARIANT
    CompleteWritesSurvive
CHECK_DEADLOCK FALSE
