CONSTANTS
    Modes = {"screen", "log"}
SPECIFICATION Spec
INVARIANTS
    ReporterNeverBlocks
    ScreenFollowsSetup
    MainOutlivesStart
PROPERTIES
    SignalsEndIt
    FailuresEndIt
CHECK_DEADLOCK FALSE
