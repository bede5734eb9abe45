CONSTANTS
    Modes = {"screen", "log"}
SPECIFICATION Spec
INVARIANTS
    DashboardIsUp
CHECK_DEADLOCK FALSE
