CONSTANTS
    Modes = {"screen", "log"}
SPECIFICATION Spec
PROPERTIES
    StartupFailureIsShown
CHECK_DEADLOCK FALSE
