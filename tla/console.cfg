SPECIFICATION Spec
CONSTANTS
    MaxBytes = 6
    Patterns = {2}
    MaxWaits = 2
    MayFail = TRUE
INVARIANTS TypeOK NoSilentLoss CleanEnd NoLostWakeup
PROPERTIES MatchSeen ImplementsConsole
CHECK_DEADLOCK FALSE
