SPECIFICATION Spec
CONSTANTS
    MaxSessions = 3
    MaxEntries = 2
    ShowReport = TRUE
    AllocMayFail = FALSE
    WaitIsEnough = FALSE
INVARIANT OwnEstimate
