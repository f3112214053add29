SPECIFICATION Spec
CONSTANTS
    MaxSessions = 3
    MaxEntries = 2
    ShowReport = TRUE
    AllocMayFail = TRUE
    WaitIsEnough = TRUE
INVARIANT ReportReleased
