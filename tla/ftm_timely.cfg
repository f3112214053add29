SPECIFICATION Spec
CONSTANTS
    MaxSessions = 3
    MaxEntries = 2
    ShowReport = TRUE
    AllocMayFail = FALSE
    WaitIsEnough = TRUE
INVARIANTS TypeOK OwnEstimate RowsInBuffer ReportReleased
PROPERTY Implements
