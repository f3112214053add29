SPECIFICATION BenchSpec
CONSTANTS
    MaxSessions = 3
    MaxEntries = 1
    ShowReport = TRUE
    AllocMayFail = TRUE
    WaitIsEnough = FALSE
    Expected = 3
INVARIANTS BenchTypeOK VerdictIsEarned GivesUpOnlyOnSilence PassedIsOwn Lockstep
CHECK_DEADLOCK FALSE
