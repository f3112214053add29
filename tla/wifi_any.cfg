SPECIFICATION Spec
CONSTANTS
    MaxRetry = 5
    MaxCommands = 4
    MaxDrops = 1
    Passwords = {"none", "short", "good"}
INVARIANTS TypeOK ApConfigurable RetryBudget NoStaleBit NotGivenUp LeaveObeyed
PROPERTY RetriesEnd
CHECK_DEADLOCK FALSE
