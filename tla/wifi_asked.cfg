SPECIFICATION Spec
CONSTANTS
    MaxRetry = 5
    MaxCommands = 3
    MaxDrops = 1
    Passwords = {"none", "good"}
INVARIANT ApAsAsked
CHECK_DEADLOCK FALSE
