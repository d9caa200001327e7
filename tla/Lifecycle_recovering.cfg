CONSTANTS
    MaxAttempts = 3
    InboxCap = 2
    Pids = {1, 2}
    MaxCmds = 1
SPECIFICATION Spec
PROPERTY RecoveryEnds
CHECK_DEADLOCK FALSE
