CONSTANTS
    MaxAttempts = 3
    InboxCap = 2
    Pids = {1, 2}
    MaxCmds = 3
SPECIFICATION Spec
INVARIANTS
    TypeOK
    OneOwnedProcess
    StatusHonest
    GivesUp
    NothingLeftBehind
PROPERTIES
    NoUnwantedStart
    CrashIsHealed
    CommandsAnswered
    BackoffResolves
    ShutdownCompletes
CHECK_DEADLOCK FALSE
