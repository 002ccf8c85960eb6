SPECIFICATION Spec
CONSTANTS
    Lease = 2
    RetryDelay = 1
    MaxAttempts = 2
    Schedules <- MCSchedules
    StmtMax = 2
    MaxStmts = 3
    Horizon = 7
INVARIANTS
    OnlyPushIsRejected
PROPERTIES
    AttemptsAdvance
CHECK_DEADLOCK FALSE
