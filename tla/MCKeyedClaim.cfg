SPECIFICATION FairSpec
CONSTANTS
    a1 = a1
    a2 = a2
    n1 = n1
    A = A
    B = B
    NoKey = NoKey
    Jobs = {a1, a2, n1}
    Id <- MCId
    KeyOf <- MCKeyOf
    Limit <- MCLimit
    Concurrency = 2
    BatchSize = 2
    MaxAttempts = 2
    RunAts = {1, 2}
    MaxForeign = 1
INVARIANTS
    KeyLimitHolds
    SelectsGreedily
PROPERTY
    OthersProgress
CHECK_DEADLOCK FALSE
