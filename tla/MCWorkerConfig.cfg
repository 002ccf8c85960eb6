SPECIFICATION ConfigSpec
CONSTANTS
    DurationMax = 1073741823
    FloatExact = 134217728
    FloatUlp = 1024
    FloatMax = 2147483647
    I32Max = 50
    U32Max = 101
    AvailableParallelism = 4
    Knobs <- MCKnobs
    Limits <- MCLimits
    MaxCalls = 3
    Overrides = {0, 99, 1500, 86400001}
    Rows = {r1, r2}
    Builders <- MCBuilders
    Step = 500
    Latency = 500
    ClaimWindow = 1000
    ReaperBatch = 1
SYMMETRY RowSymmetry
INVARIANTS
    OverrideIsClamped
    PolicyDelayWithinCap
    LeaseCoversAttempt
    StaleBound
PROPERTY
    NeverSooner
