SPECIFICATION RetrySpec
CONSTANTS
    DurationMax = 1073741823
    FloatExact = 134217728
    FloatUlp = 1024
    FloatMax = 2147483647
    I32Max = 50
    U32Max = 101
    AvailableParallelism = 4
    Knobs <- SlowKnobs
    Limits <- MCLimits
    MaxCalls = 3
    Overrides = {0, 99, 1500, 86400001}
INVARIANT
    OverrideIsClamped
CHECK_DEADLOCK FALSE
