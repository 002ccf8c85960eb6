SPECIFICATION RetrySpec
CONSTANTS
    DurationMax = 1073741823
    FloatExact = 134217728
    FloatUlp = 1024
    FloatMax = 2147483647
    I32Max = 50
    U32Max = 101
    AvailableParallelism = 4
    Knobs <- MCKnobs
    Limits <- MCLimits
    MaxCalls = 1
    Overrides = {0, 99, 1500, 86400001}
INVARIANT
    MarkDefaultFits
CHECK_DEADLOCK FALSE
