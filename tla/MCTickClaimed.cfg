SPECIFICATION TickSpec
CONSTANTS
    j1 = j1
    j2 = j2
    j3 = j3
    wA = wA
    wT = wT
    Jobs = {j1, j2, j3}
    Workers = {wA, wT}
    Tickers = {wT}
    MaxAttempts <- MCMaxAttempts
    PanicPolicy <- MCPanicPolicy
    Decodes <- MCDecodes
INVARIANT
    ClaimedIsReturned
CHECK_DEADLOCK FALSE
