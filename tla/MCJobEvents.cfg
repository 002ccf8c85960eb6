SPECIFICATION FairEventSpec
CONSTANTS
    j1 = j1
    wC = wC
    wA = wA
    wB = wB
    Jobs = {j1}
    Workers = {wA, wB, wC}
    MaxAttempts <- MCMaxAttempts
    PanicPolicy <- MCPanicPolicy
    Decodes <- MCDecodes
INVARIANTS
    StatusInvariants
    CopyIsCurrent
    RetryBudget
    DoneByLastAttempt
    SoleHolder
    IInv
    EventsTrue
    StatsTrue
PROPERTIES
    TerminalIsFinal
    RefinesLifecycle
    EveryJobSettles
CHECK_DEADLOCK FALSE
