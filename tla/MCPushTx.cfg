SPECIFICATION Spec
CONSTANTS
    Queues <- MCQueues
    Items <- MCItems
    Batches <- MCBatches
    MAX_BATCH_SIZE = 3
    MAX_BATCH_BYTES <- TwoPayloads
    MaxCalls = 3
    MaxTxs = 1
INVARIANTS
    CallIsAtomic
    CommitsWithWrite
    ConstraintOnlyFromPast
CHECK_DEADLOCK FALSE
