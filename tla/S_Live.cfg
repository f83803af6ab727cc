SPECIFICATION LiveSpec
CONSTANTS
    v1 = v1
    v2 = v2
    v3 = v3
    Votes <- MCVotes
    BatchSizes = {1}
    MaxAttempts = 2
    MaxRoots = 5
    MaxTxs = 5
    MaxRestarts = 0
    MaxRedeliveries = 1
    ProofMayFail = FALSE
    SendMayFail = FALSE
    WaitMayFail = TRUE
    SlowTxs = FALSE
    BlobMayFail = FALSE
    OtherSequencers = FALSE
    MayClose = FALSE
PROPERTIES
    PendingMarkReleased
    ProcessedResolves
CHECK_DEADLOCK FALSE
