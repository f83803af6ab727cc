SPECIFICATION LiveSpec
CONSTANTS
    v1 = v1
    v2 = v2
    v3 = v3
    Votes <- MCVotes
    BatchSizes = {1}
    MaxAttempts = 2
    MaxRoots = 4
    MaxTxs = 4
    MaxRestarts = 1
    MaxRedeliveries = 0
    ProofMayFail = FALSE
    SendMayFail = FALSE
    WaitMayFail = FALSE
    SlowTxs = FALSE
    BlobMayFail = FALSE
    OtherSequencers = FALSE
    MayClose = FALSE
PROPERTIES
    PendingMarkReleased
CHECK_DEADLOCK FALSE
