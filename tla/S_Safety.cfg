SPECIFICATION MCSpec
CONSTANTS
    v1 = v1
    v2 = v2
    v3 = v3
    Votes <- MCVotes3
    BatchSizes = {1}
    MaxAttempts = 2
    MaxRoots = 4
    MaxTxs = 4
    MaxRestarts = 1
    MaxRedeliveries = 1
    ProofMayFail = TRUE
    SendMayFail = TRUE
    WaitMayFail = TRUE
    SlowTxs = TRUE
    BlobMayFail = TRUE
    OtherSequencers = TRUE
    MayClose = TRUE
INVARIANTS
    DoneIsOnChain
    CountedOnce
    OneTransition
    CountedIsNotFailed
    InFlightIsMarked
PROPERTIES
    LossesAreKnown
    VotesAreOnTheLedger
CHECK_DEADLOCK FALSE
