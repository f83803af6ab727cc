SPECIFICATION MCSpec
CONSTANTS
    v1 = v1
    v2 = v2
    v3 = v3
    a1 = a1
    a2 = a2
    Votes <- MCVotes
    Addresses <- MCAddresses
    AddressOf <- MCAddressOf
    BatchKeys = {1, 2}
    VotesPerBatch = 2
    RemoteWorkers = TRUE
    MaxSubmits = 2
    ProcessEvents = {"pause", "end", "expire", "results"}
    AllowResubmit = TRUE
    SlowJobs = TRUE
    AggProofMayFail = TRUE
    MaxRestarts = 1
    TornWrites = TRUE
INVARIANTS
    TypeOK
    NoLostBallot
    LocksAreQueued
    UniqueAddressPerBatch
PROPERTIES
    DoneIsFinal
CHECK_DEADLOCK FALSE
