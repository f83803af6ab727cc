SPECIFICATION LiveSpec
CONSTANTS
    v1 = v1
    v2 = v2
    v3 = v3
    a1 = a1
    a2 = a2
    Votes <- MCVotes2
    Addresses <- MCAddresses
    AddressOf <- MCAddressOf2
    BatchKeys = {1, 2}
    VotesPerBatch = 1
    RemoteWorkers = FALSE
    MaxSubmits = 1
    ProcessEvents = {"end", "expire"}
    AllowResubmit = FALSE
    SlowJobs = FALSE
    AggProofMayFail = FALSE
    MaxRestarts = 0
    TornWrites = FALSE
PROPERTIES
    EndedVotesResolve
CHECK_DEADLOCK FALSE
