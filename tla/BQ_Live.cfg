SPECIFICATION LiveSpec
CONSTANTS
    v1 = v1
    v2 = v2
    v3 = v3
    a1 = a1
    a2 = a2
    Votes <- MCVotes2
    Addresses <- MCAddresses
    AddressOf <- MCAddressOf2
    BatchKeys = {1, 2, 3, 4}
    VotesPerBatch = 2
    RemoteWorkers = FALSE
    MaxSubmits = 1
    ProcessEvents = {}
    AllowResubmit = FALSE
    SlowJobs = FALSE
    AggProofMayFail = FALSE
    MaxRestarts = 1
    TornWrites = TRUE
PROPERTIES
    BallotsResolve
CHECK_DEADLOCK FALSE
