SPECIFICATION MCSpec
CONSTANTS
    StoreKeys <- MCKeys
    Txs = {"t1", "t2", "t3", "t4"}
    Program <- MCProgram
    Initially <- MCInitially
    BallotIndices = {16, 17}
    VoteIDs = {101, 102, 103}
    CensusEntries <- MCCensus
    Messages = {1, 2}
    VotesPerBatch = 2
    BlobCells = 16
    MaxBatches = 2
    Modulus = 17
    NativeModulus = 13
    RootOfUnity = 3
    RootExponent = 4
    DomainBits = 2
    OmegaHex <- MCOmega
    CellValues = {0, 1, 5, 12}
    Order = 13
    Fields = 2
    PrivateKeys = {1, 5}
    VoteValues = {0, 1, 3}
    Nonces = {2, 9}
    MaxTally = 2
    Participants = {1, 2, 3}
    Threshold = 2
    Coefficients = {0, 3}
    Corruptions = {0, 1}
INVARIANTS
    ResultsAreTheTally
    HonestBatchIsProvable
    BlobsRebuildTheTree
    
    TallyDecrypts
    ThresholdDecrypts

    
CHECK_DEADLOCK FALSE
