SPECIFICATION MCSpec
CONSTANTS
    StatBallots = {"b1", "b2"}
    StatProcesses = {"p1"}
    StatProcess <- MCProcessOf
    MaxHolders = 1
    MaxTries = 2
    MaxPushes = 1
    MaxBatchPushes = 2
    MaxStatCrashes = 1
    CrashPushes = 1
    WorkingIDs = {w1}
    Roots = {1, 2}
    Addresses = {a1}
    MaxRoot = 2
    UpdateCap = 1
    MaxCensusRestarts = 0
    Streamed = TRUE
    Loaders = {"l1", "l2"}
    MaxFetches = 4
    MaxLoaderCrashes = 1
INVARIANTS
    CountersCoverQueues
    
    
    LoadedIsExpected
CHECK_DEADLOCK FALSE
