SPECIFICATION LifeSpec
CONSTANTS
    MaxEvents = 3
    OwnerKinds = {"status", "root", "voters", "census"}
    MaxPastBlocks = 1
    MaxFaults = 1
    MaxNodeRestarts = 1
    BlobRuntime = FALSE
    MaxUploadRetries = 1
    MaxFinalizers = 2
INVARIANTS
    RecordIsNeverAhead
    
PROPERTIES
    
    OverIsEnded
    EndedGetsResults
CHECK_DEADLOCK FALSE
