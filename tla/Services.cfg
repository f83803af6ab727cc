SPECIFICATION MCSpec
CONSTANTS
    w1 = w1
    w2 = w2
    Workers = {w1, w2}
    Ballots = {b1, b2}
    FailuresToGetBanned = 1
    MaxRequests = 1
    MaxJobs <- MCMaxJobs
    Shutdown = TRUE
    Requests = {"r1", "r2"}
    Wants <- MCWants
    Downloaders = {d1}
    Attempts = 2
    QueueCap = 1
    MaxEventsOnchain = 2
    MaxImportErrors = 2
INVARIANTS
    JobsAccounted
    OkMeansStored
PROPERTIES
    JobsResolve
    RequestsAnswered
CHECK_DEADLOCK FALSE
