SPECIFICATION MCSpec
CONSTANTS
    Ids = {t1, t2}
    BlobIds = {t1}
    MaxNonce = 2
    MaxRetries = 2
    WaitPeriods = 1
    MaxPeriods = 2
    MaxEvictions = 1
    MaxTxRestarts = 1
    MaxLostAnswers = 2
    LaggingNodes = TRUE
    Endpoints = {e1, e2, e3}
    Callers = {c1, c2}
    MaxCalls = 1
    MaxFlaky = 1
    MinGas = 2
    MaxGas = 20
    SafetyBps = 1000
    Fallback = 8
    Precision = 2
    Estimators = {g1, g2}
    Needs = {5, 13, 21}
    Floors = {0, 9}
INVARIANTS
    OkMeansExecuted
    CallMinedOnce
    IndexValid
    
    EstimateSuffices
CHECK_DEADLOCK FALSE
