SPECIFICATION FairSpec
CONSTANTS
    r1 = r1
    r2 = r2
    i1 = i1
    i2 = i2
    Rows = {r1, r2}
    Insecure = {r2}
    Instances = {i1, i2}
    Replies = {"ok", "permanent", "retry"}
    MaxAttempts = 2
    Batch = 1
    Concurrency = 1
    Timely = TRUE
    MaxClaims = 5
    MaxFaults = 1
    MaxReplays = 1
    NoInst = NoInst
PROPERTIES
    EveryCallbackSettled
CHECK_DEADLOCK FALSE
