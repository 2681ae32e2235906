SPECIFICATION Spec
CONSTANTS
    r1 = r1
    r2 = r2
    i1 = i1
    i2 = i2
    Rows = {r1, r2}
    Insecure = {r2}
    Instances = {i1, i2}
    Replies = {"ok", "permanent", "retry"}
    MaxAttempts = 3
    Batch = 2
    Concurrency = 1
    Timely = TRUE
    MaxClaims = 8
    MaxFaults = 2
    MaxReplays = 1
    NoInst = NoInst
SYMMETRY InstanceSymmetry
INVARIANTS
    TypeOK
    OneAttemptAtATime
    RetryBudget
PROPERTIES
    KeepsPromise
CHECK_DEADLOCK FALSE
