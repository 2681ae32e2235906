SPECIFICATION Spec
CONSTANTS
    r1 = r1
    r2 = r2
    i1 = i1
    i2 = i2
    Rows = {r1, r2}
    Insecure = {r2}
    Instances = {i1, i2}
    Replies = {"ok", "permanent", "retry"}
    MaxAttempts = 2
    Batch = 2
    Concurrency = 1
    Timely = FALSE
    MaxClaims = 3
    MaxFaults = 1
    MaxReplays = 1
    NoInst = NoInst
SYMMETRY InstanceSymmetry
INVARIANTS
    DeliveredMeansAcked
CHECK_DEADLOCK FALSE
