SPECIFICATION Spec
CONSTANTS
    r1 = r1
    r2 = r2
    i1 = i1
    i2 = i2
    Rows = {r1}
    Insecure = {}
    Instances = {i1, i2}
    Replies = {"ok", "permanent", "retry"}
    MaxAttempts = 2
    Batch = 1
    Concurrency = 1
    Timely = FALSE
    MaxClaims = 3
    MaxFaults = 0
    MaxReplays = 0
    NoInst = NoInst
SYMMETRY InstanceSymmetry
PROPERTIES
    DeliveredIsFinal
CHECK_DEADLOCK FALSE
