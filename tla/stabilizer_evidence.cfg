SPECIFICATION Spec
CONSTANTS
    t1 = t1
    t2 = t2
    e1 = e1
    e2 = e2
    i1 = i1
    i2 = i2
    Txns = {t1}
    Instances = {i1, i2}
    Events = {e1}
    TxnOf <- SameTxn
    NoClient = {}
    Answers = {"success", "other_amount", "failed", "FAILED", "pending", "error"}
    N = 2
    Window = 20
    Batch = 10
    MaxPolls = 4
    MaxFaults = 1
    NoInst = NoInst
    NoTxn = NoTxn
SYMMETRY InstanceSymmetry
INVARIANTS
    OneOutcome
    Justified
    PollingBounded
PROPERTIES
    RefinesHoldLifecycle
CHECK_DEADLOCK FALSE
