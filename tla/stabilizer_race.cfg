SPECIFICATION Spec
CONSTANTS
    t1 = t1
    t2 = t2
    e1 = e1
    e2 = e2
    i1 = i1
    i2 = i2
    Txns = {t1}
    Instances = {i1}
    Events = {e1, e2}
    TxnOf <- SameTxn
    NoClient = {}
    Answers = {"success", "failed", "error"}
    N = 2
    Window = 20
    Batch = 10
    MaxPolls = 4
    MaxFaults = 1
    NoInst = NoInst
    NoTxn = NoTxn
INVARIANTS
    TypeOK
    OneOutcome
    OnlyFaultsStrandPolls
    OneChainPerEvent
PROPERTIES
    RefinesHoldLifecycle
CHECK_DEADLOCK FALSE
