SPECIFICATION FairSpec
CONSTANTS
    t1 = t1
    t2 = t2
    e1 = e1
    e2 = e2
    i1 = i1
    i2 = i2
    Txns = {t1, t2}
    Instances = {i1}
    Events = {e1, e2}
    TxnOf <- OwnTxn
    NoClient = {t2}
    Answers = {"success", "error"}
    N = 2
    Window = 2
    Batch = 1
    MaxPolls = 4
    MaxFaults = 1
    NoInst = NoInst
    NoTxn = NoTxn
PROPERTIES
    EveryHoldResolved
    PollingEnds
CHECK_DEADLOCK FALSE
