SPECIFICATION Spec
CONSTANTS
    t1 = t1
    t2 = t2
    t3 = t3
    anyText = anyText
    oneText = oneText
    Newest <- HoldsNewest
    Matching <- TextMatching
    OldHolds = {t1}
    NoText = anyText
    Outcomes = {"CONFIRMED", "FAILED"}
    Filters = {"all", "CONFIRMED"}
    PageSize = 2
    MaxRequests = 3
    MaxChanges = 1
    MaxTimers = 1
    NoTxn = NoTxn
INVARIANTS
    TypeOK
    TableMatchesControls
    EmptyMeansNone
    DrawerShowsClicked
    TimelineExplainsStatus
    VerdictAgreesWithMismatches
    CopiedIsShown
PROPERTIES
    LoadingEnds
CHECK_DEADLOCK FALSE
