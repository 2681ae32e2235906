SPECIFICATION Spec
CONSTANTS
    d1 = d1
    tab1 = tab1
    tab2 = tab2
    Rows = {d1}
    Tabs = {tab1, tab2}
    Landing <- BothOnHealth
    MaxVisits = 1
    MaxClicks = 2
    MaxMoves = 1
    MaxFaults = 1
    NoTab = NoTab
INVARIANTS
    TypeOK
    OneReplayPerExhaustion
    QueuedMeansRequeued
    AllClearWasTrue
    HeadlineMatchesTable
PROPERTIES
    PagesSettle
CHECK_DEADLOCK FALSE
