SPECIFICATION Spec
CONSTANTS
    tab1 = tab1
    PlainKeys <- OneNumber
    NumberKeys <- OneNumber
    Texts <- TypedTexts
    Stripped <- TwoIsQuoted
    Number <- OnlyDigits
    Default <- NumbersSet
    ValidKeys = {0, 1}
    Environ <- DatabaseSet
    FirstLines <- AllZero
    Tabs = {tab1}
    Landing <- OneOnConfig
    MaxTyped = 1
    MaxPosts = 3
    MaxTroubles = 1
    NoTab = NoTab
INVARIANTS
    TypeOK
    NewSecretAccepted
    AtMostOneOpen
    ActiveShownIsTrue
    SaveWritesOnlyEdits
    RestartPossible
PROPERTIES
    AcceptedUntilWindowEnds
    SavedSurvivesRestart
CHECK_DEADLOCK FALSE
