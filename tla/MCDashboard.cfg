\* The dashboard: two tokens, two sign-ons and two calls at once; two attempts in three ticks.
SPECIFICATION MCSpec
CHECK_DEADLOCK FALSE
CONSTANTS
    Tabs = {"usage", "accounts"}
    Tokens = {t1, t2}
    Flows = {f1, f2}
    Ranges = {day, week}
    Default = day
    MaxCalls = 2
    MaxFailures = 1
    None = None
    Kinds <- MCKinds
    Catalog <- MCCatalog
    Alphabet <- MCAlphabet
    Slots = 1
    RANGES <- MCRanges
    Offset = 1
    Newest = 2
    Start = 10
    MaxTime = 12
    MaxAttempts = 2
INVARIANTS
    TypeOK
    StoredTokenIsCurrent
    LastSignInWins
    TablesCountAttempts
    ChartCountsAttempts
PROPERTIES
    ReportCatchesUp
