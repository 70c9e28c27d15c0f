SPECIFICATION Spec
CONSTANTS
    t1 = t1
    t2 = t2
    Tickers = {t1, t2}
    Timeframes <- MCTimeframes
    Requests <- MixedRequests
    Lookback <- Lookback4
    ChunkDuration <- Chunks2
    InitialBars <- NothingStored
    InitialNow = 4
    MaxNow = 6
    Deliveries = {"long", "full", "short", "empty"}
    Overreach = 1
    Errors = {"QUALIFY_FAILED", "PACING", "UNKNOWN"}
    Faults = {"link", "write"}
    Edits = {"unblacklist", "map", "break"}
    MaxRequests = 2
INVARIANTS
    TypeOK
    RepeatsOnlyAtJoints
    HolesHaveACause
PROPERTIES
    SettledForGood
    FailureSticks
    ImplementsTickerLists
CHECK_DEADLOCK FALSE
