SPECIFICATION Spec
CONSTANTS
    t1 = t1
    t2 = t2
    Tickers = {t1, t2}
    Timeframes <- MCTimeframes
    Requests <- TwoTickers
    Lookback <- Lookback4
    ChunkDuration <- Chunks2
    InitialBars <- NothingStored
    InitialNow = 4
    MaxNow = 4
    Deliveries = {"full"}
    Overreach = 1
    Errors = {}
    Faults = {}
    Edits = {}
    MaxRequests = 2
INVARIANT
    DoneMeansFetched
CHECK_DEADLOCK FALSE
