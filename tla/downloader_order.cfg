SPECIFICATION FairSpec
CONSTANTS
    t1 = t1
    t2 = t2
    Tickers = {t1, t2}
    Timeframes <- MCTimeframes
    Requests <- MixedRequests
    Lookback <- Lookback4
    ChunkDuration <- Chunks2
    InitialBars <- NothingStored
    InitialNow = 4
    MaxNow = 4
    Deliveries = {"full"}
    Overreach = 1
    Errors = {"NO_DATA", "PACING", "NO_PERMISSIONS"}
    Faults = {"link", "write"}
    Edits = {"stop"}
    MaxRequests = 3
INVARIANTS
    RequestsConserved
    SettledInOrder
    ApiOvertakenAtMostTwice
PROPERTIES
    ImplementsWorkQueue
    EveryStepIsProgress
    EveryRequestSettles
    StopTakesEffect
CHECK_DEADLOCK FALSE
