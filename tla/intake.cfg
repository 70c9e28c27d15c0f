SPECIFICATION FairSpec
CONSTANTS
    t1 = t1
    t2 = t2
    Tickers = {t1, t2}
    Timeframes <- MCTimeframes
    Files = {1, 2}
    InitialMaps <- OneMapped
    ApiAsks <- OneTicker
    Edits = {"delete", "map", "unblacklist", "break"}
    MaxEdits = 2
    MaxExits = 1
INVARIANTS
    TypeOK
    WishIsTracked
PROPERTIES
    WishIsTaken
    RefusalSticks
    ImplementsTickerLists
