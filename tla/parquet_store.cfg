SPECIFICATION FairSpec
CONSTANTS
    t1 = t1
    t2 = t2
    Tickers = {t1, t2}
    Timeframes <- MCTimeframes
    Series <- TwoFiles
    Slot = {1, 2}
    InitialBars <- OldSlot
    Faults = {"write", "unlink", "nodata"}
    MaxExits = 2
    MaxDamage = 2
INVARIANTS TypeOK CheckedAtStart OwedIsTracked
PROPERTIES ImplementsBarStore CorruptIsAskedFor
