SPECIFICATION Spec
CONSTANTS
    DAY = 24
    Timeframes = {"15m"}
    Skews = {0}
    Gaps = {24}
    MaxDownloads = 2
INVARIANT WindowAskedWhole
CHECK_DEADLOCK FALSE
