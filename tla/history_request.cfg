SPECIFICATION Spec
CONSTANTS
    DAY = 24
    Timeframes <- MCTimeframes
    Skews <- MCSkews
    Gaps <- MCGaps
    MaxDownloads = 3
INVARIANTS
    TypeOK
    LossIsBounded
    DailyLosesNothing
\* The downloads are over when their number is.
CHECK_DEADLOCK FALSE
