SPECIFICATION FairSpec
CONSTANTS
    i1 = i1
    i2 = i2
    Items = {i1, i2}
    Configs <- MCConfigs
    Defaults = {i1}
    MaxEdits = 2
    MaxExits = 1
INVARIANTS
    TypeOK
    ChangesAddUp
    MemoryIsCurrent
PROPERTIES
    EditTakesEffect
\* A node whose configuration does not parse cannot start again: it stops for good.
CHECK_DEADLOCK FALSE
