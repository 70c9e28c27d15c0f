SPECIFICATION Spec
CONSTANTS
    MaxSlot = 7
    MaxSize = 4
    MaxLookback = 9
INVARIANTS
    TypeOK
    NewestFirstNoOverlap
    CoversHistory
    ReturnsThePlan
CHECK_DEADLOCK FALSE
