SPECIFICATION FairSpec
CONSTANTS
    None = None
    NCalls = 2
    CallDay <- MCCallDay
    LastDay = 3
    Batch = 2
    MaxCrashes = 1
INVARIANTS
    MarksMatchStatus
PROPERTIES
    WorkIsKept
    BacklogClears
CHECK_DEADLOCK FALSE
