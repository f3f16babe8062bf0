SPECIFICATION FairSpec
CONSTANTS
    None = None
    NCalls = 2
    CallDay <- MCCallDay
    LastDay = 2
    Batch = 1
    MaxCrashes = 0
PROPERTIES
    BacklogClearsWhateverIsOn
CHECK_DEADLOCK FALSE
