CONSTANTS
    Interval <- Cadences
    Cap = 4
    StartDelay = 2
    Broken = Broken
    Missing = Missing
    Default = 3
SPECIFICATION System
INVARIANT AskedIsAwake
CHECK_DEADLOCK FALSE
