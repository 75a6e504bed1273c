CONSTANTS
    Interval <- Cadences
    Cap = 4
    StartDelay = 2
    Broken = Broken
    Missing = Missing
    Default = 3
SPECIFICATION FairSystem
INVARIANT TypeOK
INVARIANT NotedIsLoaded
PROPERTY ShorteningTakesEffect
PROPERTY DisabledStaysOff
PROPERTY KeepsRunning
PROPERTY StopEnds
PROPERTY EditTakesEffect
CHECK_DEADLOCK FALSE
