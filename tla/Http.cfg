CONSTANTS
    Caller = {c1, c2, c3}
    Task = {c1}
    NoCaller = NoCaller
    Threshold = 2
    Attempts = 2
    Capacity = 2
    Cost = 2
    Window = 1
SPECIFICATION FairSpec
INVARIANT TypeOK
INVARIANT TripsAtThreshold
INVARIANT BudgetKept
INVARIANT DeadServiceSpared
INVARIANT LockPassedOn
PROPERTY EveryoneServed
PROPERTY Recovers
