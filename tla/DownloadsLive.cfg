CONSTANTS
    single = single  pack = pack
    e1 = e1  e2 = e2
    NoRow = NoRow  NoRelease = NoRelease  NoWant = NoWant
    Row = {d1, d2}
    Release = {single}
    Want = {e1}
    Span <- OneSpan
    Kind <- OneKind
    Pass = {"task"}
    MaxActive = 1
    MaxActs = 2
SPECIFICATION FairSpec
PROPERTY InFlightSettles
PROPERTY QueuedIsServed
CHECK_DEADLOCK FALSE
