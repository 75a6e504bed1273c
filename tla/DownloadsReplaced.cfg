CONSTANTS
    single = single  pack = pack
    e1 = e1  e2 = e2
    NoRow = NoRow  NoRelease = NoRelease  NoWant = NoWant
    Row = {d1, d2}
    Release = {single, pack}
    Want = {e1, e2}
    Span <- SeasonSpan
    Kind <- SeasonKind
    Pass = {"task"}
    MaxActive = 1
    MaxActs = 0
SPECIFICATION Spec
PROPERTY ReplacedNotStarted
SYMMETRY Rows
CHECK_DEADLOCK FALSE
