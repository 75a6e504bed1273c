CONSTANTS
    Unknown = Unknown
    single = single  pack = pack  full = full  now = now
    NoRow = NoRow  NoRelease = NoRelease  NoWant = NoWant
    Row = {d1, d2, d3}
    Release = {single, pack}
    Want <- Wants
    Span <- SeasonSpan
    Kind <- SeasonKind
    Title = {"show"}
    Searcher = {full, now}
    Button = {now}
    Reach <- Everything
    Indexer = {"a", "b"}
    Origin <- Trackers
    Size <- Sizes
    Policy <- DefaultPolicy
    AirOrder <- NewestFirst
    Limit = 1
    Concurrency = 1
    MaxActs = 1
SPECIFICATION FairSpec
INVARIANT TypeOK
INVARIANT GrabbedHasRow
INVARIANT OneRowPerRelease
INVARIANT DeniedStaysOut
PROPERTY NothingLeftOut
PROPERTY TurnComes
CHECK_DEADLOCK FALSE
