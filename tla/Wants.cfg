CONSTANTS
    Unknown = Unknown
    Show = {"show"}
    Film = {"film"}
    Home = {}
    Sync = "sync"
    Want <- Wants4
    Entry <- Entries
    Lists <- FirstLists
    Listing <- Listings
    Air <- Dates
    Stock <- Shelves
    Policies <- Modes
    Concurrency = 1
    MaxActs = 1
SPECIFICATION MCSpec
INVARIANT TypeOK
PROPERTY ProgressKept
PROPERTY ListTidies
PROPERTY WaitingComesOut
CHECK_DEADLOCK FALSE
