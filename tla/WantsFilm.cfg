CONSTANTS
    Unknown = Unknown
    Show = {"show"}
    Film = {"film"}
    Home = {}
    Sync = "sync"
    Want <- Wants4
    Entry <- Entries
    Lists <- FirstLists
    Listing <- Listings
    Air <- Dates
    Stock <- Shelves
    Policies <- Modes
    Concurrency = 1
    MaxActs = 1
SPECIFICATION Spec
PROPERTY PresentFilmStoodDown
CHECK_DEADLOCK FALSE
