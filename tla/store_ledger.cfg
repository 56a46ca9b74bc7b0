SPECIFICATION FairSpec
CONSTANTS
    Names = {a, b}
    Adders = {u}
    Deleters = {}
    Creators = {}
    Activators = {}
    Droppers = {}
    DbErrors = FALSE
    FreeKinds = {"Launches", "LongestSession"}
    None = None
    MaxId = 4
    MaxDay = 2
    MaxEvents = 4
    MaxLength = 2
    MaxCrashes = 1
CHECK_DEADLOCK FALSE
INVARIANTS
    BooksBalance
PROPERTIES
    LedgerKept
    EventsSettled
