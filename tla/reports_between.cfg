SPECIFICATION ReportSpec
CONSTANTS
    Names = {a, b}
    Adders = {u}
    Deleters = {}
    Creators = {}
    Activators = {}
    Droppers = {}
    Readers = {r}
    Week = 1
    Month = 2
    DbErrors = FALSE
    FreeKinds = {}
    ReadErrors = TRUE
    None = None
    MaxId = 2
    MaxDay = 4
    MaxEvents = 4
    MaxLength = 0
    MaxCrashes = 1
SYMMETRY Symmetry
CHECK_DEADLOCK FALSE
INVARIANTS
    StatisticsBetween
    CountsBetween
