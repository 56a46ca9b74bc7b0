SPECIFICATION Spec
CONSTANTS
    Names = {a}
    Adders = {u}
    Deleters = {y}
    Creators = {v}
    Activators = {v}
    Droppers = {v}
    DbErrors = TRUE
    FreeKinds = {"Launches", "LongestSession"}
    None = None
    MaxId = 2
    MaxDay = 2
    MaxEvents = 4
    MaxLength = 1
    MaxCrashes = 1
CHECK_DEADLOCK FALSE
INVARIANTS
    TypeOK
    OneRowPerDay
