SPECIFICATION Spec
CONSTANTS
    Names = {a}
    Adders = {u, x}
    Deleters = {}
    Creators = {v}
    Activators = {w}
    Droppers = {}
    DbErrors = TRUE
    FreeKinds = {"Launches", "LongestSession"}
    None = None
    MaxId = 2
    MaxDay = 1
    MaxEvents = 3
    MaxLength = 1
    MaxCrashes = 1
CHECK_DEADLOCK FALSE
INVARIANTS
    CheckpointWithinApp
    OneActivePerApp
