SPECIFICATION Spec
CONSTANTS
    Apps = {a}
    Slots = {s1, s2}
    Adders = {rpc, cli}
    Deleters = {rpc}
    Cli = {cli}
    Ways = {"down", "exe", "alias"}
    MayPause = TRUE
    ScanErrors = TRUE
    None = None
    MaxMinutes = 2
    MaxInserts = 2
    MaxRestarts = 1
SYMMETRY SlotSymmetry
INVARIANTS
    TypeOK
    SessionBudget
    PauseLag
    LongestWithinMinutes
    WatchedIsStored
