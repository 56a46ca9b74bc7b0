SPECIFICATION Spec
CONSTANTS
    Apps = {a}
    Slots = {s1}
    Adders = {rpc, hook}
    Deleters = {}
    Cli = {}
    Ways = {"down", "exe"}
    MayPause = TRUE
    ScanErrors = FALSE
    None = None
    MaxMinutes = 1
    MaxInserts = 2
    MaxRestarts = 0
INVARIANTS
    NoDuplicateRows
