SPECIFICATION Spec
CONSTANTS
    Apps = {a, b}
    Slots = {s1}
    Adders = {rpc}
    Deleters = {}
    Cli = {}
    Ways = {"down", "exe"}
    MayPause = TRUE
    ScanErrors = FALSE
    None = None
    MaxMinutes = 1
    MaxInserts = 1
    MaxRestarts = 0
INVARIANTS
    ScanCoversMap
