SPECIFICATION FairSpec
CONSTANTS
    Apps = {a, b}
    Slots = {s1}
    Adders = {rpc}
    Deleters = {rpc}
    Cli = {}
    Ways = {"down", "alias"}
    MayPause = TRUE
    ScanErrors = FALSE
    None = None
    MaxMinutes = 0
    MaxInserts = 1
    MaxRestarts = 0
CHECK_DEADLOCK FALSE
INVARIANTS
    StatusHasSession
PROPERTIES
    PoisonedEndsDaemon
    MinutesFlow
    SessionEnds
    StatusClears
