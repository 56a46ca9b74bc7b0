SPECIFICATION FairSpec
CONSTANTS
    Daemons = {d}
    Commands = {c1, c2}
    DbErrors = TRUE
    MaxMishaps = 2
INVARIANTS
    ReadySchema
PROPERTIES
    SomeoneReady
