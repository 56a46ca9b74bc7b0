SPECIFICATION Spec
CONSTANTS
    Watchers = {m}
    EventLoops = {m}
    Broadcasters = {b}
    Starters = {m}
    Sessions = {s}
    Connections = {c, s}
    Callers = {s}
    None = None
INVARIANTS
    NoCircularWait
