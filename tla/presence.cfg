SPECIFICATION FairPresenceSpec
CONSTANTS
    Clients = {c}
    Publishers = {p, q}
    Topics = {tracking_status}
    TrackingStatus = tracking_status
    None = None
    MaxUpdates = 4
    MaxRequests = 1
CHECK_DEADLOCK FALSE
INVARIANTS
    InSessionOrder
PROPERTIES
    EndedIsTold
