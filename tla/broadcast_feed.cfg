SPECIFICATION Spec
CONSTANTS
    Clients = {c, d}
    Publishers = {p}
    Topics = {tracking_status, apps}
    TrackingStatus = tracking_status
    None = None
    MaxUpdates = 2
    MaxRequests = 1
SYMMETRY ClientSymmetry
CHECK_DEADLOCK FALSE
INVARIANTS
    TypeOK
    LiveStaysRegistered
PROPERTIES
    FeedKept
