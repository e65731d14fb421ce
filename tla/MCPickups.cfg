SPECIFICATION Spec
CONSTANTS
    Players = {p1, p2}
    Connections = {k1, k2}
    NoConnection = NoConnection
    Entities = {e1, e2}
    NoEntity = NoEntity
    Requests = {r1}
    ReuseRequests = FALSE
    Calls = {c1, c2}
    NoAnswer = NoAnswer
    MaxRevision = 2
SYMMETRY Symmetry
CONSTRAINT DoubtAtRest
INVARIANTS
    GrantedOnce
    AvailableIsFree
    ConsumedIsGranted
    NotBeforeLogin
PROPERTY
    ItemsLeaveWithRevision
CHECK_DEADLOCK FALSE
