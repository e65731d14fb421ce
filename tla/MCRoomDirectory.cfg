\* A room of two seats and one of one, two players, two calls at a time, which may wait
\* for each other's locks.
SPECIFICATION FairSpec
CONSTANTS
    p1 = p1  p2 = p2  c1 = c1  c2 = c2
    Nobody = Nobody
    Rooms = {1, 2}
    Players = {p1, p2}
    Calls = {c1, c2}
    Capacity <- MCCapacity
    FreshFor = 1
    CtxTimeout = 1
    MaxGeneration = 1
PROPERTIES
    EveryCallEnds
    SeatsInLiveRooms
    ImplementsSeatBook
INVARIANTS
    SeatsCounted
    OneSeat
