\* Two rooms, two pickups, sessions that end by expiry: a room that crashed or lost
\* its lease, and the one that takes over.
SPECIFICATION ExpirySpec
CONSTANTS
    c1 = c1  c2 = c2  r1 = r1  r2 = r2
    coin = coin  gem = gem  hand = hand  forage = forage  step = step
    NoItem = NoItem  NoRequest = NoRequest
    Items <- MCItems
    Slots = {hand}
    Quests = {}
    Objectives = {}
    QuestOf <- NoCatalog
    Required <- NoCatalog
    Reward <- NoCatalog
    Rooms = {r1, r2}
    Calls = {c1, c2}
    Operations = {1, 2}
    Requests <- PickupRequests
    LeaseTTL = 2
    CtxTimeout = 1
    ProgressSchemaVersion = 2
    MaxSessions = 2
SYMMETRY CallsAndRooms
INVARIANT
    SessionsDoNotInterleave
PROPERTIES
    StaleTokenRejected
    NewerDataUntouched
