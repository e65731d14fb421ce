\* The same with ReleaseSession, which deletes the lease row and restarts
\* the fencing token: a token of an ended session is accepted again.
SPECIFICATION Spec
CONSTANTS
    c1 = c1  c2 = c2  r1 = r1  r2 = r2
    coin = coin  gem = gem  hand = hand  forage = forage  step = step
    NoItem = NoItem  NoRequest = NoRequest
    Items <- MCItems
    Slots = {hand}
    Quests = {}
    Objectives = {}
    QuestOf <- NoCatalog
    Required <- NoCatalog
    Reward <- NoCatalog
    Rooms = {r1}
    Calls = {c1, c2}
    Operations = {1, 2}
    Requests <- PickupRequests
    LeaseTTL = 2
    CtxTimeout = 1
    ProgressSchemaVersion = 1
    MaxSessions = 2

PROPERTIES
    StaleTokenRejected

