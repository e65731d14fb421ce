\* Two calls, one room, every kind of request, two sessions that end by release or
\* expiry.
SPECIFICATION Spec
CONSTANTS
    c1 = c1  c2 = c2  r1 = r1  r2 = r2
    coin = coin  gem = gem  hand = hand  forage = forage  step = step
    NoItem = NoItem  NoRequest = NoRequest
    Items <- MCItems
    Slots = {hand}
    Quests = {forage}
    Objectives = {step}
    QuestOf <- MCQuestOf
    Required <- MCRequired
    Reward <- MCReward
    Rooms = {r1}
    Calls = {c1, c2}
    Operations = {1, 2}
    Requests <- RulesRequests
    LeaseTTL = 2
    CtxTimeout = 1
    ProgressSchemaVersion = 1
    MaxSessions = 2
SYMMETRY Symmetry
INVARIANTS
    DenseRevisions
    InventoryAccounted
    EquippedIsOwned
PROPERTIES
    ImplementsLedger
