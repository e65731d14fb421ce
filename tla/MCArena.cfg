\* A player with three connections, two at a time, and an enemy.
SPECIFICATION FairSpec
CONSTANTS
    Connections = {c1, c2, c3}
    Players = {p1}
    Enemies = {e1}
    Ids = {i1}
    Nobody = Nobody
    NoBody = NoBody
    NoEntry = NoEntry
    Movers = {p1}
    FullHealth = 2
    MaxHp = 2
    Damage = 1
    AttackDamage = 1
    AbilityDamage = 2
    AttackCooldown = 0
    AbilityCooldown = 0
    EnemyCooldown = 0
    RespawnTime = 2
    Window = 2
    MaxSequence = 3
CONSTRAINT Bounded
INVARIANTS
    ClientsAgree
    LandsOnce
    InputsAhead
    EntitiesLive
PROPERTIES
    
    InputsAreProcessed
CHECK_DEADLOCK FALSE
