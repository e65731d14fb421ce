------------------------------- MODULE Arena -------------------------------
(* The simulation of one room's GameServer: enemies, attacks, abilities, the  *)
(* health of players and their inputs, and what of all this outlives a        *)
(* connection.                                                                *)
(*                                                                           *)
(* The process has one thread; of these handlers only _authenticate, the end   *)
(* of a grace period and the renewal of an entry in grace wait, and each of    *)
(* their parts is one step; a frame of _physics_process is one step of several *)
(* parts.  Time passes by frames: what the code keeps as the time of the last  *)
(* use is kept here as the frames until the next one.  Positions and velocities *)
(* are left out: whether somebody is in range is open at each step.            *)
(* Connections are never used twice, and the next one is any that was not: all *)
(* are alike.  A client is told things over a reliable, ordered channel.  One  *)
(* pass of the lease timer is in an entry at a time.                           *)
EXTENDS Integers, FiniteSets

CONSTANTS
    Connections, Players, Enemies,
    Ids,              \* identifiers of requests, chosen by clients
    Nobody,           \* no player
    NoBody,           \* no body: the player is still being loaded, or left then
    NoEntry,          \* no entry in disconnected
    Movers,           \* bound: players that send inputs
    FullHealth,       \* a player's max_hp (100)
    MaxHp,            \* an enemy's max_hp
    Damage,           \* an enemy's damage
    AttackDamage,     \* damage of an attack (10)
    AbilityDamage,    \* damage of the ability
    AttackCooldown,   \* frames between attacks of a connection
    AbilityCooldown,  \* frames between uses of the ability by a player
    EnemyCooldown,    \* frames between attacks of an enemy on a connection
    RespawnTime,      \* frames
    Window,           \* inputs accepted ahead (120)
    MaxSequence       \* largest number of an input (2^32 - 1)

ASSUME ArenaAssumption ==
    /\ Nobody \notin Players /\ IsFiniteSet(Enemies) /\ IsFiniteSet(Connections)
    /\ {NoBody, NoEntry} \cap Connections = {} /\ NoBody # NoEntry
    /\ Movers \subseteq Players
    /\ {FullHealth, MaxHp, AttackDamage, AbilityDamage, Window} \subseteq Nat \ {0}
    /\ {Damage, AttackCooldown, AbilityCooldown, EnemyCooldown, RespawnTime,
        MaxSequence} \subseteq Nat

VARIABLES
    used,         \* connections there are or have been
    peers,        \* those whose client is still there
    asking,       \* the player whose lease a connection's _authenticate awaits
    loading,      \* the player whose snapshots it awaits
    conn,         \* identities: the player of each connection
    joined,       \* connections whose peer_connected has run
    token,        \* players whose client has a good reconnect token
    body,         \* the bodies there are, each named by the connection it was made for
    has,          \* player_health and entities: the body of each connection
    saved,        \* disconnected: the body in the entry of each player in grace
    kept,         \* the entry that _renew_sessions has read and may write back
    doomed,       \* bodies whose grace has ended, to be freed after the releases
    freed,        \* bodies whose entity has been freed
    revived,      \* ghost: bodies that a late renewal put back into grace
    enemy,        \* enemies
    attackSeen,   \* attack_seen
    attackWait,   \* frames until attack_last allows the next attack
    abilitySeen,  \* ability_seen
    abilityWait,  \* frames until ability_last allows the next use
    struckWait,   \* the same for enemy_attack_last
    told,         \* what each client has been told of the enemies
    landed        \* ghost: how often each request took effect in this stay

way    == <<used, peers, asking, loading, token>>
bodies == <<has, saved, kept, doomed, freed, revived>>
links  == <<way, conn, joined, bodies>>
claims == <<attackSeen, attackWait, abilitySeen, abilityWait, struckWait>>
vars   == <<links, body, enemy, claims, told, landed>>

(* A body is a health with its revision and an entity with its inputs: both    *)
(* are objects that the entries of the dictionaries refer to.                  *)
Fresh == [hp |-> FullHealth, revision |-> 1, last |-> 0, inputs |-> {}]

Bodies == [hp : 0..FullHealth, revision : Nat, last : 0..MaxSequence,
           inputs : SUBSET (1..MaxSequence)]

Unscathed == [hp |-> MaxHp, revision |-> 1, dead |-> FALSE, wait |-> 0]

(* A client takes an enemy for alive until it is told.                        *)
Unheard == [hp |-> 0, revision |-> 0, dead |-> FALSE]

TypeOK ==
    /\ peers \subseteq used /\ used \subseteq Connections
    /\ joined \subseteq peers /\ token \subseteq Players
    /\ {asking, loading, conn} \subseteq [Connections -> Players \cup {Nobody}]
    /\ body \in [Connections -> Bodies]
    /\ has \in [Connections -> Connections \cup {NoBody}]
    /\ {saved, kept} \subseteq [Players -> Connections \cup {NoBody, NoEntry}]
    /\ doomed \cup freed \cup revived \subseteq Connections
    /\ enemy \in [Enemies -> [hp : 0..MaxHp, revision : Nat, dead : BOOLEAN,
                              wait : 0..RespawnTime]]
    /\ attackSeen \in [Players -> SUBSET Ids]
    /\ attackWait \in [Connections -> 0..AttackCooldown]
    /\ abilitySeen \in [Players -> SUBSET Ids]
    /\ abilityWait \in [Players -> 0..AbilityCooldown]
    /\ struckWait \in [Enemies \X Connections -> 0..EnemyCooldown]
    /\ told \in [Connections -> [Enemies -> [hp : 0..MaxHp, revision : Nat, dead : BOOLEAN]]]
    /\ landed \in [Players \X {"attack", "ability"} \X Ids -> Nat]

Init ==
    /\ used = {} /\ peers = {} /\ joined = {} /\ token = {}
    /\ conn = [c \in Connections |-> Nobody] /\ asking = conn /\ loading = conn
    /\ body = [c \in Connections |-> Fresh]
    /\ has = [c \in Connections |-> NoBody]
    /\ saved = [p \in Players |-> NoEntry] /\ kept = saved
    /\ doomed = {} /\ freed = {} /\ revived = {}
    /\ enemy = [e \in Enemies |-> Unscathed]
    /\ attackSeen = [p \in Players |-> {}]
    /\ attackWait = [c \in Connections |-> 0]
    /\ abilitySeen = [p \in Players |-> {}]
    /\ abilityWait = [p \in Players |-> 0]
    /\ struckWait = [s \in Enemies \X Connections |-> 0]
    /\ told = [c \in Connections |-> [e \in Enemies |-> Unheard]]
    /\ landed = [l \in Players \X {"attack", "ability"} \X Ids |-> 0]
-----------------------------------------------------------------------------
(* What the messages do to a client's view of an enemy.                       *)
HealthChanged(view, hp, revision) == [view EXCEPT !.hp = hp, !.revision = revision]
EntityDied(view, revision) == [view EXCEPT !.hp = 0, !.dead = TRUE, !.revision = revision]
EntitySpawned(view, revision) ==
    [view EXCEPT !.hp = MaxHp, !.dead = FALSE, !.revision = revision]

Present(p) == \E c \in Connections : conn[c] = p

New(c) == c \notin used /\ c = CHOOSE d \in Connections : d \notin used

Comes(c) == New(c) /\ used' = used \cup {c}

(* _authenticate: the room looks whether the player of the ticket is there,    *)
(* then waits for the lease.                                                  *)
Identify(c, p) ==
    /\ Comes(c) /\ ~Present(p)
    /\ peers' = peers \cup {c}
    /\ asking' = [asking EXCEPT ![c] = p]
    /\ UNCHANGED <<loading, token, conn, joined, bodies, body, enemy, claims, told, landed>>

(* The player is in identities from the answer on.  Nobody looks again who     *)
(* else is, or whether the client still is.                                   *)
Acquired(c) ==
    /\ asking[c] # Nobody
    /\ asking' = [asking EXCEPT ![c] = Nobody]
    /\ loading' = [loading EXCEPT ![c] = asking[c]]
    /\ conn' = [conn EXCEPT ![c] = asking[c]]
    /\ UNCHANGED <<used, peers, token, joined, bodies, body, enemy, claims, told, landed>>

(* No lease: there is nothing to remove yet.                                  *)
Refused(c) ==
    /\ asking[c] # Nobody
    /\ asking' = [asking EXCEPT ![c] = Nobody]
    /\ peers' = peers \ {c}
    /\ UNCHANGED <<used, loading, token, conn, joined, bodies, body, enemy, claims, told, landed>>

(* The snapshots are there: the connection gets a body of its own, and a token *)
(* that replaces the player's, which nobody learns if the client has gone.     *)
Embody(c) ==
    LET p == loading[c] IN
    /\ p # Nobody
    /\ loading' = [loading EXCEPT ![c] = Nobody]
    /\ body' = [body EXCEPT ![c] = Fresh]
    /\ has' = [has EXCEPT ![c] = c]
    /\ token' = IF c \in peers THEN token \cup {p} ELSE token \ {p}
    /\ UNCHANGED <<used, peers, asking, conn, joined, saved, kept, doomed, freed, revived, enemy,
                   claims, told, landed>>

CanReconnect(c, p) == Comes(c) /\ ~Present(p) /\ saved[p] # NoEntry /\ p \in token

(* A slip: the player comes back in full health.                              *)
ReconnectRefreshed(c, p) ==
    /\ CanReconnect(c, p)
    /\ peers' = peers \cup {c}
    /\ conn' = [conn EXCEPT ![c] = p]
    /\ has' = [has EXCEPT ![c] = saved[p]]
    /\ body' = [o \in Connections |-> IF o = saved[p] THEN Fresh ELSE body[o]]
    /\ saved' = [saved EXCEPT ![p] = NoEntry]
    /\ UNCHANGED <<asking, loading, token, joined, kept, doomed, freed, revived, enemy, claims,
                   told, landed>>

(* _reconnect: the body comes back out of the entry.                          *)
Reconnect(c, p) ==
    /\ CanReconnect(c, p)
    /\ peers' = peers \cup {c}
    /\ conn' = [conn EXCEPT ![c] = p]
    /\ has' = [has EXCEPT ![c] = saved[p]]
    /\ saved' = [saved EXCEPT ![p] = NoEntry]
    /\ UNCHANGED <<asking, loading, token, joined, kept, doomed, freed, revived, body, enemy,
                   claims, told, landed>>

(* The grace is over before the timer has seen it: entry and token go, the     *)
(* entity is left, and the client is turned away.                             *)
ReconnectLate(c, p) ==
    /\ CanReconnect(c, p)
    /\ saved' = [saved EXCEPT ![p] = NoEntry]
    /\ token' = token \ {p}
    /\ UNCHANGED <<peers, asking, loading, conn, joined, has, kept, doomed, freed, revived, body,
                   enemy, claims, told, landed>>

(* A slip: the newcomer is told the health of the dead as well.               *)
ArrivalByHealth(c) == [e \in Enemies |->
    HealthChanged(told[c][e], enemy[e].hp, enemy[e].revision)]

(* The handler of peer_connected tells the newcomer how the enemies are.      *)
Arrival(c) == [e \in Enemies |->
    IF enemy[e].dead THEN EntityDied(told[c][e], enemy[e].revision)
    ELSE HealthChanged(told[c][e], enemy[e].hp, enemy[e].revision)]

Join(c) ==
    /\ c \in peers \ joined
    /\ conn[c] # Nobody /\ loading[c] = Nobody
    /\ joined' = joined \cup {c}
    /\ told' = [told EXCEPT ![c] = Arrival(c)]
    /\ UNCHANGED <<way, conn, bodies, body, enemy, claims, landed>>

(* _remove_peer: the body goes to the entry of the grace period, and frees the *)
(* entity of another one that was there.  The claims of abilities and of the   *)
(* enemies' attacks are dropped, those of attacks stay.                       *)
ForgetPlayer(p, c) ==
    /\ abilitySeen' = [abilitySeen EXCEPT ![p] = {}]
    /\ abilityWait' = [abilityWait EXCEPT ![p] = 0]
    /\ struckWait' = [s \in Enemies \X Connections |-> IF s[2] = c THEN 0 ELSE struckWait[s]]
    /\ landed' = [l \in DOMAIN landed |-> IF l[1] = p /\ l[2] = "ability" THEN 0 ELSE landed[l]]
    /\ UNCHANGED <<attackSeen, attackWait>>

Entities(o) == {o} \cap Connections

Remove(c) ==
    LET p == conn[c] IN
    /\ peers' = peers \ {c}
    /\ joined' = joined \ {c}
    /\ conn' = [conn EXCEPT ![c] = Nobody]
    /\ has' = [has EXCEPT ![c] = NoBody]
    /\ told' = [told EXCEPT ![c] = [e \in Enemies |-> Unheard]]
    /\ IF p = Nobody THEN UNCHANGED <<saved, freed, claims, landed>>
       ELSE /\ saved' = [saved EXCEPT ![p] = has[c]]
            /\ freed' = freed \cup (Entities(saved[p]) \ {has[c]})
            /\ ForgetPlayer(p, c)
    /\ UNCHANGED <<used, asking, token, kept, doomed, revived, body, enemy>>

(* The client leaves, whatever its _authenticate is waiting for.               *)
Leave(c) == c \in peers /\ Remove(c) /\ UNCHANGED loading

(* _reject, as the snapshots failed.                                          *)
Reject(c) ==
    /\ loading[c] # Nobody
    /\ Remove(c)
    /\ loading' = [loading EXCEPT ![c] = Nobody]

(* A slip: the entry is left there while the releases are awaited.            *)
GraceEndsLate(p) ==
    /\ saved[p] # NoEntry
    /\ doomed' = doomed \cup Entities(saved[p])
    /\ UNCHANGED <<way, conn, joined, has, saved, kept, freed, revived, body, enemy, claims, told,
                   landed>>

(* _tick_disconnected: entry and token go at once, the entity when the lease   *)
(* and the seat have been released.                                           *)
GraceEnds(p) ==
    /\ saved[p] # NoEntry
    /\ saved' = [saved EXCEPT ![p] = NoEntry]
    /\ token' = token \ {p}
    /\ doomed' = doomed \cup Entities(saved[p])
    /\ UNCHANGED <<used, peers, asking, loading, conn, joined, has, kept, freed, revived, body,
                   enemy, claims, told, landed>>

FreeEntity(o) ==
    /\ o \in doomed
    /\ doomed' = doomed \ {o}
    /\ freed' = freed \cup {o}
    /\ UNCHANGED <<way, conn, joined, has, saved, kept, revived, body, enemy, claims, told, landed>>

(* _renew_sessions reads an entry, waits, and writes it back if the lease was  *)
(* renewed, whatever has become of the player meanwhile.                      *)
RenewEntry(p) ==
    /\ saved[p] # NoEntry /\ kept[p] = NoEntry
    /\ kept' = [kept EXCEPT ![p] = saved[p]]
    /\ UNCHANGED <<way, conn, joined, has, saved, doomed, freed, revived, body, enemy, claims, told,
                   landed>>

EntryRenewed(p) ==
    /\ kept[p] # NoEntry
    /\ kept' = [kept EXCEPT ![p] = NoEntry]
    /\ saved' = [saved EXCEPT ![p] = kept[p]]
    /\ revived' = IF saved[p] = kept[p] THEN revived ELSE revived \cup Entities(kept[p])
    /\ UNCHANGED <<way, conn, joined, has, doomed, freed, body, enemy, claims, told, landed>>

EntryNotRenewed(p) ==
    /\ kept[p] # NoEntry
    /\ kept' = [kept EXCEPT ![p] = NoEntry]
    /\ UNCHANGED <<way, conn, joined, has, saved, doomed, freed, revived, body, enemy, claims, told,
                   landed>>
-----------------------------------------------------------------------------
(* _apply_enemy_damage: health first, then death, under one revision.         *)
Wounded(s, damage) ==
    LET hp == IF s.hp > damage THEN s.hp - damage ELSE 0
    IN  [hp |-> hp, revision |-> s.revision + 1, dead |-> hp = 0,
         wait |-> IF hp = 0 THEN RespawnTime ELSE 0]

News(view, s) ==
    IF s.dead THEN EntityDied(HealthChanged(view, s.hp, s.revision), s.revision)
    ELSE HealthChanged(view, s.hp, s.revision)

Hit(e, damage) ==
    LET s == Wounded(enemy[e], damage) IN
    /\ enemy' = [enemy EXCEPT ![e] = s]
    /\ told' = [c \in Connections |->
                   IF c \in joined THEN [told[c] EXCEPT ![e] = News(@, s)] ELSE told[c]]

Landed(p, kind, i) == landed' = [landed EXCEPT ![<<p, kind, i>>] = @ + 1]

(* A body whose entity is there; a handler that reaches for another one ends    *)
(* with a script error.                                                       *)
Embodied(c) == conn[c] # Nobody /\ has[c] \in Connections \ freed

CanFight(c, e) == c \in joined /\ Embodied(c) /\ ~enemy[e].dead

(* A slip: what was seen is not looked up.                                   *)
CanAttackAgain(c, e, i) == CanFight(c, e) /\ attackWait[c] = 0

CanAttack(c, e, i) ==
    /\ CanFight(c, e)
    /\ i \notin attackSeen[conn[c]]
    /\ attackWait[c] = 0

Attack(c, e, i) ==
    /\ CanAttack(c, e, i)
    /\ attackSeen' = [attackSeen EXCEPT ![conn[c]] = @ \cup {i}]
    /\ attackWait' = [attackWait EXCEPT ![c] = AttackCooldown]
    /\ Hit(e, AttackDamage)
    /\ Landed(conn[c], "attack", i)
    /\ UNCHANGED <<links, body, abilitySeen, abilityWait, struckWait>>

CanUseAbility(c, e, i) ==
    /\ CanFight(c, e)
    /\ i \notin abilitySeen[conn[c]]
    /\ abilityWait[conn[c]] = 0

UseAbility(c, e, i) ==
    /\ CanUseAbility(c, e, i)
    /\ abilitySeen' = [abilitySeen EXCEPT ![conn[c]] = @ \cup {i}]
    /\ abilityWait' = [abilityWait EXCEPT ![conn[c]] = AbilityCooldown]
    /\ Hit(e, AbilityDamage)
    /\ Landed(conn[c], "ability", i)
    /\ UNCHANGED <<links, body, attackSeen, attackWait, struckWait>>

(* A slip: an input may be as far ahead as it likes.                          *)
AcceptableFar(b, n) ==
    /\ n > b.last /\ n \notin b.inputs
    /\ n <= MaxSequence
    /\ Cardinality(b.inputs) < Window

(* enqueue: an input is new, after the last one processed and not far ahead.  *)
Acceptable(b, n) ==
    /\ n > b.last /\ n \notin b.inputs
    /\ n <= MaxSequence /\ n - b.last <= Window
    /\ Cardinality(b.inputs) < Window

MoveInput(c, n) ==
    /\ c \in joined /\ conn[c] \in Movers /\ Embodied(c)
    /\ Acceptable(body[has[c]], n)
    /\ body' = [body EXCEPT ![has[c]].inputs = @ \cup {n}]
    /\ UNCHANGED <<links, enemy, claims, told, landed>>
-----------------------------------------------------------------------------
(* A frame: respawns, the enemies' attacks, the inputs.                       *)
Later(n) == IF n > 0 THEN n - 1 ELSE 0

Due(e) == enemy[e].dead /\ Later(enemy[e].wait) = 0

Respawned(e) ==
    IF Due(e) THEN [Unscathed EXCEPT !.revision = enemy[e].revision + 1]
    ELSE [enemy[e] EXCEPT !.wait = Later(@)]

(* The enemies that are alive and the bodies they may strike.  A player is     *)
(* struck by several one after the other, until it has no health left.        *)
Targets == {s \in Enemies \X Connections :
               /\ ~Respawned(s[1]).dead
               /\ Damage > 0
               /\ Embodied(s[2])
               /\ Later(struckWait[s]) = 0}

Strikes(struck, o) == Cardinality({s \in struck : has[s[2]] = o})

Strikable(struck) ==
    \A s \in struck : (Strikes(struck, has[s[2]]) - 1) * Damage < body[has[s[2]]].hp

Struck(b, n) ==
    [b EXCEPT !.hp = IF @ > n * Damage THEN @ - n * Damage ELSE 0, !.revision = @ + n]

Least(S) == CHOOSE n \in S : \A m \in S : n <= m

(* A slip: the last of the inputs is kept.                                    *)
SteppedBehind(b) ==
    IF Cardinality(b.inputs) < 2 THEN b
    ELSE [b EXCEPT !.last = Least(b.inputs), !.inputs = @ \ {Least(b.inputs)}]

(* step: the least input, or none.                                            *)
Stepped(b) ==
    IF b.inputs = {} THEN b
    ELSE [b EXCEPT !.last = Least(b.inputs), !.inputs = @ \ {Least(b.inputs)}]

(* The loop over the players in the game ends with a script error at the first  *)
(* entity that has been freed, wherever that is in it.                        *)
Broken == \E c \in joined : conn[c] # Nobody /\ has[c] \in freed

Steppable == {has[c] : c \in {d \in joined : Embodied(d)}}

Stepping == IF Broken THEN SUBSET Steppable ELSE {Steppable}

AfterFrame(o, struck, stepped) ==
    LET b == Struck(body[o], Strikes(struck, o))
    IN  IF o \in stepped THEN Stepped(b) ELSE b

Frame ==
    \E struck \in SUBSET Targets, stepped \in Stepping :
        /\ Strikable(struck)
        /\ enemy' = [e \in Enemies |-> Respawned(e)]
        /\ told' = [c \in Connections |-> [e \in Enemies |->
                       IF c \in joined /\ Due(e)
                       THEN EntitySpawned(told[c][e], Respawned(e).revision)
                       ELSE told[c][e]]]
        /\ struckWait' = [s \in Enemies \X Connections |->
                             IF s \in struck THEN EnemyCooldown ELSE Later(struckWait[s])]
        /\ body' = [o \in Connections |-> AfterFrame(o, struck, stepped)]
        /\ attackWait' = [c \in Connections |-> Later(attackWait[c])]
        /\ abilityWait' = [p \in Players |-> Later(abilityWait[p])]
        /\ UNCHANGED <<links, attackSeen, abilitySeen, landed>>

ConnectionStep(c) ==
    \/ \E p \in Players : Identify(c, p) \/ Reconnect(c, p) \/ ReconnectLate(c, p)
    \/ Acquired(c) \/ Refused(c) \/ Embody(c) \/ Reject(c) \/ Join(c) \/ Leave(c)
    \/ FreeEntity(c)

GraceStep(p) ==
    GraceEnds(p) \/ RenewEntry(p) \/ EntryRenewed(p) \/ EntryNotRenewed(p)

RequestStep(c) ==
    \/ \E e \in Enemies, i \in Ids : Attack(c, e, i) \/ UseAbility(c, e, i)
    \/ \E n \in 1..MaxSequence : MoveInput(c, n)

Next ==
    \/ \E c \in Connections : ConnectionStep(c) \/ RequestStep(c)
    \/ \E p \in Players : GraceStep(p)
    \/ Frame

Spec == Init /\ [][Next]_vars

(* The engine calls _physics_process 60 times a second; a loop that breaks off  *)
(* may break off at the same place each time.                                 *)
WholeFrame == ~Broken /\ Frame

FairSpec == Spec /\ WF_vars(WholeFrame)
-----------------------------------------------------------------------------
(* Every client, whenever it came, has been told what the enemies are.         *)
ClientsAgree ==
    \A c \in joined, e \in Enemies :
        told[c][e] = [hp |-> enemy[e].hp, revision |-> enemy[e].revision,
                      dead |-> enemy[e].dead]

(* A repeated request takes no effect: an attack ever, an ability until a       *)
(* connection of its player is removed.                                       *)
LandsOnce == \A l \in DOMAIN landed : landed[l] <= 1

(* The inputs that wait are those after the last one processed, at most        *)
(* Window ahead, in a connection as in the entry of one that has left.         *)
InputsAhead ==
    \A o \in Connections : body[o].inputs \subseteq body[o].last + 1 .. body[o].last + Window

(* What becomes of a body: its health only falls, under a new revision each     *)
(* time, and it goes back to no input that it has processed.                  *)
Continues(o) ==
    /\ body'[o].hp <= body[o].hp
    /\ body'[o].revision >= body[o].revision
    /\ body'[o].revision = body[o].revision <=> body'[o].hp = body[o].hp
    /\ body'[o].last >= body[o].last

Held(p) == ({has[c] : c \in {d \in Connections : conn[d] = p}} \cup {saved[p]}) \cap Connections

(* Leaving and coming back, by token or by ticket, neither heals a player nor   *)
(* takes it back to inputs it has processed; a player that has one body gets    *)
(* no other in its place, unless a late renewal brings an old one back         *)
(* (server.gd:192-261, 446-459).                                              *)
StayContinues ==
    [][\A p \in Players :
          /\ \A o \in Held(p) \cap Held(p)' : Continues(o)
          /\ \A o, q \in Connections :
                Held(p) = {o} /\ Held(p)' = {q} => q = o \/ kept[p] = q]_vars

(* No entity is freed while a connection has it, unless a late renewal had put   *)
(* its body back into grace (server.gd:204-207, 274-283, 458-459).            *)
EntitiesLive ==
    \A c \in Connections : conn[c] # Nobody /\ has[c] \in freed => has[c] \in revived

(* An accepted input is processed while its connection lasts, as long as no     *)
(* entity is freed under a player (server.gd:533-536).                        *)
InputsAreProcessed ==
    \A c \in Connections, n \in 1..MaxSequence :
        (c \in joined /\ Embodied(c) /\ n \in body[has[c]].inputs)
            ~> (Broken \/ ~(c \in joined /\ Embodied(c) /\ n \in body[has[c]].inputs))
=============================================================================
