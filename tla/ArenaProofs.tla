---------------------------- MODULE ArenaProofs ----------------------------
(* Proofs about Arena, for every number of connections, players and enemies,  *)
(* every identifier, and all values of health, damage, cooldowns and windows. *)
(*                                                                           *)
(* The invariant has five parts, each of which a few handlers disturb: the    *)
(* connections, the bodies with their inputs, the places where a body is kept, *)
(* the enemies with what is told of them, and the claims of requests.         *)
EXTENDS Arena, FiniteSetTheorems, WellFoundedInduction, TLAPS

Slots == [Connections -> Players \cup {Nobody}]

(* A connection waits for its lease before it has a player, and has joined      *)
(* when nothing is awaited any more.                                          *)
Links ==
    /\ used \subseteq Connections /\ token \subseteq Players
    /\ joined \subseteq peers /\ peers \subseteq used
    /\ conn \in Slots /\ asking \in Slots /\ loading \in Slots
    /\ \A c \in Connections :
          /\ c \notin used => conn[c] = Nobody /\ asking[c] = Nobody /\ loading[c] = Nobody
          /\ asking[c] # Nobody => conn[c] = Nobody /\ loading[c] = Nobody
          /\ c \in joined => conn[c] # Nobody /\ asking[c] = Nobody /\ loading[c] = Nobody

Ahead(b) == b.inputs \subseteq b.last + 1 .. b.last + Window

BodiesInv ==
    /\ body \in [Connections -> Bodies]
    /\ \A o \in Connections : Ahead(body[o])

PlacesTyped ==
    /\ has \in [Connections -> Connections \cup {NoBody}]
    /\ saved \in [Players -> Connections \cup {NoBody, NoEntry}]
    /\ kept \in [Players -> Connections \cup {NoBody, NoEntry}]
    /\ doomed \subseteq Connections /\ freed \subseteq Connections
    /\ revived \subseteq Connections

(* A connection that may still get a body of its own.                         *)
Unmade(o) == o \notin used \/ asking[o] # Nobody \/ loading[o] # Nobody

(* It has no other one, and nothing refers to its own.                        *)
Unborn ==
    \A o \in Connections : Unmade(o) =>
        /\ has[o] = NoBody /\ \A c \in Connections : has[c] # o
        /\ \A p \in Players : saved[p] # o /\ kept[p] # o
        /\ o \notin doomed /\ o \notin freed /\ o \notin revived

Carries(c, o) == conn[c] # Nobody /\ has[c] = o

(* A body that no late renewal has brought back is in one place at most: in a   *)
(* connection, in an entry, or on its way to be freed.                        *)
OnePlace ==
    \A o \in Connections \ revived :
        /\ \A c, d \in Connections : Carries(c, o) /\ Carries(d, o) => c = d
        /\ \A p, q \in Players : saved[p] = o /\ saved[q] = o => p = q
        /\ \A c \in Connections, p \in Players : ~(Carries(c, o) /\ saved[p] = o)
        /\ o \in doomed \cup freed =>
              /\ \A c \in Connections : ~Carries(c, o)
              /\ \A p \in Players : saved[p] # o

PlacesInv == PlacesTyped /\ Unborn /\ OnePlace

Foes == [hp : 0..MaxHp, revision : Nat, dead : BOOLEAN, wait : 0..RespawnTime]
Views == [hp : 0..MaxHp, revision : Nat, dead : BOOLEAN]

(* A client that has not joined has been told of no death.                    *)
EnemiesInv ==
    /\ enemy \in [Enemies -> Foes]
    /\ told \in [Connections -> [Enemies -> Views]]
    /\ \A e \in Enemies : enemy[e].dead <=> enemy[e].hp = 0
    /\ \A c \in Connections \ joined, e \in Enemies : told[c][e].dead = FALSE
    /\ ClientsAgree

Requests == Players \X {"attack", "ability"} \X Ids

(* A request has landed once if it is remembered, and never otherwise.        *)
ClaimsInv ==
    /\ attackSeen \in [Players -> SUBSET Ids]
    /\ abilitySeen \in [Players -> SUBSET Ids]
    /\ attackWait \in [Connections -> 0..AttackCooldown]
    /\ abilityWait \in [Players -> 0..AbilityCooldown]
    /\ struckWait \in [Enemies \X Connections -> 0..EnemyCooldown]
    /\ landed \in [Requests -> Nat]
    /\ \A p \in Players, i \in Ids :
          /\ landed[<<p, "attack", i>>] = IF i \in attackSeen[p] THEN 1 ELSE 0
          /\ landed[<<p, "ability", i>>] = IF i \in abilitySeen[p] THEN 1 ELSE 0

ArenaInv == Links /\ BodiesInv /\ PlacesInv /\ EnemiesInv /\ ClaimsInv

LEMMA Amounts ==
    /\ FullHealth \in Nat \ {0} /\ MaxHp \in Nat \ {0} /\ AttackDamage \in Nat \ {0}
    /\ AbilityDamage \in Nat \ {0} /\ Window \in Nat \ {0}
    /\ Damage \in Nat /\ AttackCooldown \in Nat /\ AbilityCooldown \in Nat
    /\ EnemyCooldown \in Nat /\ RespawnTime \in Nat /\ MaxSequence \in Nat
BY ArenaAssumption

LEMMA NoBodies == NoBody \notin Connections /\ NoEntry \notin Connections /\ NoBody # NoEntry
BY ArenaAssumption

LEMMA FreshBody == Fresh \in Bodies /\ Ahead(Fresh)
BY Amounts DEF Fresh, Bodies, Ahead

LEMMA ArenaStart == Init => ArenaInv
<1> SUFFICES ASSUME Init PROVE ArenaInv
    OBVIOUS
<1> USE Amounts, ArenaAssumption DEF Init
<1>1. Links
    BY DEF Links, Slots
<1>2. BodiesInv
    BY FreshBody DEF BodiesInv
<1>3. PlacesInv
    BY NoBodies DEF PlacesInv, PlacesTyped, Unborn, OnePlace, Carries
<1>4. EnemiesInv
    <2>1. Unscathed \in Foes /\ Unheard \in Views /\ Unheard.dead = FALSE
        BY DEF Unscathed, Foes, Unheard, Views
    <2> QED
        BY <2>1 DEF EnemiesInv, ClientsAgree, Unscathed
<1>5. ClaimsInv
    BY DEF ClaimsInv, Requests
<1> QED
    BY <1>1, <1>2, <1>3, <1>4, <1>5 DEF ArenaInv

(* Nobody is in the game before its lease and its snapshots have come.         *)
LEMMA LinksStay == Links /\ [Next]_vars => Links'
<1> SUFFICES ASSUME Links, [Next]_vars PROVE Links'
    OBVIOUS
<1> USE ArenaAssumption DEF Links, Slots
<1>1. ASSUME NEW c \in Connections, NEW p \in Players, Identify(c, p) PROVE Links'
    BY <1>1 DEF Identify, Comes, New
<1>2. ASSUME NEW c \in Connections, NEW p \in Players, Reconnect(c, p) PROVE Links'
    BY <1>2 DEF Reconnect, CanReconnect, Comes, New
<1>3. ASSUME NEW c \in Connections, NEW p \in Players, ReconnectLate(c, p) PROVE Links'
    BY <1>3 DEF ReconnectLate, CanReconnect, Comes, New
<1>4. ASSUME NEW c \in Connections, Acquired(c) PROVE Links'
    BY <1>4 DEF Acquired
<1>5. ASSUME NEW c \in Connections, Refused(c) PROVE Links'
    BY <1>5 DEF Refused
<1>6. ASSUME NEW c \in Connections, Embody(c) PROVE Links'
    BY <1>6 DEF Embody
<1>7. ASSUME NEW c \in Connections, Join(c) PROVE Links'
    <2>1. asking[c] = Nobody
        BY <1>7 DEF Join
    <2> QED
        BY <1>7, <2>1 DEF Join, way
<1>8. ASSUME NEW c \in Connections, Leave(c) PROVE Links'
    BY <1>8 DEF Leave, Remove
<1>9. ASSUME NEW c \in Connections, Reject(c) PROVE Links'
    BY <1>9 DEF Reject, Remove
<1>10. ASSUME NEW p \in Players, GraceEnds(p) PROVE Links'
    BY <1>10 DEF GraceEnds
<1>11. CASE UNCHANGED <<way, conn, joined>>
    BY <1>11 DEF way
<1>12. Next => \/ \E c \in Connections :
                     \/ \E p \in Players : Identify(c, p) \/ Reconnect(c, p) \/ ReconnectLate(c, p)
                     \/ Acquired(c) \/ Refused(c) \/ Embody(c) \/ Join(c) \/ Leave(c) \/ Reject(c)
               \/ \E p \in Players : GraceEnds(p)
               \/ UNCHANGED <<way, conn, joined>>
    BY DEF Next, ConnectionStep, RequestStep, GraceStep, FreeEntity, RenewEntry, EntryRenewed,
           EntryNotRenewed, Attack, UseAbility, MoveInput, Frame, links
<1> QED
    BY <1>1, <1>2, <1>3, <1>4, <1>5, <1>6, <1>7, <1>8, <1>9, <1>10, <1>11, <1>12 DEF vars, links

(* Of the inputs that wait one is the first.                                  *)
LEMMA LeastOf ==
    ASSUME NEW S \in SUBSET Nat, S # {}
    PROVE  Least(S) \in S /\ \A m \in S : Least(S) <= m
<1> DEFINE R == {ss \in Nat \X Nat : ss[1] < ss[2]}
<1>1. IsWellFoundedOn(R, Nat)
    BY NatLessThanWellFounded DEF OpToRel
<1>2. PICK l \in S : \A m \in S : ~(<<m, l>> \in R)
    <2> HIDE DEF R
    <2> QED
        BY <1>1, WFMin
<1>3. \A m \in S : ~(m < l)
    BY <1>2
<1>4. \A m \in S : l <= m
    BY <1>3
<1> QED
    BY <1>4 DEF Least

(* A body is struck a number of times.                                        *)
LEMMA StrikesCounted ==
    ASSUME NEW struck \in SUBSET (Enemies \X Connections), NEW o \in Connections
    PROVE  /\ Strikes(struck, o) \in Nat
           /\ Strikes(struck, o) > 0 => \E s \in struck : has[s[2]] = o
<1> DEFINE S == {s \in struck : has[s[2]] = o}
<1>1. IsFiniteSet(Enemies \X Connections)
    BY ArenaAssumption, FS_Product
<1>2. S \subseteq Enemies \X Connections
    OBVIOUS
<1>3. IsFiniteSet(S)
    BY <1>1, <1>2, FS_Subset
<1>4. Cardinality(S) \in Nat /\ (S = {} => Cardinality(S) = 0)
    BY <1>3, FS_CardinalityType, FS_EmptySet
<1>5. S # {} => \E s \in struck : has[s[2]] = o
    OBVIOUS
<1> HIDE DEF S
<1> QED
    BY <1>4, <1>5 DEF Strikes, S

(* A stroke takes health and leaves the inputs.                               *)
LEMMA StruckBody ==
    ASSUME NEW b \in Bodies, NEW n \in Nat, Damage > 0
    PROVE  /\ Struck(b, n) \in Bodies
           /\ Struck(b, n).last = b.last /\ Struck(b, n).inputs = b.inputs
           /\ Struck(b, n).hp <= b.hp /\ Struck(b, n).revision = b.revision + n
           /\ n = 0 => Struck(b, n).hp = b.hp
           /\ n > 0 /\ b.hp > 0 => Struck(b, n).hp < b.hp
<1>1. Damage \in Nat /\ FullHealth \in Nat
    BY Amounts
<1> DEFINE d == n * Damage
<1>2. d \in Nat /\ (n = 0 => d = 0) /\ (n > 0 => d > 0)
    BY <1>1
<1> DEFINE hp == IF b.hp > d THEN b.hp - d ELSE 0
<1>3. /\ b.hp \in 0..FullHealth /\ b.revision \in Nat
      /\ Struck(b, n) = [hp |-> hp, revision |-> b.revision + n, last |-> b.last, inputs |-> b.inputs]
    <2>1. b.hp \in 0..FullHealth /\ b.revision \in Nat
        BY DEF Bodies
    <2>2. Struck(b, n) = [[b EXCEPT !.hp = hp] EXCEPT !.revision = b.revision + n]
        BY DEF Struck, Bodies
    <2>3. b = [hp |-> b.hp, revision |-> b.revision, last |-> b.last, inputs |-> b.inputs]
        BY DEF Bodies
    <2> HIDE DEF hp
    <2> QED
        BY <2>1, <2>2, <2>3
<1> HIDE DEF d
<1>4. /\ hp \in 0..FullHealth /\ hp <= b.hp /\ (n = 0 => hp = b.hp)
      /\ (n > 0 /\ b.hp > 0 => hp < b.hp)
    BY <1>1, <1>2, <1>3
<1> HIDE DEF hp
<1> QED
    BY <1>3, <1>4 DEF Bodies

(* The least of the inputs is the next; those that wait are still ahead.       *)
LEMMA SteppedBody ==
    ASSUME NEW b \in Bodies, Ahead(b)
    PROVE  /\ Stepped(b) \in Bodies /\ Ahead(Stepped(b))
           /\ Stepped(b).hp = b.hp /\ Stepped(b).revision = b.revision
           /\ Stepped(b).last >= b.last
<1>0. /\ MaxSequence \in Nat /\ Window \in Nat
      /\ b.last \in 0..MaxSequence /\ b.inputs \in SUBSET (1..MaxSequence)
    BY Amounts DEF Bodies
<1>1. CASE b.inputs = {}
    BY <1>0, <1>1 DEF Stepped
<1>2. CASE b.inputs # {}
    <2> DEFINE l == Least(b.inputs)
    <2>1. l \in b.inputs /\ \A m \in b.inputs : l <= m
        BY <1>0, <1>2, LeastOf
    <2> HIDE DEF l
    <2>2. l \in 1..MaxSequence /\ l > b.last
        BY <1>0, <2>1 DEF Ahead
    <2>3. Stepped(b) = [hp |-> b.hp, revision |-> b.revision, last |-> l, inputs |-> b.inputs \ {l}]
        BY <1>2 DEF Stepped, Bodies, l
    <2>4. b.inputs \ {l} \subseteq l + 1 .. l + Window
        BY <1>0, <2>1, <2>2 DEF Ahead
    <2> QED
        BY <1>0, <2>2, <2>3, <2>4 DEF Ahead, Bodies
<1> QED
    BY <1>1, <1>2

(* What a frame makes of a body.                                              *)
LEMMA FrameBody ==
    ASSUME NEW struck \in SUBSET Targets, NEW o \in Connections, NEW stepped, body[o] \in Bodies,
           Ahead(body[o]), Strikable(struck)
    PROVE  LET b == AfterFrame(o, struck, stepped)
           IN  /\ b \in Bodies /\ Ahead(b)
               /\ b.hp <= body[o].hp /\ b.revision >= body[o].revision
               /\ b.revision = body[o].revision <=> b.hp = body[o].hp
               /\ b.last >= body[o].last
<1> DEFINE n == Strikes(struck, o)
           s == Struck(body[o], n)
<1>0. struck \in SUBSET (Enemies \X Connections)
    BY DEF Targets
<1>1. n \in Nat /\ (n > 0 => \E t \in struck : has[t[2]] = o)
    BY <1>0, StrikesCounted
<1>2. /\ body[o].hp \in Nat /\ body[o].revision \in Nat /\ body[o].last \in Nat
      /\ body[o].inputs \subseteq body[o].last + 1 .. body[o].last + Window
    BY Amounts DEF Bodies, Ahead
<1>3. n > 0 => body[o].hp > 0 /\ Damage > 0
    <2> SUFFICES ASSUME n > 0 PROVE body[o].hp > 0 /\ Damage > 0
        OBVIOUS
    <2>1. PICK t \in struck : has[t[2]] = o
        BY <1>1
    <2>2. Damage > 0 /\ Damage \in Nat
        BY Amounts, <2>1 DEF Targets
    <2>3. (n - 1) * Damage < body[o].hp
        BY <2>1 DEF Strikable
    <2>4. (n - 1) * Damage >= 0
        BY <1>1, <2>2
    <2>5. (n - 1) * Damage \in Int
        BY <1>1, <2>2
    <2> HIDE DEF n
    <2> QED
        BY <1>2, <2>2, <2>3, <2>4, <2>5
<1>4. /\ s \in Bodies /\ s.last = body[o].last /\ s.inputs = body[o].inputs
      /\ s.hp <= body[o].hp /\ s.revision >= body[o].revision
      /\ s.revision = body[o].revision <=> s.hp = body[o].hp
    <2>1. CASE n = 0
        <3>1. Struck(body[o], 0) = body[o]
            <4>1. 0 * Damage = 0 /\ body[o].revision + 0 = body[o].revision
                BY <1>2, Amounts
            <4>2. (IF body[o].hp > 0 * Damage THEN body[o].hp - 0 * Damage ELSE 0) = body[o].hp
                BY <1>2, <4>1
            <4> QED
                BY <4>1, <4>2 DEF Struck, Bodies
        <3> QED
            BY <1>2, <2>1, <3>1
    <2>2. CASE n > 0
        <3>1. Damage > 0 /\ body[o].hp > 0
            BY <1>3, <2>2
        <3>2. /\ s \in Bodies /\ s.last = body[o].last /\ s.inputs = body[o].inputs
              /\ s.hp <= body[o].hp /\ s.revision = body[o].revision + n
              /\ s.hp < body[o].hp
            <4> HIDE DEF n
            <4> QED
                BY <1>1, <2>2, <3>1, StruckBody
        <3> HIDE DEF s, n
        <3> QED
            BY <1>1, <1>2, <2>2, <3>2 DEF Bodies
    <2> HIDE DEF n
    <2> QED
        BY <1>1, <2>1, <2>2
<1> HIDE DEF s
<1>5. Ahead(s)
    BY <1>4 DEF Ahead
<1>6. /\ Stepped(s) \in Bodies /\ Ahead(Stepped(s))
      /\ Stepped(s).hp = s.hp /\ Stepped(s).revision = s.revision /\ Stepped(s).last >= s.last
    BY <1>4, <1>5, SteppedBody
<1>7. AfterFrame(o, struck, stepped) = IF o \in stepped THEN Stepped(s) ELSE s
    BY DEF AfterFrame, s
<1>8. s.last \in Nat
    BY <1>2, <1>4
<1> QED
    BY <1>4, <1>5, <1>6, <1>7, <1>8

(* An accepted input is ahead, within the window.                             *)
LEMMA QueuedBody ==
    ASSUME NEW b \in Bodies, Ahead(b), NEW n \in 1..MaxSequence, Acceptable(b, n)
    PROVE  LET q == [b EXCEPT !.inputs = @ \cup {n}]
           IN  /\ q \in Bodies /\ Ahead(q)
               /\ q.hp = b.hp /\ q.revision = b.revision /\ q.last = b.last
<1>0. MaxSequence \in Nat /\ Window \in Nat
    BY Amounts
<1>1. b.last \in 0..MaxSequence /\ b.inputs \in SUBSET (1..MaxSequence)
    BY DEF Bodies
<1>2. n \in b.last + 1 .. b.last + Window
    BY <1>0, <1>1 DEF Acceptable
<1>3. [b EXCEPT !.inputs = @ \cup {n}] =
         [hp |-> b.hp, revision |-> b.revision, last |-> b.last, inputs |-> b.inputs \cup {n}]
    BY DEF Bodies
<1>4. b.inputs \cup {n} \subseteq b.last + 1 .. b.last + Window
    BY <1>2 DEF Ahead
<1> QED
    BY <1>0, <1>1, <1>3, <1>4 DEF Ahead, Bodies

(* Bodies keep their types and their inputs ahead of the last one processed,   *)
(* and each goes on from what it was once it has been made.                   *)
LEMMA BodiesStep ==
    ASSUME Links, BodiesInv, PlacesTyped, [Next]_vars
    PROVE  /\ BodiesInv'
           /\ \A o \in Connections : ~Unmade(o) => Continues(o)
<1> DEFINE Fine == BodiesInv' /\ \A o \in Connections : ~Unmade(o) => Continues(o)
<1>1. \A o \in Connections : body'[o] = body[o] => Continues(o)
    <2>1. \A b \in Bodies : b.hp <= b.hp /\ b.revision >= b.revision /\ b.last >= b.last
        BY Amounts DEF Bodies
    <2> QED
        BY <2>1 DEF BodiesInv, Continues
<1>2. ASSUME NEW c \in Connections, Embody(c) PROVE Fine
    <2>1. body' = [body EXCEPT ![c] = Fresh] /\ Unmade(c)
        BY <1>2 DEF Embody, Unmade
    <2>2. BodiesInv'
        BY <2>1, FreshBody DEF BodiesInv
    <2>3. \A o \in Connections : ~Unmade(o) => body'[o] = body[o]
        BY <2>1 DEF BodiesInv
    <2> QED
        BY <1>1, <2>2, <2>3
<1>3. ASSUME NEW c \in Connections, NEW n \in 1..MaxSequence, MoveInput(c, n) PROVE Fine
    <2> DEFINE o == has[c]
               q == [body[o] EXCEPT !.inputs = @ \cup {n}]
    <2>1. o \in Connections /\ body[o] \in Bodies /\ Acceptable(body[o], n) /\ Ahead(body[o])
        BY <1>3 DEF MoveInput, Embodied, BodiesInv
    <2>2. body' = [body EXCEPT ![o] = q]
        BY <1>3 DEF MoveInput
    <2> HIDE DEF o
    <2>3. /\ q \in Bodies /\ Ahead(q)
          /\ q.hp = body[o].hp /\ q.revision = body[o].revision /\ q.last = body[o].last
        BY <2>1, QueuedBody
    <2> HIDE DEF q
    <2>4. BodiesInv'
        BY <2>1, <2>2, <2>3 DEF BodiesInv
    <2>5. Continues(o)
        <3>1. body'[o] = q
            BY <2>1, <2>2 DEF BodiesInv
        <3>2. body[o].hp <= body[o].hp /\ body[o].revision >= body[o].revision /\ body[o].last >= body[o].last
            BY <2>1, Amounts DEF Bodies
        <3> QED
            BY <2>3, <3>1, <3>2 DEF Continues
    <2>6. \A r \in Connections \ {o} : body'[r] = body[r]
        BY <2>2 DEF BodiesInv
    <2> QED
        BY <1>1, <2>4, <2>5, <2>6
<1>4. CASE Frame
    <2>1. PICK struck \in SUBSET Targets, stepped \in Stepping :
              /\ Strikable(struck)
              /\ body' = [o \in Connections |-> AfterFrame(o, struck, stepped)]
        BY <1>4 DEF Frame
    <2>2. ASSUME NEW o \in Connections
          PROVE  body'[o] \in Bodies /\ Ahead(body'[o]) /\ Continues(o)
        <3>1. body[o] \in Bodies /\ Ahead(body[o]) /\ body'[o] = AfterFrame(o, struck, stepped)
            BY <2>1 DEF BodiesInv
        <3> QED
            BY <2>1, <3>1, FrameBody DEF Continues
    <2> QED
        BY <2>1, <2>2 DEF BodiesInv
<1>5. CASE UNCHANGED body
    BY <1>1, <1>5 DEF BodiesInv
<1>6. Next => \/ \E c \in Connections : Embody(c) \/ \E n \in 1..MaxSequence : MoveInput(c, n)
              \/ Frame
              \/ UNCHANGED body
    BY DEF Next, ConnectionStep, RequestStep, GraceStep, Identify, Reconnect, ReconnectLate, Acquired,
           Refused, Reject, Join, Leave, Remove, FreeEntity, GraceEnds, RenewEntry, EntryRenewed,
           EntryNotRenewed, Attack, UseAbility, links
<1> QED
    BY <1>2, <1>3, <1>4, <1>5, <1>6 DEF vars

(* Removing a connection puts its body into the entry of its player and drops   *)
(* what was there.                                                            *)
LEMMA RemovePlaces ==
    ASSUME Links, PlacesInv, NEW c \in Connections, Remove(c),
           \A d \in Connections : loading'[d] = Nobody \/ loading'[d] = loading[d]
    PROVE  PlacesInv'
<1> USE DEF Links, Slots
<1> DEFINE p == conn[c]
<1>1. /\ conn' = [conn EXCEPT ![c] = Nobody] /\ has' = [has EXCEPT ![c] = NoBody]
      /\ kept' = kept /\ doomed' = doomed /\ revived' = revived
      /\ used' = used /\ asking' = asking
    BY DEF Remove
<1>2. \A o \in Connections : Unmade(o)' => Unmade(o)
    BY <1>1 DEF Unmade
<1>3. CASE p = Nobody
    <2>1. saved' = saved /\ freed' = freed
        BY <1>3 DEF Remove
    <2>2. PlacesTyped'
        BY <1>1, <2>1 DEF PlacesInv, PlacesTyped
    <2>3. Unborn'
        BY <1>1, <1>2, <2>1, NoBodies DEF PlacesInv, PlacesTyped, Unborn
    <2>4. \A d, o \in Connections : Carries(d, o)' => Carries(d, o)
        BY <1>1, NoBodies DEF PlacesInv, PlacesTyped, Carries
    <2>5. OnePlace'
        BY <1>1, <2>1, <2>4 DEF PlacesInv, OnePlace
    <2> QED
        BY <2>2, <2>3, <2>5 DEF PlacesInv
<1>4. CASE p # Nobody
    <2>1. /\ p \in Players
          /\ saved' = [saved EXCEPT ![p] = has[c]]
          /\ freed' = freed \cup (Entities(saved[p]) \ {has[c]})
        BY <1>4 DEF Remove
    <2> HIDE DEF p
    <2>2. PlacesTyped'
        BY <1>1, <2>1 DEF PlacesInv, PlacesTyped, Entities
    <2>3. Unborn'
        <3> SUFFICES ASSUME NEW o \in Connections, Unmade(o)
                     PROVE  /\ has'[o] = NoBody /\ \A d \in Connections : has'[d] # o
                            /\ \A r \in Players : saved'[r] # o /\ kept'[r] # o
                            /\ o \notin doomed' /\ o \notin freed' /\ o \notin revived'
            BY <1>2 DEF Unborn
        <3>1. /\ has[o] = NoBody /\ \A d \in Connections : has[d] # o
              /\ \A r \in Players : saved[r] # o /\ kept[r] # o
              /\ o \notin doomed /\ o \notin freed /\ o \notin revived
            BY DEF PlacesInv, Unborn
        <3> QED
            BY <1>1, <2>1, <3>1, NoBodies DEF PlacesInv, PlacesTyped, Entities
    <2>4. \A d, o \in Connections : Carries(d, o)' <=> d # c /\ Carries(d, o)
        BY <1>1, NoBodies DEF PlacesInv, PlacesTyped, Carries
    <2>5. Carries(c, has[c])
        BY <1>4 DEF Carries, p
    <2>6. \A r \in Players : saved'[r] = IF r = p THEN has[c] ELSE saved[r]
        BY <2>1 DEF PlacesInv, PlacesTyped
    <2>7. OnePlace'
        <3> SUFFICES ASSUME NEW o \in Connections, o \notin revived
                     PROVE  /\ \A d, e \in Connections : Carries(d, o)' /\ Carries(e, o)' => d = e
                            /\ \A q, r \in Players : saved'[q] = o /\ saved'[r] = o => q = r
                            /\ \A d \in Connections, r \in Players : ~(Carries(d, o)' /\ saved'[r] = o)
                            /\ o \in doomed' \cup freed' =>
                                  /\ \A d \in Connections : ~Carries(d, o)'
                                  /\ \A r \in Players : saved'[r] # o
            BY <1>1 DEF OnePlace
        <3>1. /\ \A d, e \in Connections : Carries(d, o) /\ Carries(e, o) => d = e
              /\ \A q, r \in Players : saved[q] = o /\ saved[r] = o => q = r
              /\ \A d \in Connections, r \in Players : ~(Carries(d, o) /\ saved[r] = o)
              /\ o \in doomed \cup freed =>
                    /\ \A d \in Connections : ~Carries(d, o)
                    /\ \A r \in Players : saved[r] # o
            BY DEF PlacesInv, OnePlace
        <3>2. \A d, e \in Connections : Carries(d, o)' /\ Carries(e, o)' => d = e
            BY <2>4, <3>1
        <3>3. CASE o = has[c]
            <4>1. \A d \in Connections : ~Carries(d, o)'
                BY <2>4, <2>5, <3>1, <3>3
            <4>2. \A r \in Players : saved[r] # o
                BY <2>5, <3>1, <3>3
            <4>3. \A q, r \in Players : saved'[q] = o /\ saved'[r] = o => q = r
                BY <2>6, <4>2
            <4>4. o \notin doomed' \cup freed'
                BY <1>1, <2>1, <2>5, <3>1, <3>3
            <4> QED
                BY <3>2, <4>1, <4>3, <4>4
        <3>4. CASE o # has[c]
            <4>1. \A r \in Players : saved'[r] = o => r # p /\ saved[r] = o
                BY <2>6, <3>4
            <4>2. o \in freed' => o \in freed \/ saved[p] = o
                BY <2>1 DEF Entities
            <4>3. ASSUME o \in doomed' \cup freed'
                  PROVE  /\ \A d \in Connections : ~Carries(d, o)'
                         /\ \A r \in Players : saved'[r] # o
                BY <1>1, <2>1, <2>4, <3>1, <4>1, <4>2, <4>3
            <4> QED
                BY <2>4, <3>1, <3>2, <4>1, <4>3
        <3> QED
            BY <3>3, <3>4
    <2> QED
        BY <2>2, <2>3, <2>7 DEF PlacesInv
<1> QED
    BY <1>3, <1>4

(* A body changes its place with its player, and is freed when it has none,    *)
(* unless a late renewal brings it back.                                      *)
LEMMA PlacesStay ==
    ASSUME Links, PlacesInv, [Next]_vars
    PROVE  PlacesInv'
<1> USE ArenaAssumption, NoBodies DEF Links, Slots
<1>0. PlacesTyped /\ Unborn /\ OnePlace
    BY DEF PlacesInv
<1>1. ASSUME NEW c \in Connections, NEW p \in Players, Identify(c, p) PROVE PlacesInv'
    <2>1. UNCHANGED <<conn, bodies>> /\ \A o \in Connections : Unmade(o)' => Unmade(o)
        BY <1>1 DEF Identify, Comes, New, Unmade
    <2> QED
        BY <1>0, <2>1 DEF bodies, PlacesInv, PlacesTyped, Unborn, OnePlace, Carries
<1>2. ASSUME NEW c \in Connections, NEW p \in Players, Reconnect(c, p) PROVE PlacesInv'
    <2>1. /\ conn' = [conn EXCEPT ![c] = p] /\ has' = [has EXCEPT ![c] = saved[p]]
          /\ saved' = [saved EXCEPT ![p] = NoEntry] /\ saved[p] # NoEntry
          /\ UNCHANGED <<kept, doomed, freed, revived>>
          /\ c \notin used /\ used' = used \cup {c} /\ asking' = asking /\ loading' = loading
        BY <1>2 DEF Reconnect, CanReconnect, Comes, New
    <2>2. Unmade(c) /\ conn[c] = Nobody
        BY <2>1 DEF Unmade
    <2>3. PlacesTyped'
        BY <1>0, <2>1 DEF PlacesTyped
    <2>4. Unborn'
        <3>1. \A o \in Connections : Unmade(o)' => Unmade(o) /\ o # c
            BY <2>1 DEF Unmade
        <3> QED
            BY <1>0, <2>1, <3>1 DEF Unborn, PlacesTyped
    <2>5. \A d, o \in Connections : Carries(d, o)' <=> IF d = c THEN saved[p] = o ELSE Carries(d, o)
        BY <1>0, <2>1 DEF Carries, PlacesTyped
    <2>6. \A r \in Players, o \in Connections : saved'[r] = o <=> r # p /\ saved[r] = o
        BY <1>0, <2>1 DEF PlacesTyped
    <2>7. OnePlace'
        BY <1>0, <2>1, <2>5, <2>6 DEF OnePlace
    <2> QED
        BY <2>3, <2>4, <2>7 DEF PlacesInv
<1>3. ASSUME NEW p \in Players, saved' = [saved EXCEPT ![p] = NoEntry],
             UNCHANGED <<conn, has, kept, freed, revived>>,
             doomed' = doomed \/ doomed' = doomed \cup Entities(saved[p]),
             \A o \in Connections : Unmade(o)' => Unmade(o)
      PROVE  PlacesInv'
    <2>1. PlacesTyped' /\ Unborn'
        BY <1>0, <1>3 DEF PlacesTyped, Unborn, Entities
    <2>2. \A r \in Players, o \in Connections : saved'[r] = o <=> r # p /\ saved[r] = o
        BY <1>0, <1>3 DEF PlacesTyped
    <2>3. \A d, o \in Connections : Carries(d, o)' <=> Carries(d, o)
        BY <1>3 DEF Carries
    <2>4. \A o \in Connections : o \in doomed' => o \in doomed \/ saved[p] = o
        BY <1>3 DEF Entities
    <2>5. OnePlace'
        BY <1>0, <1>3, <2>2, <2>3, <2>4 DEF OnePlace
    <2> QED
        BY <2>1, <2>5 DEF PlacesInv
<1>4. ASSUME NEW c \in Connections, NEW p \in Players, ReconnectLate(c, p) PROVE PlacesInv'
    <2>1. \A o \in Connections : Unmade(o)' => Unmade(o)
        BY <1>4 DEF ReconnectLate, CanReconnect, Comes, New, Unmade
    <2> QED
        BY <1>3, <1>4, <2>1 DEF ReconnectLate
<1>5. ASSUME NEW p \in Players, GraceEnds(p) PROVE PlacesInv'
    <2>1. \A o \in Connections : Unmade(o)' => Unmade(o)
        BY <1>5 DEF GraceEnds, Unmade
    <2> QED
        BY <1>3, <1>5, <2>1 DEF GraceEnds
<1>6. ASSUME NEW c \in Connections, Acquired(c) PROVE PlacesInv'
    <2>1. /\ UNCHANGED bodies /\ Unmade(c)
          /\ \A o \in Connections : Unmade(o)' => Unmade(o)
          /\ conn' = [conn EXCEPT ![c] = asking[c]]
        BY <1>6 DEF Acquired, Unmade
    <2>2. has[c] = NoBody
        BY <1>0, <2>1 DEF Unborn
    <2>3. \A d, o \in Connections : Carries(d, o)' => Carries(d, o)
        BY <2>1, <2>2 DEF Carries, bodies
    <2> QED
        BY <1>0, <2>1, <2>3 DEF bodies, PlacesInv, PlacesTyped, Unborn, OnePlace
<1>7. ASSUME NEW c \in Connections, Refused(c) PROVE PlacesInv'
    <2>1. UNCHANGED <<conn, bodies>> /\ \A o \in Connections : Unmade(o)' => Unmade(o)
        BY <1>7 DEF Refused, Unmade
    <2> QED
        BY <1>0, <2>1 DEF bodies, PlacesInv, PlacesTyped, Unborn, OnePlace, Carries
<1>8. ASSUME NEW c \in Connections, Embody(c) PROVE PlacesInv'
    <2>1. /\ has' = [has EXCEPT ![c] = c] /\ UNCHANGED <<conn, saved, kept, doomed, freed, revived>>
          /\ used' = used /\ asking' = asking /\ loading' = [loading EXCEPT ![c] = Nobody]
          /\ loading[c] # Nobody
        BY <1>8 DEF Embody
    <2>2. Unmade(c) /\ ~Unmade(c)' /\ \A o \in Connections : Unmade(o)' => Unmade(o)
        BY <2>1 DEF Unmade
    <2>3. /\ has[c] = NoBody /\ \A d \in Connections : has[d] # c
          /\ \A r \in Players : saved[r] # c /\ kept[r] # c
          /\ c \notin doomed /\ c \notin freed /\ c \notin revived
        BY <1>0, <2>2 DEF Unborn
    <2>4. PlacesTyped'
        BY <1>0, <2>1 DEF PlacesTyped
    <2>5. Unborn'
        BY <1>0, <2>1, <2>2 DEF Unborn, PlacesTyped
    <2>6. \A d, o \in Connections : Carries(d, o)' => Carries(d, o) \/ (d = c /\ o = c)
        BY <1>0, <2>1 DEF Carries, PlacesTyped
    <2>7. \A d \in Connections : ~Carries(d, c)
        BY <2>3 DEF Carries
    <2>8. OnePlace'
        BY <1>0, <2>1, <2>3, <2>6, <2>7 DEF OnePlace
    <2> QED
        BY <2>4, <2>5, <2>8 DEF PlacesInv
<1>9. ASSUME NEW c \in Connections, Leave(c) \/ Reject(c) PROVE PlacesInv'
    <2>1. Remove(c) /\ \A d \in Connections : loading'[d] = Nobody \/ loading'[d] = loading[d]
        BY <1>9 DEF Leave, Reject
    <2> QED
        BY <2>1, RemovePlaces DEF PlacesInv
<1>10. ASSUME NEW o \in Connections, FreeEntity(o) PROVE PlacesInv'
    <2>1. /\ UNCHANGED <<way, conn, has, saved, kept, revived>>
          /\ o \in doomed /\ doomed' = doomed \ {o} /\ freed' = freed \cup {o}
        BY <1>10 DEF FreeEntity
    <2> QED
        BY <1>0, <2>1 DEF way, PlacesInv, PlacesTyped, Unborn, Unmade, OnePlace, Carries
<1>11. ASSUME NEW p \in Players, RenewEntry(p) \/ EntryNotRenewed(p) PROVE PlacesInv'
    <2>1. /\ UNCHANGED <<way, conn, has, saved, doomed, freed, revived>>
          /\ kept' = [kept EXCEPT ![p] = saved[p]] \/ kept' = [kept EXCEPT ![p] = NoEntry]
        BY <1>11 DEF RenewEntry, EntryNotRenewed
    <2> QED
        BY <1>0, <2>1 DEF way, PlacesInv, PlacesTyped, Unborn, Unmade, OnePlace, Carries
<1>12. ASSUME NEW p \in Players, EntryRenewed(p) PROVE PlacesInv'
    <2>1. /\ UNCHANGED <<way, conn, has, doomed, freed>>
          /\ kept' = [kept EXCEPT ![p] = NoEntry] /\ saved' = [saved EXCEPT ![p] = kept[p]]
          /\ revived' = IF saved[p] = kept[p] THEN revived ELSE revived \cup Entities(kept[p])
        BY <1>12 DEF EntryRenewed
    <2>2. PlacesTyped'
        BY <1>0, <2>1 DEF PlacesTyped, Entities
    <2>3. Unborn'
        BY <1>0, <2>1 DEF way, Unborn, Unmade, PlacesTyped, Entities
    <2>4. \A r \in Players, o \in Connections \ revived' : saved'[r] = o => saved[r] = o
        BY <1>0, <2>1 DEF PlacesTyped, Entities
    <2>5. \A d, o \in Connections : Carries(d, o)' <=> Carries(d, o)
        BY <2>1 DEF Carries
    <2>6. revived \subseteq revived'
        BY <2>1
    <2>7. OnePlace'
        BY <1>0, <2>1, <2>4, <2>5, <2>6 DEF OnePlace
    <2> QED
        BY <2>2, <2>3, <2>7 DEF PlacesInv
<1>13. CASE UNCHANGED <<way, conn, bodies>>
    BY <1>0, <1>13 DEF way, bodies, PlacesInv, PlacesTyped, Unborn, Unmade, OnePlace, Carries
<1>14. Next => \/ \E c \in Connections :
                     \/ \E p \in Players : Identify(c, p) \/ Reconnect(c, p) \/ ReconnectLate(c, p)
                     \/ Acquired(c) \/ Refused(c) \/ Embody(c) \/ Leave(c) \/ Reject(c) \/ FreeEntity(c)
               \/ \E p \in Players : GraceEnds(p) \/ RenewEntry(p) \/ EntryRenewed(p) \/ EntryNotRenewed(p)
               \/ UNCHANGED <<way, conn, bodies>>
    BY DEF Next, ConnectionStep, RequestStep, GraceStep, Join, Attack, UseAbility, MoveInput, Frame, links
<1> QED
    BY <1>1, <1>2, <1>4, <1>5, <1>6, <1>7, <1>8, <1>9, <1>10, <1>11, <1>12, <1>13, <1>14 DEF vars, links

(* A life of an enemy: what a hit leaves of it, and what it starts with.       *)
LEMMA WoundedFoe ==
    ASSUME NEW s \in Foes, NEW damage \in Nat \ {0}
    PROVE  /\ Wounded(s, damage) \in Foes
           /\ Wounded(s, damage).hp = IF s.hp > damage THEN s.hp - damage ELSE 0
           /\ Wounded(s, damage).dead <=> Wounded(s, damage).hp = 0
<1> DEFINE hp == IF s.hp > damage THEN s.hp - damage ELSE 0
<1>1. /\ s.revision + 1 \in Nat /\ hp \in 0..MaxHp
      /\ (IF hp = 0 THEN RespawnTime ELSE 0) \in 0..RespawnTime
    BY Amounts DEF Foes
<1>2. Wounded(s, damage) = [hp |-> hp, revision |-> s.revision + 1, dead |-> hp = 0,
                            wait |-> IF hp = 0 THEN RespawnTime ELSE 0]
    BY DEF Wounded
<1> HIDE DEF hp
<1>3. (hp = 0) \in BOOLEAN
    OBVIOUS
<1>4. Wounded(s, damage) \in Foes
    BY <1>1, <1>2, <1>3 DEF Foes
<1>5. Wounded(s, damage).hp = hp /\ (Wounded(s, damage).dead <=> hp = 0)
    <2>1. CASE hp = 0
        <3>1. Wounded(s, damage) = [hp |-> hp, revision |-> s.revision + 1, dead |-> TRUE,
                                    wait |-> RespawnTime]
            BY <1>2, <2>1
        <3> QED
            BY <2>1, <3>1
    <2>2. CASE hp # 0
        <3>1. Wounded(s, damage) = [hp |-> hp, revision |-> s.revision + 1, dead |-> FALSE, wait |-> 0]
            BY <1>2, <2>2
        <3> QED
            BY <2>2, <3>1
    <2> QED
        BY <2>1, <2>2
<1> QED
    BY <1>4, <1>5 DEF hp

LEMMA RespawnedFoe ==
    ASSUME NEW e \in Enemies, enemy[e] \in Foes
    PROVE  /\ Respawned(e) \in Foes
           /\ Due(e) => /\ Respawned(e).hp = MaxHp /\ ~Respawned(e).dead
                        /\ Respawned(e).revision \in Nat
           /\ ~Due(e) => /\ Respawned(e).hp = enemy[e].hp
                         /\ Respawned(e).dead = enemy[e].dead
                         /\ Respawned(e).revision = enemy[e].revision
<1>1. CASE Due(e)
    <2>1. Respawned(e) = [hp |-> MaxHp, revision |-> enemy[e].revision + 1, dead |-> FALSE, wait |-> 0]
        BY <1>1 DEF Respawned, Unscathed
    <2>2. enemy[e].revision + 1 \in Nat /\ MaxHp \in 0..MaxHp /\ 0 \in 0..RespawnTime
        BY Amounts DEF Foes
    <2> QED
        BY <1>1, <2>1, <2>2 DEF Foes
<1>2. CASE ~Due(e)
    <2>1. enemy[e] = [hp |-> enemy[e].hp, revision |-> enemy[e].revision, dead |-> enemy[e].dead,
                      wait |-> enemy[e].wait]
        BY DEF Foes
    <2>2. Later(enemy[e].wait) \in 0..RespawnTime
        BY Amounts DEF Foes, Later
    <2>3. Respawned(e) = [hp |-> enemy[e].hp, revision |-> enemy[e].revision, dead |-> enemy[e].dead,
                          wait |-> Later(enemy[e].wait)]
        BY <1>2, <2>1 DEF Respawned
    <2> QED
        BY <1>2, <2>2, <2>3 DEF Foes
<1> QED
    BY <1>1, <1>2

LEMMA ViewWritten ==
    ASSUME NEW v \in Views, NEW h \in 0..MaxHp, NEW d \in BOOLEAN, NEW r \in Nat
    PROVE  [v EXCEPT !.hp = h, !.dead = d, !.revision = r] \in Views
BY DEF Views

(* What the messages make of a view.                                          *)
LEMMA HealthWritten ==
    ASSUME NEW v \in Views, NEW h \in 0..MaxHp, NEW r \in Nat
    PROVE  /\ HealthChanged(v, h, r) \in Views
           /\ HealthChanged(v, h, r).hp = h /\ HealthChanged(v, h, r).revision = r
           /\ HealthChanged(v, h, r).dead = v.dead
<1>1. HealthChanged(v, h, r) \in Views
    BY DEF Views, HealthChanged
<1>2. /\ HealthChanged(v, h, r).hp = h /\ HealthChanged(v, h, r).revision = r
      /\ HealthChanged(v, h, r).dead = v.dead
    BY DEF Views, HealthChanged
<1> QED
    BY <1>1, <1>2

LEMMA DiedWritten ==
    ASSUME NEW v \in Views, NEW r \in Nat
    PROVE  /\ EntityDied(v, r) \in Views
           /\ EntityDied(v, r).hp = 0 /\ EntityDied(v, r).revision = r /\ EntityDied(v, r).dead = TRUE
<1>1. EntityDied(v, r) \in Views
    <2>1. \A k \in 0..MaxHp, d \in BOOLEAN : [v EXCEPT !.hp = k, !.dead = d, !.revision = r] \in Views
        BY ViewWritten
    <2>2. 0 \in 0..MaxHp /\ TRUE \in BOOLEAN
        BY Amounts
    <2> QED
        BY ONLY <2>1, <2>2, Zenon DEF EntityDied
<1>2. EntityDied(v, r).hp = 0 /\ EntityDied(v, r).revision = r /\ EntityDied(v, r).dead = TRUE
    BY DEF Views, EntityDied
<1> QED
    BY <1>1, <1>2

LEMMA SpawnedWritten ==
    ASSUME NEW v \in Views, NEW r \in Nat
    PROVE  /\ EntitySpawned(v, r) \in Views
           /\ EntitySpawned(v, r).hp = MaxHp /\ EntitySpawned(v, r).revision = r
           /\ EntitySpawned(v, r).dead = FALSE
<1>1. EntitySpawned(v, r) \in Views
    <2>1. \A k \in 0..MaxHp, d \in BOOLEAN : [v EXCEPT !.hp = k, !.dead = d, !.revision = r] \in Views
        BY ViewWritten
    <2>2. MaxHp \in 0..MaxHp /\ FALSE \in BOOLEAN
        BY Amounts
    <2> QED
        BY ONLY <2>1, <2>2, Zenon DEF EntitySpawned
<1>2. /\ EntitySpawned(v, r).hp = MaxHp /\ EntitySpawned(v, r).revision = r
      /\ EntitySpawned(v, r).dead = FALSE
    BY DEF Views, EntitySpawned
<1> QED
    BY <1>1, <1>2

LEMMA SameView ==
    ASSUME NEW v \in Views, NEW w \in Views, v.hp = w.hp, v.revision = w.revision, v.dead = w.dead
    PROVE  v = w
BY DEF Views

View(s) == [hp |-> s.hp, revision |-> s.revision, dead |-> s.dead]

LEMMA ViewTyped ==
    ASSUME NEW s \in Foes
    PROVE  /\ View(s) \in Views /\ s.hp \in 0..MaxHp /\ s.revision \in Nat /\ s.dead \in BOOLEAN
           /\ View(s).hp = s.hp /\ View(s).revision = s.revision /\ View(s).dead = s.dead
BY DEF Foes, Views, View

(* Each message, or the two of a death, tells a client how the enemy is.       *)
LEMMA DiedTells ==
    ASSUME NEW v \in Views, NEW s \in Foes, s.dead, s.hp = 0
    PROVE  EntityDied(v, s.revision) = View(s)
<1> DEFINE w == EntityDied(v, s.revision)
<1>0. s.dead = TRUE /\ s.revision \in Nat /\ 0 \in 0..MaxHp
    BY Amounts, ViewTyped
<1>1. w \in Views /\ w.hp = 0 /\ w.revision = s.revision /\ w.dead = TRUE
    BY <1>0, DiedWritten
<1>2. View(s) \in Views /\ View(s).hp = 0 /\ View(s).revision = s.revision /\ View(s).dead = TRUE
    BY <1>0, ViewTyped
<1> HIDE DEF w
<1> QED
    BY <1>1, <1>2, SameView DEF w

LEMMA HealthTells ==
    ASSUME NEW v \in Views, v.dead = FALSE, NEW s \in Foes, ~s.dead
    PROVE  HealthChanged(v, s.hp, s.revision) = View(s)
<1> DEFINE w == HealthChanged(v, s.hp, s.revision)
<1>0. s.dead = FALSE /\ s.revision \in Nat /\ s.hp \in 0..MaxHp
    BY ViewTyped
<1>1. w \in Views /\ w.hp = s.hp /\ w.revision = s.revision /\ w.dead = FALSE
    BY <1>0, HealthWritten
<1>2. View(s) \in Views /\ View(s).hp = s.hp /\ View(s).revision = s.revision /\ View(s).dead = FALSE
    BY <1>0, ViewTyped
<1> HIDE DEF w
<1> QED
    BY <1>1, <1>2, SameView DEF w

LEMMA SpawnedTells ==
    ASSUME NEW v \in Views, NEW s \in Foes, ~s.dead, s.hp = MaxHp
    PROVE  EntitySpawned(v, s.revision) = View(s)
<1> DEFINE w == EntitySpawned(v, s.revision)
<1>0. s.dead = FALSE /\ s.revision \in Nat /\ MaxHp \in 0..MaxHp
    BY Amounts, ViewTyped
<1>1. w \in Views /\ w.hp = MaxHp /\ w.revision = s.revision /\ w.dead = FALSE
    BY <1>0, SpawnedWritten
<1>2. View(s) \in Views /\ View(s).hp = MaxHp /\ View(s).revision = s.revision /\ View(s).dead = FALSE
    BY <1>0, ViewTyped
<1> HIDE DEF w
<1> QED
    BY <1>1, <1>2, SameView DEF w

(* A hit takes health of the present life, and everybody is told the same.     *)
LEMMA HitStays ==
    ASSUME EnemiesInv, Links, NEW e \in Enemies, ~enemy[e].dead, NEW damage \in Nat \ {0},
           Hit(e, damage), joined' = joined
    PROVE  EnemiesInv'
<1> USE Amounts DEF EnemiesInv
<1> DEFINE s == Wounded(enemy[e], damage)
<1>1. /\ s \in Foes /\ (s.dead <=> s.hp = 0)
    BY WoundedFoe
<1>2. /\ enemy' = [enemy EXCEPT ![e] = s]
      /\ told' = [c \in Connections |->
                     IF c \in joined THEN [told[c] EXCEPT ![e] = News(@, s)] ELSE told[c]]
    BY DEF Hit
<1>3. ASSUME NEW c \in joined PROVE News(told[c][e], s) = View(s)
    <2>1. told[c][e] \in Views /\ told[c][e].dead = FALSE
        <3>1. c \in Connections /\ told[c][e] \in Views
            BY <1>3 DEF Links
        <3>2. enemy[e] \in Foes /\ enemy[e].dead = FALSE
            BY DEF Foes
        <3>3. told[c][e] = [hp |-> enemy[e].hp, revision |-> enemy[e].revision, dead |-> enemy[e].dead]
            BY <1>3 DEF ClientsAgree
        <3> QED
            BY <3>1, <3>2, <3>3
    <2> HIDE DEF s
    <2>2. CASE s.dead
        <3> DEFINE v == HealthChanged(told[c][e], s.hp, s.revision)
        <3>1. v \in Views
            BY <1>1, <2>1, HealthWritten, ViewTyped DEF s
        <3>2. News(told[c][e], s) = EntityDied(v, s.revision)
            BY <2>2 DEF News
        <3> HIDE DEF v
        <3> QED
            BY <1>1, <2>2, <3>1, <3>2, DiedTells DEF s
    <2>3. CASE ~s.dead
        BY <1>1, <2>1, <2>3, HealthTells DEF s, News
    <2> QED
        BY <2>2, <2>3
<1> HIDE DEF s
<1>4. told' \in [Connections -> [Enemies -> Views]]
    BY <1>1, <1>2, <1>3, ViewTyped
<1>5. \A f \in Enemies : enemy'[f].dead <=> enemy'[f].hp = 0
    BY <1>1, <1>2
<1>6. ClientsAgree'
    <2> SUFFICES ASSUME NEW c \in joined, NEW f \in Enemies
                 PROVE  told'[c][f] = View(enemy'[f])
        BY DEF ClientsAgree, View
    <2>1. c \in Connections /\ told[c][f] = View(enemy[f])
        BY DEF ClientsAgree, View, Links
    <2>2. CASE f # e
        BY <1>2, <2>1, <2>2
    <2>3. CASE f = e
        BY <1>2, <1>3, <2>1, <2>3
    <2> QED
        BY <2>2, <2>3
<1>7. enemy' \in [Enemies -> Foes]
    BY <1>1, <1>2
<1>8. \A c \in Connections \ joined', f \in Enemies : told'[c][f].dead = FALSE
    BY <1>2
<1> QED
    BY <1>4, <1>5, <1>6, <1>7, <1>8

(* An enemy that comes back begins a new life, of which everybody is told.     *)
LEMMA FrameStays ==
    ASSUME EnemiesInv, Links, Frame
    PROVE  EnemiesInv'
<1> USE Amounts DEF EnemiesInv
<1>1. /\ enemy' = [e \in Enemies |-> Respawned(e)]
      /\ told' = [c \in Connections |-> [e \in Enemies |->
                     IF c \in joined /\ Due(e)
                     THEN EntitySpawned(told[c][e], Respawned(e).revision)
                     ELSE told[c][e]]]
      /\ joined' = joined
    BY DEF Frame, links
<1>2. \A e \in Enemies : Respawned(e) \in Foes
    BY RespawnedFoe
<1>3. ASSUME NEW c \in joined, NEW e \in Enemies, Due(e)
      PROVE  EntitySpawned(told[c][e], Respawned(e).revision) = View(Respawned(e))
    <2>1. told[c][e] \in Views
        BY DEF Links
    <2>2. Respawned(e).hp = MaxHp /\ Respawned(e).dead = FALSE
        BY <1>2, <1>3, RespawnedFoe DEF Foes
    <2> QED
        BY <1>2, <2>1, <2>2, SpawnedTells
<1>4. told' \in [Connections -> [Enemies -> Views]]
    BY <1>1, <1>2, <1>3, ViewTyped
<1>5. \A e \in Enemies : enemy'[e].dead <=> enemy'[e].hp = 0
    BY <1>1, RespawnedFoe
<1>6. ClientsAgree'
    <2> SUFFICES ASSUME NEW c \in joined, NEW e \in Enemies
                 PROVE  told'[c][e] = View(enemy'[e])
        BY <1>1 DEF ClientsAgree, View
    <2>1. c \in Connections /\ told[c][e] = View(enemy[e])
        BY DEF ClientsAgree, View, Links
    <2>2. CASE Due(e)
        BY <1>1, <1>3, <2>1, <2>2
    <2>3. CASE ~Due(e)
        <3>1. View(Respawned(e)) = View(enemy[e])
            BY <2>3, RespawnedFoe DEF View
        <3> QED
            BY <1>1, <2>1, <2>3, <3>1
    <2> QED
        BY <2>2, <2>3
<1>7. enemy' \in [Enemies -> Foes]
    BY <1>1, <1>2
<1>8. \A c \in Connections \ joined', e \in Enemies : told'[c][e].dead = FALSE
    BY <1>1
<1> QED
    BY <1>4, <1>5, <1>6, <1>7, <1>8

(* Who joins is told how the enemies are, a dead one to be dead.              *)
LEMMA JoinStays ==
    ASSUME EnemiesInv, Links, NEW c \in Connections, Join(c)
    PROVE  EnemiesInv'
<1> USE DEF EnemiesInv
<1>1. /\ enemy' = enemy /\ c \notin joined /\ joined' = joined \cup {c}
      /\ told' = [told EXCEPT ![c] = Arrival(c)]
    BY DEF Join
<1>2. ASSUME NEW e \in Enemies PROVE Arrival(c)[e] = View(enemy[e])
    <2>1. told[c][e] \in Views /\ enemy[e] \in Foes /\ (enemy[e].dead <=> enemy[e].hp = 0)
          /\ told[c][e].dead = FALSE
        BY <1>1
    <2>2. CASE enemy[e].dead
        BY <2>1, <2>2, DiedTells DEF Arrival
    <2>3. CASE ~enemy[e].dead
        BY <2>1, <2>3, HealthTells DEF Arrival
    <2> QED
        BY <2>2, <2>3
<1>3. Arrival(c) \in [Enemies -> Views]
    <2>1. \A e \in Enemies : Arrival(c)[e] \in Views
        BY <1>2, ViewTyped
    <2> QED
        BY <2>1 DEF Arrival
<1>4. ClientsAgree'
    <2> SUFFICES ASSUME NEW d \in joined', NEW e \in Enemies
                 PROVE  told'[d][e] = View(enemy[e])
        BY <1>1 DEF ClientsAgree, View
    <2>1. CASE d = c
        BY <1>1, <1>2, <2>1
    <2>2. CASE d # c
        BY <1>1, <2>2 DEF ClientsAgree, View, Links
    <2> QED
        BY <2>1, <2>2
<1> QED
    BY <1>1, <1>3, <1>4

(* Who is removed forgets what it has been told.                              *)
LEMMA RemoveStays ==
    ASSUME EnemiesInv, Links, NEW c \in Connections, Remove(c)
    PROVE  EnemiesInv'
<1>1. /\ enemy' = enemy /\ joined' = joined \ {c}
      /\ told' = [told EXCEPT ![c] = [e \in Enemies |-> Unheard]]
    BY DEF Remove
<1>2. Unheard \in Views /\ Unheard.dead = FALSE
    BY Amounts DEF Unheard, Views
<1>3. \A d \in Connections : d # c => told'[d] = told[d]
    BY <1>1 DEF EnemiesInv
<1>4. \A e \in Enemies : told'[c][e] = Unheard
    BY <1>1 DEF EnemiesInv
<1>5. told' \in [Connections -> [Enemies -> Views]]
    BY <1>1, <1>2 DEF EnemiesInv
<1> QED
    BY <1>1, <1>2, <1>3, <1>4, <1>5 DEF EnemiesInv, ClientsAgree, Links

LEMMA EnemiesStay == Links /\ EnemiesInv /\ [Next]_vars => EnemiesInv'
<1> SUFFICES ASSUME Links, EnemiesInv, [Next]_vars PROVE EnemiesInv'
    OBVIOUS
<1>1. ASSUME NEW c \in Connections, NEW e \in Enemies, NEW i \in Ids, Attack(c, e, i) PROVE EnemiesInv'
    BY <1>1, HitStays, Amounts DEF Attack, CanAttack, CanFight, links
<1>2. ASSUME NEW c \in Connections, NEW e \in Enemies, NEW i \in Ids, UseAbility(c, e, i) PROVE EnemiesInv'
    BY <1>2, HitStays, Amounts DEF UseAbility, CanUseAbility, CanFight, links
<1>3. ASSUME NEW c \in Connections, Leave(c) \/ Reject(c) PROVE EnemiesInv'
    BY <1>3, RemoveStays DEF Leave, Reject
<1>4. CASE UNCHANGED <<enemy, told, joined>>
    BY <1>4 DEF EnemiesInv, ClientsAgree
<1>5. Next => \/ \E c \in Connections : \/ Join(c) \/ Leave(c) \/ Reject(c)
                                        \/ \E e \in Enemies, i \in Ids : Attack(c, e, i) \/ UseAbility(c, e, i)
              \/ Frame
              \/ UNCHANGED <<enemy, told, joined>>
    BY DEF Next, ConnectionStep, RequestStep, GraceStep, Identify, Reconnect, ReconnectLate, Acquired,
           Refused, Embody, FreeEntity, GraceEnds, RenewEntry, EntryRenewed, EntryNotRenewed, MoveInput,
           links
<1> QED
    BY <1>1, <1>2, <1>3, <1>4, <1>5, FrameStays, JoinStays DEF vars, links

(* A request is remembered exactly as long as it has landed.                  *)
LEMMA ClaimsStay == Links /\ ClaimsInv /\ [Next]_vars => ClaimsInv'
<1> SUFFICES ASSUME Links, ClaimsInv, [Next]_vars PROVE ClaimsInv'
    OBVIOUS
<1> USE Amounts DEF ClaimsInv, Requests
<1>1. ASSUME NEW c \in Connections, NEW e \in Enemies, NEW i \in Ids, Attack(c, e, i) PROVE ClaimsInv'
    <2>1. conn[c] \in Players /\ i \notin attackSeen[conn[c]]
        BY <1>1 DEF Attack, CanAttack, CanFight, Embodied, Links, Slots
    <2> QED
        BY <1>1, <2>1 DEF Attack, Landed
<1>2. ASSUME NEW c \in Connections, NEW e \in Enemies, NEW i \in Ids, UseAbility(c, e, i) PROVE ClaimsInv'
    <2>1. conn[c] \in Players /\ i \notin abilitySeen[conn[c]]
        BY <1>2 DEF UseAbility, CanUseAbility, CanFight, Embodied, Links, Slots
    <2> QED
        BY <1>2, <2>1 DEF UseAbility, Landed
<1>3. ASSUME NEW c \in Connections, Leave(c) \/ Reject(c) PROVE ClaimsInv'
    <2>1. CASE UNCHANGED <<claims, landed>>
        BY <2>1 DEF claims
    <2>2. CASE conn[c] # Nobody
        <3>1. conn[c] \in Players
            BY <2>2 DEF Links, Slots
        <3>2. /\ attackSeen' = attackSeen /\ attackWait' = attackWait
              /\ abilitySeen' = [abilitySeen EXCEPT ![conn[c]] = {}]
              /\ abilityWait' = [abilityWait EXCEPT ![conn[c]] = 0]
              /\ struckWait' = [s \in Enemies \X Connections |-> IF s[2] = c THEN 0 ELSE struckWait[s]]
              /\ landed' = [l \in Requests |-> IF l[1] = conn[c] /\ l[2] = "ability" THEN 0 ELSE landed[l]]
            BY <1>3, <2>2 DEF Leave, Reject, Remove, ForgetPlayer
        <3> QED
            BY <3>1, <3>2
    <2> QED
        BY <1>3, <2>1, <2>2 DEF Leave, Reject, Remove
<1>4. CASE Frame
    <2>1. \A n \in Nat, k \in Nat : n \in 0..k => Later(n) \in 0..k
        BY DEF Later
    <2>2. /\ attackSeen' = attackSeen /\ abilitySeen' = abilitySeen /\ landed' = landed
          /\ attackWait' = [c \in Connections |-> Later(attackWait[c])]
          /\ abilityWait' = [p \in Players |-> Later(abilityWait[p])]
          /\ \E struck \in SUBSET Targets :
                struckWait' = [s \in Enemies \X Connections |->
                                  IF s \in struck THEN EnemyCooldown ELSE Later(struckWait[s])]
        BY <1>4 DEF Frame
    <2> QED
        BY <2>1, <2>2
<1>5. CASE UNCHANGED <<claims, landed>>
    BY <1>5 DEF claims
<1>6. Next => \/ \E c \in Connections : \/ Leave(c) \/ Reject(c)
                                        \/ \E e \in Enemies, i \in Ids : Attack(c, e, i) \/ UseAbility(c, e, i)
              \/ Frame
              \/ UNCHANGED <<claims, landed>>
    BY DEF Next, ConnectionStep, RequestStep, GraceStep, Identify, Reconnect, ReconnectLate, Acquired,
           Refused, Embody, Join, FreeEntity, GraceEnds, RenewEntry, EntryRenewed, EntryNotRenewed,
           MoveInput
<1> QED
    BY <1>1, <1>2, <1>3, <1>4, <1>5, <1>6 DEF vars

(* What a player has is in its connections and in its entry.                   *)
LEMMA HeldPlaces ==
    ASSUME NEW p \in Players, NEW o \in Connections
    PROVE  /\ o \in Held(p) <=> saved[p] = o \/ \E c \in Connections : conn[c] = p /\ has[c] = o
           /\ o \in Held(p)' <=> saved'[p] = o \/ \E c \in Connections : conn'[c] = p /\ has'[c] = o
BY DEF Held

(* A player gets a body that it has not held from its own authentication, and   *)
(* keeps the one it has then, or from a late renewal.                         *)
LEMMA HeldStep ==
    ASSUME Links, PlacesInv, [Next]_vars, NEW p \in Players
    PROVE  Held(p) \subseteq Held(p)' \/ Held(p)' \subseteq Held(p) \cup {kept[p]}
<1> USE ArenaAssumption, NoBodies DEF Links, Slots
<1> DEFINE Kept == Held(p) \subseteq Held(p)' \/ Held(p)' \subseteq Held(p) \cup {kept[p]}
<1>0. /\ PlacesTyped /\ Unborn
      /\ Held(p) \subseteq Connections /\ Held(p)' \subseteq Connections
    BY DEF PlacesInv, Held
<1>1. ASSUME NEW c \in Connections, NEW q \in Players, Reconnect(c, q) PROVE Kept
    <2>1. /\ conn' = [conn EXCEPT ![c] = q] /\ has' = [has EXCEPT ![c] = saved[q]]
          /\ saved' = [saved EXCEPT ![q] = NoEntry] /\ c \notin used
        BY <1>1 DEF Reconnect, CanReconnect, Comes, New
    <2>2. conn[c] = Nobody
        BY <2>1
    <2>3. ASSUME NEW o \in Connections, o \in Held(p)' PROVE o \in Held(p)
        <3>1. CASE saved'[p] = o
            <4>1. saved[p] = o
                BY <1>0, <2>1, <3>1 DEF PlacesTyped
            <4> QED
                BY <4>1, HeldPlaces
        <3>2. CASE \E d \in Connections : conn'[d] = p /\ has'[d] = o
            <4>1. PICK d \in Connections : conn'[d] = p /\ has'[d] = o
                BY <3>2
            <4>2. (d = c /\ q = p /\ saved[p] = o) \/ (conn[d] = p /\ has[d] = o)
                BY <1>0, <2>1, <4>1 DEF PlacesTyped
            <4> QED
                BY <4>2, HeldPlaces
        <3> QED
            BY <2>3, <3>1, <3>2, HeldPlaces
    <2> QED
        BY <1>0, <2>3
<1>2. ASSUME NEW c \in Connections, Acquired(c) PROVE Kept
    <2>1. conn' = [conn EXCEPT ![c] = asking[c]] /\ asking[c] # Nobody /\ UNCHANGED <<has, saved>>
        BY <1>2 DEF Acquired, bodies
    <2>2. has[c] = NoBody
        BY <1>0, <2>1 DEF Unborn, Unmade
    <2>3. ASSUME NEW o \in Connections, o \in Held(p)' PROVE o \in Held(p)
        <3>1. CASE saved'[p] = o
            BY <2>1, <3>1, HeldPlaces
        <3>2. CASE \E d \in Connections : conn'[d] = p /\ has'[d] = o
            <4>1. PICK d \in Connections : conn'[d] = p /\ has'[d] = o
                BY <3>2
            <4>2. conn[d] = p /\ has[d] = o
                BY <2>1, <2>2, <4>1
            <4> QED
                BY <4>2, HeldPlaces
        <3> QED
            BY <2>3, <3>1, <3>2, HeldPlaces
    <2> QED
        BY <1>0, <2>3
<1>3. ASSUME NEW c \in Connections, Embody(c) PROVE Kept
    <2>1. conn' = conn /\ has' = [has EXCEPT ![c] = c] /\ saved' = saved /\ loading[c] # Nobody
        BY <1>3 DEF Embody
    <2>2. has[c] = NoBody
        BY <1>0, <2>1 DEF Unborn, Unmade
    <2>3. ASSUME NEW o \in Connections, o \in Held(p) PROVE o \in Held(p)'
        <3>1. CASE saved[p] = o
            BY <2>1, <3>1, HeldPlaces
        <3>2. CASE \E d \in Connections : conn[d] = p /\ has[d] = o
            <4>1. PICK d \in Connections : conn[d] = p /\ has[d] = o
                BY <3>2
            <4>2. conn'[d] = p /\ has'[d] = o
                BY <1>0, <2>1, <2>2, <4>1 DEF PlacesTyped
            <4> QED
                BY <4>2, HeldPlaces
        <3> QED
            BY <2>3, <3>1, <3>2, HeldPlaces
    <2> QED
        BY <1>0, <2>3
<1>4. ASSUME NEW c \in Connections, Leave(c) \/ Reject(c) PROVE Kept
    <2>1. /\ conn' = [conn EXCEPT ![c] = Nobody] /\ has' = [has EXCEPT ![c] = NoBody]
          /\ saved' = saved \/ (conn[c] # Nobody /\ saved' = [saved EXCEPT ![conn[c]] = has[c]])
        BY <1>4 DEF Leave, Reject, Remove
    <2>2. ASSUME NEW o \in Connections, o \in Held(p)' PROVE o \in Held(p)
        <3>1. CASE saved'[p] = o
            <4>1. saved[p] = o \/ (conn[c] = p /\ has[c] = o)
                BY <1>0, <2>1, <3>1 DEF PlacesTyped
            <4> QED
                BY <4>1, HeldPlaces
        <3>2. CASE \E d \in Connections : conn'[d] = p /\ has'[d] = o
            <4>1. PICK d \in Connections : conn'[d] = p /\ has'[d] = o
                BY <3>2
            <4>2. conn[d] = p /\ has[d] = o
                BY <1>0, <2>1, <4>1 DEF PlacesTyped
            <4> QED
                BY <4>2, HeldPlaces
        <3> QED
            BY <2>2, <3>1, <3>2, HeldPlaces
    <2> QED
        BY <1>0, <2>2
<1>5. ASSUME UNCHANGED <<conn, has>>, \A q \in Players : saved'[q] \in {saved[q], kept[q], NoEntry}
      PROVE  Kept
    <2>1. ASSUME NEW o \in Connections, o \in Held(p)' PROVE o \in Held(p) \cup {kept[p]}
        <3>1. CASE saved'[p] = o
            <4>1. saved[p] = o \/ kept[p] = o
                BY <1>5, <3>1
            <4> QED
                BY <4>1, HeldPlaces
        <3>2. CASE \E d \in Connections : conn'[d] = p /\ has'[d] = o
            BY <1>5, <3>2, HeldPlaces
        <3> QED
            BY <2>1, <3>1, <3>2, HeldPlaces
    <2> QED
        BY <1>0, <2>1
<1>6. ASSUME NEW c \in Connections, NEW q \in Players, ReconnectLate(c, q) PROVE Kept
    BY <1>0, <1>5, <1>6 DEF ReconnectLate, PlacesTyped
<1>7. ASSUME NEW q \in Players, GraceEnds(q) \/ EntryRenewed(q) PROVE Kept
    BY <1>0, <1>5, <1>7 DEF GraceEnds, EntryRenewed, way, PlacesTyped
<1>8. CASE UNCHANGED <<conn, has, saved>>
    BY <1>5, <1>8
<1>9. Next => \/ \E c \in Connections :
                     \/ \E q \in Players : Reconnect(c, q) \/ ReconnectLate(c, q)
                     \/ Acquired(c) \/ Embody(c) \/ Leave(c) \/ Reject(c)
              \/ \E q \in Players : GraceEnds(q) \/ EntryRenewed(q)
              \/ UNCHANGED <<conn, has, saved>>
    BY DEF Next, ConnectionStep, RequestStep, GraceStep, Identify, Refused, Join, FreeEntity,
           RenewEntry, EntryNotRenewed, Attack, UseAbility, MoveInput, Frame, links, bodies
<1> QED
    BY <1>1, <1>2, <1>3, <1>4, <1>6, <1>7, <1>8, <1>9 DEF vars, links, bodies

(* For every number of connections, players, enemies and requests, and all the *)
(* amounts: the five parts of the invariant hold in every behaviour.          *)
THEOREM ArenaSafe == Spec => []ArenaInv
<1>1. ArenaInv /\ [Next]_vars => ArenaInv'
    BY LinksStay, BodiesStep, PlacesStay, EnemiesStay, ClaimsStay DEF ArenaInv, PlacesInv
<1> QED
    BY <1>1, ArenaStart, PTL DEF Spec

(* The variables keep their types.                                           *)
THEOREM ArenaTyped == Spec => []TypeOK
<1>1. ArenaInv => TypeOK
    BY DEF ArenaInv, Links, Slots, BodiesInv, PlacesInv, PlacesTyped, EnemiesInv, Foes, Views,
           ClaimsInv, Requests, TypeOK
<1> QED
    BY <1>1, ArenaSafe, PTL

(* Whoever has joined has been told what the enemies are.                     *)
THEOREM ClientsAreTold == Spec => []ClientsAgree
<1>1. ArenaInv => ClientsAgree
    BY DEF ArenaInv, EnemiesInv
<1> QED
    BY <1>1, ArenaSafe, PTL

(* A repeated request takes no effect.                                        *)
THEOREM RequestsLandOnce == Spec => []LandsOnce
<1>1. ArenaInv => LandsOnce
    <2> SUFFICES ASSUME ArenaInv, NEW l \in DOMAIN landed PROVE landed[l] <= 1
        BY DEF LandsOnce
    <2>1. l \in Requests
        BY DEF ArenaInv, ClaimsInv
    <2>2. PICK p \in Players, k \in {"attack", "ability"}, i \in Ids : l = <<p, k, i>>
        BY <2>1 DEF Requests
    <2>3. /\ landed[<<p, "attack", i>>] = IF i \in attackSeen[p] THEN 1 ELSE 0
          /\ landed[<<p, "ability", i>>] = IF i \in abilitySeen[p] THEN 1 ELSE 0
        BY DEF ArenaInv, ClaimsInv
    <2>4. l = <<p, "attack", i>> \/ l = <<p, "ability", i>>
        BY <2>2
    <2> QED
        BY <2>3, <2>4
<1> QED
    BY <1>1, ArenaSafe, PTL

(* The inputs that wait are ahead of the last one processed.                  *)
THEOREM InputsAreAhead == Spec => []InputsAhead
<1>1. ArenaInv => InputsAhead
    BY DEF ArenaInv, BodiesInv, InputsAhead, Ahead
<1> QED
    BY <1>1, ArenaSafe, PTL

(* The entity of a player in the game is there, except after a late renewal.   *)
THEOREM EntitiesStayAlive == Spec => []EntitiesLive
<1>1. ArenaInv => EntitiesLive
    BY DEF ArenaInv, PlacesInv, PlacesTyped, OnePlace, Carries, EntitiesLive
<1> QED
    BY <1>1, ArenaSafe, PTL

(* Leaving and coming back neither heals a player nor takes it back, and its    *)
(* only body is replaced by a late renewal at most.                           *)
THEOREM StaysContinue == Spec => StayContinues
<1> DEFINE Step(p) ==
              /\ \A o \in Held(p) \cap Held(p)' : Continues(o)
              /\ \A o, q \in Connections :
                    Held(p) = {o} /\ Held(p)' = {q} => q = o \/ kept[p] = q
<1>1. ASSUME ArenaInv, [Next]_vars, NEW p \in Players PROVE Step(p)
    <2>1. ASSUME NEW o \in Held(p) PROVE o \in Connections /\ ~Unmade(o)
        <3>1. o \in Connections
            BY DEF Held
        <3>2. saved[p] = o \/ \E c \in Connections : conn[c] = p /\ has[c] = o
            BY <2>1, <3>1, HeldPlaces
        <3>3. Unmade(o) => saved[p] # o /\ \A c \in Connections : has[c] # o
            BY <1>1, <3>1 DEF ArenaInv, PlacesInv, Unborn
        <3> QED
            BY <3>1, <3>2, <3>3
    <2>2. \A o \in Connections : ~Unmade(o) => Continues(o)
        BY <1>1, BodiesStep DEF ArenaInv, PlacesInv
    <2>3. Held(p) \subseteq Held(p)' \/ Held(p)' \subseteq Held(p) \cup {kept[p]}
        BY <1>1, HeldStep DEF ArenaInv
    <2> QED
        BY <2>1, <2>2, <2>3
<1>2. ArenaInv /\ [Next]_vars => [\A p \in Players : Step(p)]_vars
    BY <1>1
<1> QED
    BY <1>2, ArenaSafe, PTL DEF StayContinues, Spec
=============================================================================
