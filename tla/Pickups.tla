------------------------------ MODULE Pickups -------------------------------
(***************************************************************************)
(* The pickups of one room and the progress the GameServer caches for its  *)
(* players: server.gd _try_pickup, change_equipment and advance_quest,     *)
(* whose calls of the Backend are awaited while everything else goes on.   *)
(*                                                                         *)
(* A player's row is its revision, the number of its items (inv) and       *)
(* `rest': the revision that last changed equipment or quests.  Which      *)
(* quests pay a reward is in ProgressRules; here any may.  That an         *)
(* equipment answer lists no quests is left out.  A pickup names one item, *)
(* as all entries of the catalogue do.  A pickup refused at once (out of   *)
(* range, say) changes nothing and is not a step.  As in GameSession the   *)
(* Backend has done or refused a call when its caller resumes.  A player   *)
(* has one connection at a time: what two of them lead to is in            *)
(* GameSession and Arena.  One life of the server process: a restart       *)
(* builds a new world.                                                     *)
(***************************************************************************)
EXTENDS Integers, FiniteSets

CONSTANTS
    Players, Connections, NoConnection,
    Entities,        \* the catalogue of world items
    NoEntity,
    Requests,        \* request ids of clients
    ReuseRequests,   \* may a client reuse the request id of a pickup?
    Calls,           \* calls of the Backend at a time
    NoAnswer,
    MaxRevision      \* bound: a row's revision

ASSUME PickupAssumption ==
    /\ NoConnection \notin Connections /\ NoEntity \notin Entities
    /\ ReuseRequests \in BOOLEAN /\ MaxRevision \in Nat

VARIABLES
    entity,      \* pickup_entities: available, reserved or consumed
    at,          \* identities, inverted: a player's connection
    seen,        \* progress_snapshots, kept in `disconnected' meanwhile
    uncertain,   \* players whose lease the last renewal left in doubt
    call,        \* the calls of the Backend and who awaits them
    row,         \* Backend: player_progress
    ops,         \* Backend: progress_operation
    lease,       \* Backend: fencing tokens
    used,        \* connections there have been
    asked,       \* request ids each player has sent with a pickup
    grants,      \* ghost: how often a pickup of the entity was applied
    entered      \* ghost: the revision each player's login has loaded

world   == <<entity, uncertain>>
backend == <<row, ops, lease, grants>>
session == <<at, used, entered>>
vars    == <<world, session, seen, call, backend, asked>>

Revisions == 0..MaxRevision
Rows == [rev : Revisions, inv : Nat, rest : Revisions]

Idle == [stage |-> "idle"]
CallRecords ==
    [stage : {"sent", "committed", "served"}, kind : {"pickup", "equip", "quest"},
     player : Players, conn : Connections, req : Requests, entity : Entities \cup {NoEntity},
     expected : Revisions, token : Nat, answer : Rows \cup {NoAnswer}]

TypeOK ==
    /\ entity \in [Entities -> {"available", "reserved", "consumed"}]
    /\ at \in [Players -> Connections \cup {NoConnection}]
    /\ seen \in [Players -> Rows]
    /\ uncertain \subseteq Players
    /\ call \in [Calls -> CallRecords \cup {Idle}]
    /\ row \in [Players -> Rows]
    /\ ops \in [Players -> SUBSET
          [id : {"server", "client"} \X Requests, kind : {"pickup", "equip", "quest"}, rev : Revisions]]
    /\ lease \in [Players -> Nat]
    /\ used \subseteq Connections
    /\ asked \in [Players -> SUBSET Requests]
    /\ grants \in [Entities -> Nat]
    /\ entered \in [Players -> Revisions]

NewRow == [rev |-> 0, inv |-> 0, rest |-> 0]

Init ==
    /\ entity = [e \in Entities |-> "available"]
    /\ at = [p \in Players |-> NoConnection]
    /\ seen = [p \in Players |-> NewRow] /\ uncertain = {}
    /\ call = [c \in Calls |-> Idle]
    /\ row = [p \in Players |-> NewRow] /\ ops = [p \in Players |-> {}]
    /\ lease = [p \in Players |-> 0] /\ used = {}
    /\ asked = [p \in Players |-> {}]
    /\ grants = [e \in Entities |-> 0]
    /\ entered = [p \in Players |-> 0]
-----------------------------------------------------------------------------
(* Connections, as far as they matter here.                                  *)

(* A login: acquire raises the token, snapshot loads the row.                *)
Enter(p, k) ==
    /\ at[p] = NoConnection /\ k \notin used
    /\ at' = [at EXCEPT ![p] = k]
    /\ used' = used \cup {k}
    /\ lease' = [lease EXCEPT ![p] = @ + 1]
    /\ seen' = [seen EXCEPT ![p] = row[p]]
    /\ entered' = [entered EXCEPT ![p] = row[p].rev]
    /\ uncertain' = uncertain \ {p}
    /\ UNCHANGED <<entity, call, row, ops, grants, asked>>

(* _remove_peer and _reconnect: the lease and the snapshot are kept.         *)
Leave(p) ==
    /\ at[p] # NoConnection
    /\ at' = [at EXCEPT ![p] = NoConnection]
    /\ UNCHANGED <<world, used, entered, seen, call, backend, asked>>

Reconnect(p, k) ==
    /\ at[p] = NoConnection /\ lease[p] > 0 /\ k \notin used
    /\ at' = [at EXCEPT ![p] = k]
    /\ used' = used \cup {k}
    /\ UNCHANGED <<world, entered, seen, call, backend, asked>>

(* _renew_sessions                                                           *)
Renewed(p) ==
    /\ p \in uncertain /\ uncertain' = uncertain \ {p}
    /\ UNCHANGED <<entity, session, seen, call, backend, asked>>

NotRenewed(p) ==
    /\ at[p] # NoConnection /\ p \notin uncertain /\ uncertain' = uncertain \cup {p}
    /\ UNCHANGED <<entity, session, seen, call, backend, asked>>
-----------------------------------------------------------------------------
(* The first half of the handlers, up to the await.                          *)

Send(c, kind, p, r, e, expected) ==
    call' = [call EXCEPT ![c] =
        [stage |-> "sent", kind |-> kind, player |-> p, conn |-> at[p], req |-> r, entity |-> e,
         expected |-> expected, token |-> lease[p], answer |-> NoAnswer]]

(* A slip: the entity is taken when the answer is there.                     *)
LeaveAvailable(e) == entity

Reserve(e) == [entity EXCEPT ![e] = "reserved"]

ExpectedByPickup(p) == 0

TryPickup(c, p, e, r) ==
    /\ call[c] = Idle
    /\ at[p] # NoConnection /\ p \notin uncertain
    /\ entity[e] = "available"
    /\ ReuseRequests \/ r \notin asked[p]
    /\ entity' = Reserve(e)
    /\ asked' = [asked EXCEPT ![p] = @ \cup {r}]
    /\ Send(c, "pickup", p, r, e, ExpectedByPickup(p))
    /\ UNCHANGED <<uncertain, session, seen, backend>>

(* change_equipment, advance_quest: the client says which revision it means. *)
ChangeProgress(c, p, kind, r, revision) ==
    /\ call[c] = Idle
    /\ at[p] # NoConnection
    /\ Send(c, kind, p, r, NoEntity, revision)
    /\ UNCHANGED <<world, session, seen, backend, asked>>
-----------------------------------------------------------------------------
(* The Backend.                                                              *)

OpId(x) == <<IF x.kind = "pickup" THEN "server" ELSE "client", x.req>>

Known(x) == {o \in ops[x.player] : o.id = OpId(x)}

Answer(c, out) == call' = [call EXCEPT ![c].stage = "served", ![c].answer = out]

(* A quest's answer is read in a second transaction.                         *)
AnswerLater(c) == call' = [call EXCEPT ![c].stage = "committed"]

(* The same operation again: a pickup is answered with the revision it had   *)
(* then and the inventory of now.                                            *)
Replay(c) ==
    LET x == call[c] IN
    /\ x.stage = "sent"
    /\ \E o \in Known(x) :
          /\ o.kind = x.kind
          /\ CASE x.kind = "pickup" -> Answer(c, [row[x.player] EXCEPT !.rev = o.rev])
               [] x.kind = "equip"  -> Answer(c, row[x.player])
               [] x.kind = "quest"  -> AnswerLater(c)
    /\ UNCHANGED <<world, session, seen, backend, asked>>

(* The items a commit brings: a quest that it completes pays its reward.     *)
Won(kind) == CASE kind = "pickup" -> {1} [] kind = "equip" -> {0} [] kind = "quest" -> {0, 1}

Changed(r, kind, won) ==
    [rev |-> r.rev + 1, inv |-> r.inv + won, rest |-> IF kind = "pickup" THEN r.rest ELSE r.rev + 1]

Commit(c) ==
    LET x == call[c] IN
    /\ x.stage = "sent" /\ Known(x) = {}
    /\ x.token = lease[x.player] /\ x.expected = row[x.player].rev
    /\ row[x.player].rev < MaxRevision
    /\ \E won \in Won(x.kind) :
          LET new == Changed(row[x.player], x.kind, won) IN
          /\ row' = [row EXCEPT ![x.player] = new]
          /\ ops' = [ops EXCEPT ![x.player] =
                        @ \cup {[id |-> OpId(x), kind |-> x.kind, rev |-> new.rev]}]
          /\ IF x.kind = "quest" THEN AnswerLater(c) ELSE Answer(c, new)
    /\ grants' = IF x.kind = "pickup" THEN [grants EXCEPT ![x.entity] = @ + 1] ELSE grants
    /\ UNCHANGED <<world, session, seen, lease, asked>>

(* CommitQuest: GetProgressSnapshot after the commit.                        *)
ReadBack(c) ==
    /\ call[c].stage = "committed"
    /\ Answer(c, row[call[c].player])
    /\ UNCHANGED <<world, session, seen, backend, asked>>

(* The call is refused, times out, or its answer is lost.                    *)
Fail(c) ==
    /\ call[c].stage \in {"sent", "committed", "served"}
    /\ Answer(c, NoAnswer) /\ call'[c] # call[c]
    /\ UNCHANGED <<world, session, seen, backend, asked>>
-----------------------------------------------------------------------------
(* The second half of the handlers.                                          *)

(* A slip: nobody asks whether the connection is still the player's.         *)
AnyConnection(x) == at[x.player] # NoConnection

StillHere(x) == at[x.player] = x.conn

Consume(e) == [entity EXCEPT ![e] = "consumed"]

(* A slip: an unknown outcome is taken for a refusal.  (Consume in place of  *)
(* KeepReserved takes it for a success.)                                     *)
MakeAvailable(e) == [entity EXCEPT ![e] = "available"]

KeepReserved(e) == entity

(* A slip: the revision stays what it was.                                   *)
AdvancedInventory(old, answer) == [old EXCEPT !.inv = answer.inv]

Advanced(old, answer) == [old EXCEPT !.rev = answer.rev, !.inv = answer.inv]

(* _try_pickup: a connection that has gone has no identity any more, and the *)
(* handler ends with a script error at its first print.  The Backend knows   *)
(* no other status than "succeeded".                                         *)
PickupAnswered(c) ==
    LET x == call[c] IN
    /\ x.stage = "served" /\ x.kind = "pickup"
    /\ IF x.answer = NoAnswer
       THEN entity' = KeepReserved(x.entity) /\ seen' = seen
       ELSE IF StillHere(x)
            THEN /\ entity' = Consume(x.entity)
                 /\ seen' = [seen EXCEPT ![x.player] = Advanced(@, x.answer)]
            ELSE UNCHANGED <<entity, seen>>
    /\ call' = [call EXCEPT ![c] = Idle]
    /\ UNCHANGED <<uncertain, session, backend, asked>>

(* change_equipment, advance_quest                                           *)
ChangeAnswered(c) ==
    LET x == call[c] IN
    /\ x.stage = "served" /\ x.kind \in {"equip", "quest"}
    /\ seen' = IF StillHere(x) /\ x.answer # NoAnswer
               THEN [seen EXCEPT ![x.player] = x.answer] ELSE seen
    /\ call' = [call EXCEPT ![c] = Idle]
    /\ UNCHANGED <<world, session, backend, asked>>

CallStep(c) ==
    \/ \E p \in Players, e \in Entities, r \in Requests : TryPickup(c, p, e, r)
    \/ \E p \in Players, kind \in {"equip", "quest"}, r \in Requests, revision \in Revisions :
          ChangeProgress(c, p, kind, r, revision)
    \/ Replay(c) \/ Commit(c) \/ ReadBack(c) \/ Fail(c)
    \/ PickupAnswered(c) \/ ChangeAnswered(c)

PlayerStep(p) ==
    \/ \E k \in Connections : Enter(p, k) \/ Reconnect(p, k)
    \/ Leave(p) \/ Renewed(p) \/ NotRenewed(p)

Next == (\E p \in Players : PlayerStep(p)) \/ (\E c \in Calls : CallStep(c))

Spec == Init /\ [][Next]_vars
-----------------------------------------------------------------------------
(* However many players reach for an entity at a time, one of them at most   *)
(* is given it (server.gd:468-477; the race of cmd/g1integration             *)
(* main.go:389).                                                             *)
GrantedOnce == \A e \in Entities : grants[e] <= 1

(* An entity that anybody may try to take has been given to nobody, and no   *)
(* call that might still give it away is under way: an unknown outcome is    *)
(* not taken for a refusal (server.gd:478-481).                              *)
AvailableIsFree ==
    \A e \in Entities : entity[e] = "available" =>
        /\ grants[e] = 0
        /\ \A c \in Calls : call[c] # Idle => call[c].entity # e

(* The invariant: each pickup under way has an entity of its own, reserved,  *)
(* and given to nobody before the Backend has committed.                     *)
CallsHoldEntities ==
    \A c \in Calls : call[c] # Idle =>
        IF call[c].kind = "pickup"
        THEN /\ call[c].entity \in Entities
             /\ entity[call[c].entity] = "reserved"
             /\ call[c].stage = "sent" => grants[call[c].entity] = 0
             /\ \A d \in Calls \ {c} : call[d] # Idle => call[d].entity # call[c].entity
        ELSE call[c].entity = NoEntity

PickupInv == TypeOK /\ CallsHoldEntities /\ GrantedOnce /\ AvailableIsFree

(* When clients give each pickup a request id of its own, an entity that was *)
(* consumed has been given to a player: no answer to another operation takes *)
(* it out of the world (server.gd:483-484).                                  *)
ConsumedIsGranted == \A e \in Entities : entity[e] = "consumed" => grants[e] = 1

(* What a login has loaded is not overwritten by the late answer to a call   *)
(* of an earlier connection (server.gd:386, 407).                            *)
NotBeforeLogin == \A p \in Players : seen[p].rev >= entered[p]

(* A late answer may take the cached progress back, but to an earlier         *)
(* revision and not behind its number: no step shows fewer items under the    *)
(* same revision or a later one (server.gd:391, 412, 493-501).               *)
ItemsLeaveWithRevision ==
    [][\A p \in Players : seen'[p].inv < seen[p].inv => seen'[p].rev < seen[p].rev]_vars
-----------------------------------------------------------------------------
(* The inductive invariants of the last three.                               *)

(* The progress of a player that is on its way or shown is a part of one       *)
(* history, whose last version is the row.                                    *)
Versions(p) ==
    {row[p], seen[p]}
        \cup {call[c].answer : c \in {d \in Calls : /\ call[d] # Idle /\ call[d].player = p
                                                  /\ call[d].answer # NoAnswer}}

OneHistory ==
    \A p \in Players : \A v, w \in Versions(p) :
        v.rev <= row[p].rev /\ (v.rev <= w.rev => v.inv <= w.inv)

(* When request ids are not reused, a pickup is applied for the first time or  *)
(* not at all, and a connection gets no answer from before its login.          *)
Unrepeated(x) ==
    /\ x.conn \in used
    /\ x.stage = "committed" => x.kind = "quest"
    /\ x.answer # NoAnswer /\ x.conn = at[x.player] => x.answer.rev >= entered[x.player]
    /\ x.kind = "pickup" =>
          /\ x.req \in asked[x.player]
          /\ x.stage = "sent" => Known(x) = {}
          /\ x.answer # NoAnswer => grants[x.entity] = 1

RequestsAreNew ==
    /\ \A p \in Players :
        /\ at[p] \in used \cup {NoConnection}
        /\ entered[p] <= row[p].rev
        /\ \A o \in ops[p] : o.id[1] = "server" => o.id[2] \in asked[p]
    /\ \A c \in Calls : call[c] # Idle => Unrepeated(call[c])
    /\ \A c, d \in Calls : c # d /\ call[c] # Idle /\ call[d] # Idle =>
          ~(/\ call[c].kind = "pickup" /\ call[d].kind = "pickup"
            /\ call[c].player = call[d].player /\ call[c].req = call[d].req)
    /\ NotBeforeLogin /\ ConsumedIsGranted
=============================================================================
