--------------------------- MODULE PickupsProofs ---------------------------
(* Proofs about Pickups, for every number of players, connections, entities, *)
(* requests and calls.                                                       *)
(*                                                                           *)
(* PickupInv is inductive: a pickup under way is the only one that has its   *)
(* entity, which is reserved and, until the Backend commits, given to        *)
(* nobody.                                                                   *)
EXTENDS Pickups, TLAPS

(* The empty room satisfies the invariant.                                   *)
LEMMA InitInv == Init => PickupInv
<1> SUFFICES ASSUME Init PROVE PickupInv
    OBVIOUS
<1>1. NewRow \in Rows
    BY PickupAssumption DEF NewRow, Rows, Revisions
<1>2. TypeOK
    BY <1>1, PickupAssumption DEF Init, TypeOK, Revisions
<1>3. CallsHoldEntities /\ GrantedOnce /\ AvailableIsFree
    BY DEF Init, CallsHoldEntities, GrantedOnce, AvailableIsFree
<1> QED
    BY <1>2, <1>3 DEF PickupInv

(* A record of a call is not the empty slot.                                 *)
LEMMA CallsAreNotIdle == \A x \in CallRecords : x # Idle
<1> SUFFICES ASSUME NEW x \in CallRecords PROVE x.stage # Idle.stage
    OBVIOUS
<1> QED
    BY DEF CallRecords, Idle

(* Steps that leave the entities, the calls and the grants alone.            *)
LEMMA PlayerStepInv ==
    ASSUME PickupInv, NEW p \in Players, PlayerStep(p)
    PROVE  PickupInv'
<1> USE PickupAssumption
<1>0. TypeOK
    BY DEF PickupInv
<1>1. row[p] \in Rows /\ row[p].rev \in Revisions
    BY <1>0 DEF TypeOK, Rows
<1>2. UNCHANGED <<entity, call, grants>>
    BY DEF PlayerStep, Enter, Leave, Reconnect, Renewed, NotRenewed, world, backend
<1>3. TypeOK'
    <2>1. ASSUME NEW k \in Connections, Enter(p, k) PROVE TypeOK'
        BY <1>0, <1>1, <2>1 DEF Enter, TypeOK
    <2>2. ASSUME NEW k \in Connections, Reconnect(p, k) PROVE TypeOK'
        BY <1>0, <2>2 DEF Reconnect, TypeOK, world, backend
    <2>3. CASE Leave(p)
        BY <1>0, <2>3 DEF Leave, TypeOK, world, backend
    <2>4. CASE Renewed(p) \/ NotRenewed(p)
        BY <1>0, <2>4 DEF Renewed, NotRenewed, TypeOK, backend, session
    <2> QED
        BY <2>1, <2>2, <2>3, <2>4 DEF PlayerStep
<1>4. CallsHoldEntities' /\ GrantedOnce' /\ AvailableIsFree'
    BY <1>2 DEF PickupInv, CallsHoldEntities, GrantedOnce, AvailableIsFree
<1> QED
    BY <1>3, <1>4 DEF PickupInv

(* A new pickup takes an entity that is free; a change takes none.           *)
LEMMA TryPickupInv ==
    ASSUME PickupInv, NEW c \in Calls, NEW p \in Players, NEW e \in Entities, NEW r \in Requests,
           TryPickup(c, p, e, r)
    PROVE  PickupInv'
<1> USE PickupAssumption
<1> DEFINE x == [stage |-> "sent", kind |-> "pickup", player |-> p, conn |-> at[p], req |-> r,
                 entity |-> e, expected |-> ExpectedByPickup(p), token |-> lease[p],
                 answer |-> NoAnswer]
<1>0. TypeOK
    BY DEF PickupInv
<1>1. x \in CallRecords
    BY <1>0 DEF TryPickup, TypeOK, CallRecords, ExpectedByPickup, Revisions
<1>2. call' = [call EXCEPT ![c] = x] /\ entity' = [entity EXCEPT ![e] = "reserved"]
    BY DEF TryPickup, Send, Reserve
<1>3. TypeOK'
    BY <1>0, <1>1, <1>2 DEF TryPickup, TypeOK, session, backend
<1>4. CallsHoldEntities' /\ GrantedOnce' /\ AvailableIsFree'
    <2>1. grants' = grants /\ entity[e] = "available"
        BY DEF TryPickup, backend
    <2>2. x.kind = "pickup" /\ x.entity = e /\ x.stage = "sent"
        OBVIOUS
    <2> HIDE DEF x
    <2>3. call'[c] = x /\ (\A d \in Calls \ {c} : call'[d] = call[d])
        BY <1>0, <1>2 DEF TypeOK
    <2>4. entity'[e] = "reserved" /\ (\A f \in Entities \ {e} : entity'[f] = entity[f])
        BY <1>0, <1>2 DEF TypeOK
    <2>5. grants[e] = 0 /\ (\A d \in Calls : call[d] # Idle => call[d].entity # e)
        BY <2>1 DEF PickupInv, AvailableIsFree
    <2>6. CallsHoldEntities'
        BY <2>1, <2>2, <2>3, <2>4, <2>5 DEF PickupInv, CallsHoldEntities
    <2>7. GrantedOnce' /\ AvailableIsFree'
        BY <2>1, <2>2, <2>3, <2>4 DEF PickupInv, GrantedOnce, AvailableIsFree
    <2> QED
        BY <2>6, <2>7
<1> QED
    BY <1>3, <1>4 DEF PickupInv

LEMMA ChangeProgressInv ==
    ASSUME PickupInv, NEW c \in Calls, NEW p \in Players, NEW kind \in {"equip", "quest"},
           NEW r \in Requests, NEW revision \in Revisions,
           ChangeProgress(c, p, kind, r, revision)
    PROVE  PickupInv'
<1> USE PickupAssumption
<1> DEFINE x == [stage |-> "sent", kind |-> kind, player |-> p, conn |-> at[p], req |-> r,
                 entity |-> NoEntity, expected |-> revision, token |-> lease[p],
                 answer |-> NoAnswer]
<1>0. TypeOK
    BY DEF PickupInv
<1>1. x \in CallRecords
    BY <1>0 DEF ChangeProgress, TypeOK, CallRecords
<1>2. call' = [call EXCEPT ![c] = x] /\ UNCHANGED <<entity, grants>>
    BY DEF ChangeProgress, Send, world, backend
<1>3. TypeOK'
    BY <1>0, <1>1, <1>2 DEF ChangeProgress, TypeOK, session, backend, world
<1>4. CallsHoldEntities' /\ GrantedOnce' /\ AvailableIsFree'
    <2>1. x.kind # "pickup" /\ x.entity = NoEntity
        OBVIOUS
    <2> HIDE DEF x
    <2>2. call'[c] = x /\ (\A d \in Calls \ {c} : call'[d] = call[d])
        BY <1>0, <1>2 DEF TypeOK
    <2> QED
        BY <1>2, <2>1, <2>2 DEF PickupInv, CallsHoldEntities, GrantedOnce, AvailableIsFree
<1> QED
    BY <1>3, <1>4 DEF PickupInv

(* A call that goes on keeps its entity; the others are what they were.      *)
CallGoesOn(c, stages) ==
    /\ call[c] \in CallRecords /\ call'[c] \in CallRecords
    /\ call'[c].kind = call[c].kind /\ call'[c].entity = call[c].entity
    /\ call'[c].stage \in stages
    /\ \A d \in Calls \ {c} : call'[d] = call[d]
    /\ call' \in [Calls -> CallRecords \cup {Idle}]

LEMMA AnsweredCall ==
    ASSUME TypeOK, NEW c \in Calls, call[c].stage \in {"sent", "committed", "served"},
           \/ AnswerLater(c)
           \/ \E out \in Rows \cup {NoAnswer} : Answer(c, out)
    PROVE  CallGoesOn(c, {"committed", "served"})
<1>1. call[c] \in CallRecords
    BY DEF TypeOK, Idle
<1> QED
    BY <1>1 DEF TypeOK, CallGoesOn, AnswerLater, Answer, CallRecords

(* A step of the Backend that changes no row.                                *)
LEMMA AnswerInv ==
    ASSUME PickupInv, NEW c \in Calls, CallGoesOn(c, {"committed", "served"}),
           UNCHANGED <<world, session, seen, backend, asked>>
    PROVE  PickupInv'
<1>1. TypeOK'
    BY DEF PickupInv, TypeOK, CallGoesOn, world, session, backend
<1>2. UNCHANGED <<entity, grants>>
    BY DEF world, backend
<1>3. call[c] # Idle /\ call'[c] # Idle
    BY CallsAreNotIdle DEF CallGoesOn
<1>4. CallsHoldEntities' /\ GrantedOnce' /\ AvailableIsFree'
    BY <1>2, <1>3 DEF PickupInv, CallsHoldEntities, GrantedOnce, AvailableIsFree, CallGoesOn
<1> QED
    BY <1>1, <1>4 DEF PickupInv

LEMMA BackendAnswersInv ==
    ASSUME PickupInv, NEW c \in Calls, Replay(c) \/ ReadBack(c) \/ Fail(c)
    PROVE  PickupInv'
<1>0. TypeOK
    BY DEF PickupInv
<1>1. UNCHANGED <<world, session, seen, backend, asked>>
    BY DEF Replay, ReadBack, Fail
<1>2. CASE Replay(c)
    <2>1. call[c] \in CallRecords
        BY <1>0, <1>2 DEF Replay, TypeOK, Idle
    <2>2. row[call[c].player] \in Rows
        BY <1>0, <2>1 DEF TypeOK, CallRecords
    <2>3. ASSUME NEW o \in Known(call[c])
          PROVE  [row[call[c].player] EXCEPT !.rev = o.rev] \in Rows
        <3>1. o.rev \in Revisions
            BY <1>0, <2>1 DEF TypeOK, Known, CallRecords
        <3> QED
            BY <2>2, <3>1 DEF Rows
    <2>4. CallGoesOn(c, {"committed", "served"})
        BY <1>0, <1>2, <2>1, <2>2, <2>3, AnsweredCall DEF Replay, CallRecords
    <2> QED
        BY <1>1, <2>4, AnswerInv
<1>3. CASE ReadBack(c)
    <2>1. row[call[c].player] \in Rows
        BY <1>0, <1>3 DEF ReadBack, TypeOK, CallRecords, Idle
    <2> QED
        BY <1>0, <1>1, <1>3, <2>1, AnsweredCall, AnswerInv DEF ReadBack
<1>4. CASE Fail(c)
    BY <1>0, <1>1, <1>4, AnsweredCall, AnswerInv DEF Fail
<1> QED
    BY <1>2, <1>3, <1>4

(* The row after a commit.                                                    *)
LEMMA ChangedRow ==
    ASSUME NEW r \in Rows, r.rev < MaxRevision, NEW kind \in {"pickup", "equip", "quest"},
           NEW won \in Won(kind)
    PROVE  /\ Changed(r, kind, won) \in Rows
           /\ Changed(r, kind, won).rev = r.rev + 1
           /\ Changed(r, kind, won).inv >= r.inv
<1>1. r.rev + 1 \in Revisions /\ r.rev \in Revisions /\ r.inv \in Nat /\ r.rest \in Revisions
    BY PickupAssumption DEF Rows, Revisions
<1>2. won \in Nat
    BY DEF Won
<1>3. (IF kind = "pickup" THEN r.rest ELSE r.rev + 1) \in Revisions
    BY <1>1
<1> QED
    BY <1>1, <1>2, <1>3 DEF Changed, Rows

(* A commit gives the entity of the call, and no other, to the player.       *)
LEMMA CommitInv ==
    ASSUME PickupInv, NEW c \in Calls, Commit(c)
    PROVE  PickupInv'
<1> USE PickupAssumption
<1> DEFINE x == call[c]
<1>0. TypeOK
    BY DEF PickupInv
<1>1. x \in CallRecords /\ x.stage = "sent" /\ row[x.player] \in Rows
    <2>1. x \in CallRecords /\ x.stage = "sent"
        BY <1>0 DEF Commit, TypeOK, Idle
    <2> QED
        BY <1>0, <2>1 DEF TypeOK, CallRecords
<1>8. PICK won \in Won(x.kind) :
          LET new == Changed(row[x.player], x.kind, won) IN
          /\ row' = [row EXCEPT ![x.player] = new]
          /\ ops' = [ops EXCEPT ![x.player] =
                        @ \cup {[id |-> OpId(x), kind |-> x.kind, rev |-> new.rev]}]
          /\ IF x.kind = "quest" THEN AnswerLater(c) ELSE Answer(c, new)
    BY DEF Commit
<1> DEFINE new == Changed(row[x.player], x.kind, won)
<1>2. new \in Rows
    BY <1>1, ChangedRow DEF Commit, CallRecords
<1>3. CallGoesOn(c, {"committed", "served"})
    BY <1>0, <1>1, <1>2, <1>8, AnsweredCall
<1>4. TypeOK'
    <2>1. row' \in [Players -> Rows]
        BY <1>0, <1>1, <1>2, <1>8 DEF TypeOK, CallRecords
    <2>2. [id |-> OpId(x), kind |-> x.kind, rev |-> new.rev] \in
             [id : {"server", "client"} \X Requests, kind : {"pickup", "equip", "quest"}, rev : Revisions]
        BY <1>1, <1>2 DEF OpId, CallRecords, Rows
    <2>3. ops' \in [Players -> SUBSET
             [id : {"server", "client"} \X Requests, kind : {"pickup", "equip", "quest"}, rev : Revisions]]
        <3>1. x.player \in Players
            BY <1>1 DEF CallRecords
        <3> HIDE DEF x, new
        <3> QED
            BY <1>0, <1>8, <2>2, <3>1 DEF TypeOK, x, new
    <2>4. grants' \in [Entities -> Nat]
        <3>1. x.kind = "pickup" => x.entity \in Entities
            BY <1>1, CallsAreNotIdle DEF PickupInv, CallsHoldEntities
        <3>2. CASE x.kind = "pickup"
            BY <1>0, <3>1, <3>2 DEF Commit, TypeOK
        <3>3. CASE x.kind # "pickup"
            BY <1>0, <3>3 DEF Commit, TypeOK
        <3> QED
            BY <3>2, <3>3
    <2> QED
        BY <1>0, <1>3, <2>1, <2>3, <2>4 DEF Commit, TypeOK, CallGoesOn, world, session
<1>5. x # Idle /\ call'[c] # Idle
    BY <1>3, CallsAreNotIdle DEF CallGoesOn
<1>6. CASE x.kind = "pickup"
    <2>1. /\ x.entity \in Entities /\ entity[x.entity] = "reserved" /\ grants[x.entity] = 0
          /\ \A d \in Calls \ {c} : call[d] # Idle => call[d].entity # x.entity
        BY <1>1, <1>5, <1>6 DEF PickupInv, CallsHoldEntities
    <2>2. entity' = entity /\ grants'[x.entity] = 1
          /\ (\A e \in Entities \ {x.entity} : grants'[e] = grants[e])
        BY <1>0, <1>6, <2>1 DEF Commit, TypeOK, world
    <2> HIDE DEF x, new
    <2>3. CallsHoldEntities'
        BY <1>3, <1>5, <1>6, <2>1, <2>2 DEF PickupInv, CallsHoldEntities, CallGoesOn, x
    <2>4. GrantedOnce' /\ AvailableIsFree'
        BY <1>3, <1>5, <2>1, <2>2 DEF PickupInv, GrantedOnce, AvailableIsFree, CallGoesOn, x
    <2> QED
        BY <1>4, <2>3, <2>4 DEF PickupInv
<1>7. CASE x.kind # "pickup"
    <2>1. UNCHANGED <<entity, grants>>
        BY <1>7 DEF Commit, world
    <2>2. CallsHoldEntities' /\ GrantedOnce' /\ AvailableIsFree'
        BY <1>3, <1>5, <2>1 DEF PickupInv, CallsHoldEntities, GrantedOnce, AvailableIsFree, CallGoesOn
    <2> QED
        BY <1>4, <2>2 DEF PickupInv
<1> QED
    BY <1>6, <1>7

(* The handler resumes: its entity is consumed or stays reserved.            *)
LEMMA AnsweredInv ==
    ASSUME PickupInv, NEW c \in Calls, PickupAnswered(c) \/ ChangeAnswered(c)
    PROVE  PickupInv'
<1> DEFINE x == call[c]
<1>0. TypeOK
    BY DEF PickupInv
<1>1. x \in CallRecords /\ x # Idle
    BY <1>0, CallsAreNotIdle DEF PickupAnswered, ChangeAnswered, TypeOK, Idle
<1>2. call' = [call EXCEPT ![c] = Idle] /\ grants' = grants
    BY DEF PickupAnswered, ChangeAnswered, backend
<1>3. \/ entity' = entity
      \/ x.entity \in Entities /\ entity' = [entity EXCEPT ![x.entity] = "consumed"]
    <2>1. CASE PickupAnswered(c)
        <3>1. x.entity \in Entities
            BY <1>1, <2>1 DEF PickupInv, CallsHoldEntities, PickupAnswered
        <3> QED
            BY <2>1, <3>1 DEF PickupAnswered, KeepReserved, Consume
    <2>2. CASE ChangeAnswered(c)
        BY <2>2 DEF ChangeAnswered, world
    <2> QED
        BY <2>1, <2>2
<1>4. TypeOK'
    <2>1. seen' \in [Players -> Rows]
        <3>1. x.answer # NoAnswer => x.answer \in Rows
            BY <1>1 DEF CallRecords
        <3>2. \A p \in Players : seen[p] \in Rows
            BY <1>0 DEF TypeOK
        <3>3. x.player \in Players /\ seen \in [Players -> Rows]
            BY <1>0, <1>1 DEF CallRecords, TypeOK
        <3>4. ASSUME x.answer # NoAnswer
              PROVE  [seen EXCEPT ![x.player] = Advanced(@, x.answer)] \in [Players -> Rows]
            BY <3>1, <3>2, <3>3, <3>4 DEF Rows, Advanced
        <3>5. CASE PickupAnswered(c)
            BY <3>3, <3>4, <3>5 DEF PickupAnswered
        <3>6. CASE ChangeAnswered(c)
            BY <3>1, <3>3, <3>6 DEF ChangeAnswered
        <3> QED
            BY <3>5, <3>6
    <2>2. entity' \in [Entities -> {"available", "reserved", "consumed"}]
        BY <1>0, <1>3 DEF TypeOK
    <2>3. UNCHANGED <<uncertain, session, backend, asked>>
        BY DEF PickupAnswered, ChangeAnswered, world
    <2> QED
        BY <1>0, <1>2, <2>1, <2>2, <2>3 DEF TypeOK, session, backend
<1>5. /\ call'[c] = Idle /\ (\A d \in Calls \ {c} : call'[d] = call[d])
      /\ \A e \in Entities : entity'[e] = entity[e] \/ (e = x.entity /\ entity'[e] = "consumed")
    BY <1>0, <1>2, <1>3 DEF TypeOK
<1>6. CallsHoldEntities'
    <2>1. \A d \in Calls \ {c} : call[d] # Idle /\ call[d].kind = "pickup" =>
             call[d].entity # x.entity
        BY <1>1 DEF PickupInv, CallsHoldEntities
    <2> HIDE DEF x
    <2> QED
        BY <1>2, <1>5, <2>1 DEF PickupInv, CallsHoldEntities
<1>7. GrantedOnce' /\ AvailableIsFree'
    BY <1>2, <1>5 DEF PickupInv, GrantedOnce, AvailableIsFree
<1> QED
    BY <1>4, <1>6, <1>7 DEF PickupInv

LEMMA StepInv == PickupInv /\ [Next]_vars => PickupInv'
<1> SUFFICES ASSUME PickupInv, [Next]_vars PROVE PickupInv'
    OBVIOUS
<1>1. ASSUME NEW p \in Players, PlayerStep(p) PROVE PickupInv'
    BY <1>1, PlayerStepInv
<1>2. ASSUME NEW c \in Calls, CallStep(c) PROVE PickupInv'
    <2>1. ASSUME NEW p \in Players, NEW e \in Entities, NEW r \in Requests, TryPickup(c, p, e, r)
          PROVE  PickupInv'
        BY <2>1, TryPickupInv
    <2>2. ASSUME NEW p \in Players, NEW kind \in {"equip", "quest"}, NEW r \in Requests,
                 NEW revision \in Revisions, ChangeProgress(c, p, kind, r, revision)
          PROVE  PickupInv'
        BY <2>2, ChangeProgressInv
    <2>3. CASE Commit(c)
        BY <2>3, CommitInv
    <2>4. CASE Replay(c) \/ ReadBack(c) \/ Fail(c)
        BY <2>4, BackendAnswersInv
    <2>5. CASE PickupAnswered(c) \/ ChangeAnswered(c)
        BY <2>5, AnsweredInv
    <2> QED
        BY <1>2, <2>1, <2>2, <2>3, <2>4, <2>5 DEF CallStep
<1>3. CASE UNCHANGED vars
    BY <1>3 DEF vars, world, session, backend, PickupInv, TypeOK, CallsHoldEntities, GrantedOnce,
                AvailableIsFree
<1> QED
    BY <1>1, <1>2, <1>3 DEF Next

-----------------------------------------------------------------------------
(* The inductive invariant: a pickup under way holds its entity alone.       *)
THEOREM PickupsSafe == Spec => []PickupInv
<1>1. Init => PickupInv
    BY InitInv
<1>2. PickupInv /\ [Next]_vars => PickupInv'
    BY StepInv
<1> QED
    BY <1>1, <1>2, PTL DEF Spec

(* An entity is given to at most one player.                                 *)
THEOREM EntitiesGrantedOnce == Spec => []GrantedOnce
<1>1. PickupInv => GrantedOnce
    BY DEF PickupInv
<1> QED
    BY <1>1, PickupsSafe, PTL

(* An entity on offer has been given to nobody and nobody is being given it. *)
THEOREM AvailableEntitiesAreFree == Spec => []AvailableIsFree
<1>1. PickupInv => AvailableIsFree
    BY DEF PickupInv
<1> QED
    BY <1>1, PickupsSafe, PTL
-----------------------------------------------------------------------------
(* The snapshots and the answers.                                            *)

(* A call of its own that starts.                                            *)
Starts(c) ==
    /\ call[c] = Idle /\ call'[c] \in CallRecords
    /\ call'[c].stage = "sent" /\ call'[c].answer = NoAnswer
    /\ \A d \in Calls \ {c} : call'[d] = call[d]

LEMMA TryStarts ==
    ASSUME TypeOK, NEW c \in Calls, NEW p \in Players, NEW e \in Entities, NEW r \in Requests,
           TryPickup(c, p, e, r)
    PROVE  /\ Starts(c)
           /\ call'[c].kind = "pickup" /\ call'[c].expected = 0 /\ call'[c].player = p
           /\ call'[c].req = r /\ call'[c].conn = at[p]
BY PickupAssumption DEF TryPickup, Send, TypeOK, CallRecords, ExpectedByPickup, Revisions, Starts

LEMMA ChangeStarts ==
    ASSUME TypeOK, NEW c \in Calls, NEW p \in Players, NEW kind \in {"equip", "quest"},
           NEW r \in Requests, NEW revision \in Revisions,
           ChangeProgress(c, p, kind, r, revision)
    PROVE  /\ Starts(c)
           /\ call'[c].kind # "pickup" /\ call'[c].player = p /\ call'[c].conn = at[p]
BY DEF ChangeProgress, Send, TypeOK, CallRecords, Starts

(* A call whose answer is out, or is still to be read.                        *)
Gets(c, out) ==
    /\ call[c] \in CallRecords /\ call'[c] \in CallRecords
    /\ call'[c].stage = "served" /\ call'[c].answer = out
    /\ call'[c].kind = call[c].kind /\ call'[c].entity = call[c].entity
    /\ call'[c].player = call[c].player /\ call'[c].conn = call[c].conn
    /\ call'[c].req = call[c].req /\ call'[c].expected = call[c].expected
    /\ \A d \in Calls \ {c} : call'[d] = call[d]

Waits(c) ==
    /\ call[c] \in CallRecords /\ call'[c] \in CallRecords
    /\ call'[c].stage = "committed" /\ call'[c].answer = call[c].answer
    /\ call'[c].kind = call[c].kind /\ call'[c].entity = call[c].entity
    /\ call'[c].player = call[c].player /\ call'[c].conn = call[c].conn
    /\ call'[c].req = call[c].req /\ call'[c].expected = call[c].expected
    /\ \A d \in Calls \ {c} : call'[d] = call[d]

LEMMA AnswerGets ==
    ASSUME TypeOK, NEW c \in Calls, call[c].stage \in {"sent", "committed", "served"},
           NEW out \in Rows \cup {NoAnswer}, Answer(c, out)
    PROVE  Gets(c, out)
<1>1. call[c] \in CallRecords
    BY DEF TypeOK, Idle
<1>2. /\ call'[c] = [call[c] EXCEPT !.stage = "served", !.answer = out]
      /\ \A d \in Calls \ {c} : call'[d] = call[d]
    BY DEF TypeOK, Answer
<1> QED
    BY <1>1, <1>2 DEF Gets, CallRecords

LEMMA LaterWaits ==
    ASSUME TypeOK, NEW c \in Calls, call[c].stage \in {"sent", "committed", "served"}, AnswerLater(c)
    PROVE  Waits(c)
<1>1. call[c] \in CallRecords
    BY DEF TypeOK, Idle
<1>2. /\ call'[c] = [call[c] EXCEPT !.stage = "committed"]
      /\ \A d \in Calls \ {c} : call'[d] = call[d]
    BY DEF TypeOK, AnswerLater
<1> QED
    BY <1>1, <1>2 DEF Waits, CallRecords

(* What the Backend answers to an operation it knows.                         *)
LEMMA ReplayShape ==
    ASSUME TypeOK, NEW c \in Calls, Replay(c)
    PROVE  \/ call[c].kind = "quest" /\ Waits(c)
           \/ call[c].kind = "equip" /\ Gets(c, row[call[c].player])
           \/ /\ call[c].kind = "pickup" /\ Known(call[c]) # {}
              /\ \E n \in Revisions : Gets(c, [row[call[c].player] EXCEPT !.rev = n])
<1>1. call[c] \in CallRecords /\ call[c].stage = "sent"
    BY DEF Replay, TypeOK, Idle
<1>2. row[call[c].player] \in Rows
    BY <1>1 DEF TypeOK, CallRecords
<1>3. PICK o \in Known(call[c]) :
          /\ o.kind = call[c].kind
          /\ CASE call[c].kind = "pickup" -> Answer(c, [row[call[c].player] EXCEPT !.rev = o.rev])
               [] call[c].kind = "equip"  -> Answer(c, row[call[c].player])
               [] call[c].kind = "quest"  -> AnswerLater(c)
    BY DEF Replay
<1>4. o.rev \in Revisions
    BY <1>1 DEF TypeOK, Known, CallRecords
<1>5. [row[call[c].player] EXCEPT !.rev = o.rev] \in Rows
    BY <1>2, <1>4 DEF Rows
<1>6. CASE call[c].kind = "pickup"
    BY <1>1, <1>3, <1>4, <1>5, <1>6, AnswerGets
<1>7. CASE call[c].kind = "equip"
    BY <1>1, <1>2, <1>3, <1>7, AnswerGets
<1>8. CASE call[c].kind = "quest"
    BY <1>1, <1>3, <1>8, LaterWaits
<1> QED
    BY <1>1, <1>6, <1>7, <1>8 DEF CallRecords

(* What a commit does to the row of the player and to the call.               *)
LEMMA CommitShape ==
    ASSUME TypeOK, NEW c \in Calls, Commit(c),
           NEW p, p = call[c].player
    PROVE  /\ call[c] \in CallRecords /\ p \in Players /\ Known(call[c]) = {}
           /\ row[p] \in Rows /\ row'[p] \in Rows /\ call[c].expected = row[p].rev
           /\ row'[p].rev = row[p].rev + 1
           /\ row'[p].inv >= row[p].inv
           /\ ops'[p] = ops[p] \cup {[id |-> OpId(call[c]), kind |-> call[c].kind, rev |-> row'[p].rev]}
           /\ \A q \in Players \ {p} : row'[q] = row[q] /\ ops'[q] = ops[q]
           /\ \/ call[c].kind = "quest" /\ Waits(c)
              \/ call[c].kind # "quest" /\ Gets(c, row'[p])
<1>1. call[c] \in CallRecords /\ call[c].stage = "sent"
    BY DEF Commit, TypeOK, Idle
<1>2. p \in Players /\ row[p] \in Rows
    BY <1>1 DEF TypeOK, CallRecords
<1>3. PICK won \in Won(call[c].kind) :
          LET new == Changed(row[p], call[c].kind, won) IN
          /\ row' = [row EXCEPT ![p] = new]
          /\ ops' = [ops EXCEPT ![p] =
                        @ \cup {[id |-> OpId(call[c]), kind |-> call[c].kind, rev |-> new.rev]}]
          /\ IF call[c].kind = "quest" THEN AnswerLater(c) ELSE Answer(c, new)
    BY DEF Commit
<1> DEFINE new == Changed(row[p], call[c].kind, won)
<1>4. new \in Rows /\ new.rev = row[p].rev + 1 /\ new.inv >= row[p].inv
    BY <1>1, <1>2, ChangedRow DEF Commit, CallRecords
<1> HIDE DEF new
<1>5. /\ row' = [row EXCEPT ![p] = new]
      /\ ops' = [ops EXCEPT ![p] = @ \cup {[id |-> OpId(call[c]), kind |-> call[c].kind, rev |-> new.rev]}]
      /\ IF call[c].kind = "quest" THEN AnswerLater(c) ELSE Answer(c, new)
      /\ Known(call[c]) = {} /\ call[c].expected = row[p].rev
    BY <1>3 DEF Commit, new
<1>6. row'[p] = new /\ \A q \in Players \ {p} : row'[q] = row[q]
    BY <1>2, <1>5 DEF TypeOK
<1>7. \/ call[c].kind = "quest" /\ Waits(c)
      \/ call[c].kind # "quest" /\ Gets(c, new)
    BY <1>1, <1>4, <1>5, AnswerGets, LaterWaits
<1>8. ops'[p] = ops[p] \cup {[id |-> OpId(call[c]), kind |-> call[c].kind, rev |-> new.rev]}
      /\ \A q \in Players \ {p} : ops'[q] = ops[q]
    <2>1. p \in DOMAIN ops
        BY <1>2 DEF TypeOK
    <2> QED
        BY <1>5, <2>1
<1> QED
    BY <1>1, <1>2, <1>4, <1>5, <1>6, <1>7, <1>8

(* What the snapshot becomes when an answer is there: for the player who is     *)
(* still there the inventory of the answer, for the others what it was.         *)
LEMMA AnsweredShape ==
    ASSUME PickupInv, NEW c \in Calls, PickupAnswered(c) \/ ChangeAnswered(c)
    PROVE  /\ call[c] \in CallRecords /\ call[c] # Idle /\ call'[c] = Idle
           /\ \A d \in Calls \ {c} : call'[d] = call[d]
           /\ UNCHANGED <<row, ops, grants, at, used, entered, asked>>
           /\ \A q \in Players :
                \/ seen'[q] = seen[q]
                \/ /\ q = call[c].player /\ StillHere(call[c]) /\ call[c].answer # NoAnswer
                   /\ seen'[q].inv = call[c].answer.inv /\ seen'[q].rev = call[c].answer.rev
<1> DEFINE x == call[c]
<1>0. TypeOK
    BY DEF PickupInv
<1>1. x \in CallRecords /\ x # Idle
    BY <1>0, CallsAreNotIdle DEF PickupAnswered, ChangeAnswered, TypeOK, Idle
<1>2. call'[c] = Idle /\ (\A d \in Calls \ {c} : call'[d] = call[d])
    BY <1>0 DEF PickupAnswered, ChangeAnswered, TypeOK
<1>3. UNCHANGED <<row, ops, grants, at, used, entered, asked>>
    BY DEF PickupAnswered, ChangeAnswered, backend, session
<1>4. ASSUME NEW q \in Players
      PROVE  \/ seen'[q] = seen[q]
             \/ /\ q = x.player /\ StillHere(x) /\ x.answer # NoAnswer
                /\ seen'[q].inv = x.answer.inv /\ seen'[q].rev = x.answer.rev
    <2>1. seen \in [Players -> Rows] /\ seen[q] \in Rows /\ x.player \in Players
        BY <1>0, <1>1 DEF TypeOK, CallRecords
    <2>2. CASE PickupAnswered(c)
        <3>1. \/ seen' = seen
              \/ /\ StillHere(x) /\ x.answer # NoAnswer
                 /\ seen' = [seen EXCEPT ![x.player] = Advanced(@, x.answer)]
            BY <2>2 DEF PickupAnswered
        <3> HIDE DEF x
        <3>2. Advanced(seen[q], x.answer).inv = x.answer.inv
              /\ Advanced(seen[q], x.answer).rev = x.answer.rev
            BY <2>1 DEF Rows, Advanced
        <3> QED
            BY <2>1, <3>1, <3>2
    <2>3. CASE ChangeAnswered(c)
        BY <2>1, <2>3 DEF ChangeAnswered
    <2> QED
        BY <2>2, <2>3
<1> QED
    BY <1>1, <1>2, <1>3, <1>4

-----------------------------------------------------------------------------
(* When every pickup has a request id of its own.                             *)

(* The connection of a login has had no call, and of a reconnection neither.  *)
LEMMA PlayerStepNew ==
    ASSUME PickupInv, RequestsAreNew, NEW p \in Players, PlayerStep(p)
    PROVE  RequestsAreNew'
<1>0. TypeOK
    BY DEF PickupInv
<1>1. UNCHANGED <<entity, row, ops, call, asked, grants>>
    BY DEF PlayerStep, Enter, Leave, Reconnect, Renewed, NotRenewed, world, backend
<1> DEFINE Moves == \A q \in Players :
        /\ at'[q] = at[q] \/ at'[q] = NoConnection \/ (at'[q] \in used' /\ at'[q] \notin used)
        /\ \/ entered'[q] = entered[q] /\ seen'[q] = seen[q]
           \/ entered'[q] = row[q].rev /\ seen'[q] = row[q] /\ at'[q] \notin used
<1>2. used \subseteq used' /\ Moves
    <2>1. ASSUME NEW k \in Connections, Enter(p, k) \/ Reconnect(p, k)
          PROVE  used \subseteq used' /\ Moves
        BY <1>0, <2>1 DEF Enter, Reconnect, TypeOK
    <2>2. CASE Leave(p) \/ Renewed(p) \/ NotRenewed(p)
        BY <1>0, <2>2 DEF Leave, Renewed, NotRenewed, TypeOK, session
    <2> HIDE DEF Moves
    <2> QED
        BY <2>1, <2>2 DEF PlayerStep
<1>3. ASSUME NEW c \in Calls, call[c] # Idle PROVE Unrepeated(call[c])'
    <2>1. call'[c] = call[c] /\ Unrepeated(call[c]) /\ call[c] \in CallRecords
        BY <1>0, <1>1, <1>3 DEF RequestsAreNew, TypeOK
    <2>2. call[c].conn \in Connections /\ call[c].player \in Players
        BY <2>1 DEF CallRecords
    <2> QED
        BY <1>1, <1>2, <2>1, <2>2, PickupAssumption DEF Unrepeated, Known, OpId
<1>4. \A q \in Players : row[q].rev \in Nat
    BY <1>0 DEF TypeOK, Rows, Revisions
<1>5. NotBeforeLogin' /\ ConsumedIsGranted'
    BY <1>1, <1>2, <1>4 DEF RequestsAreNew, NotBeforeLogin, ConsumedIsGranted
<1>6. \A q \in Players :
        /\ at'[q] \in used' \cup {NoConnection}
        /\ entered'[q] <= row'[q].rev
        /\ \A o \in ops'[q] : o.id[1] = "server" => o.id[2] \in asked'[q]
    BY <1>1, <1>2, <1>4 DEF RequestsAreNew
<1> QED
    BY <1>1, <1>3, <1>5, <1>6 DEF RequestsAreNew

LEMMA StartNew ==
    ASSUME PickupInv, RequestsAreNew, NEW c \in Calls, Starts(c),
           UNCHANGED <<row, ops, seen, at, used, entered, grants>>,
           \A e \in Entities : entity'[e] = "consumed" => entity[e] = "consumed",
           \A q \in Players : asked[q] \subseteq asked'[q],
           call'[c].conn \in used,
           call'[c].kind = "pickup" =>
               call'[c].req \in asked'[call'[c].player] \ asked[call'[c].player]
    PROVE  RequestsAreNew'
<1> DEFINE new == call'[c]
<1>0. TypeOK
    BY DEF PickupInv
<1>1. new \in CallRecords /\ new.player \in Players /\ new.stage = "sent" /\ new.answer = NoAnswer
    BY DEF Starts, CallRecords
<1>2. \A d \in Calls \ {c} : call'[d] = call[d]
    BY DEF Starts
<1>3. ASSUME new.kind = "pickup" PROVE {o \in ops[new.player] : o.id = OpId(new)} = {}
    <2>1. OpId(new)[1] = "server" /\ OpId(new)[2] = new.req
        BY <1>3 DEF OpId
    <2>2. \A o \in ops[new.player] : o.id[1] = "server" => o.id[2] \in asked[new.player]
        BY <1>1 DEF RequestsAreNew
    <2> HIDE DEF new
    <2> QED
        BY <1>3, <2>1, <2>2 DEF new
<1>4. Unrepeated(call[c])'
    BY <1>1, <1>3 DEF Unrepeated, Known, OpId
<1>5. ASSUME NEW d \in Calls \ {c}, call[d] # Idle PROVE Unrepeated(call[d])'
    <2>1. call[d].player \in Players /\ Unrepeated(call[d])
        BY <1>0, <1>5 DEF RequestsAreNew, TypeOK, CallRecords
    <2> QED
        BY <1>2, <2>1 DEF Unrepeated, Known, OpId
<1> HIDE DEF new
<1>6. ASSUME NEW d \in Calls \ {c}, call[d] # Idle, call[d].kind = "pickup", new.kind = "pickup",
             call[d].player = new.player
      PROVE  call[d].req # new.req
    BY <1>0, <1>6 DEF RequestsAreNew, Unrepeated, new
<1>7. \A d, f \in Calls : d # f /\ call'[d] # Idle /\ call'[f] # Idle =>
        ~(/\ call'[d].kind = "pickup" /\ call'[f].kind = "pickup"
          /\ call'[d].player = call'[f].player /\ call'[d].req = call'[f].req)
    BY <1>2, <1>6 DEF RequestsAreNew, new
<1>8. NotBeforeLogin' /\ ConsumedIsGranted'
    BY DEF RequestsAreNew, NotBeforeLogin, ConsumedIsGranted
<1>9. \A q \in Players :
        /\ at'[q] \in used' \cup {NoConnection}
        /\ entered'[q] <= row'[q].rev
        /\ \A o \in ops'[q] : o.id[1] = "server" => o.id[2] \in asked'[q]
    BY DEF RequestsAreNew
<1> QED
    BY <1>2, <1>4, <1>5, <1>7, <1>8, <1>9 DEF RequestsAreNew

(* An answer to no pickup, and not older than the login of the player.        *)
LEMMA AnswerNew ==
    ASSUME PickupInv, RequestsAreNew, NEW c \in Calls, call[c] # Idle,
           UNCHANGED <<entity, row, ops, seen, at, used, entered, grants, asked>>,
           \/ Waits(c) /\ call[c].kind = "quest"
           \/ \E out \in Rows \cup {NoAnswer} :
                /\ Gets(c, out)
                /\ out # NoAnswer =>
                      call[c].kind # "pickup" /\ out.rev >= entered[call[c].player]
    PROVE  RequestsAreNew'
<1>1. /\ call'[c] # Idle
      /\ call'[c].kind = call[c].kind /\ call'[c].player = call[c].player
      /\ call'[c].req = call[c].req
      /\ \A d \in Calls \ {c} : call'[d] = call[d]
    BY CallsAreNotIdle DEF Waits, Gets
<1>2. Unrepeated(call[c])'
    <2>1. Unrepeated(call[c])
        BY DEF RequestsAreNew
    <2>2. CASE Waits(c) /\ call[c].kind = "quest"
        BY <2>1, <2>2 DEF Unrepeated, Waits, Known, OpId
    <2>3. CASE \E out \in Rows \cup {NoAnswer} :
                /\ Gets(c, out)
                /\ out # NoAnswer =>
                      call[c].kind # "pickup" /\ out.rev >= entered[call[c].player]
        BY <2>1, <2>3 DEF Unrepeated, Gets, Known, OpId
    <2> QED
        BY <2>2, <2>3
<1>3. \A d \in Calls \ {c} : call'[d] # Idle => Unrepeated(call[d])'
    BY <1>1 DEF RequestsAreNew, Unrepeated, Known, OpId
<1>4. NotBeforeLogin' /\ ConsumedIsGranted'
    BY DEF RequestsAreNew, NotBeforeLogin, ConsumedIsGranted
<1>5. \A d, f \in Calls : d # f /\ call'[d] # Idle /\ call'[f] # Idle =>
        ~(/\ call'[d].kind = "pickup" /\ call'[f].kind = "pickup"
          /\ call'[d].player = call'[f].player /\ call'[d].req = call'[f].req)
    BY <1>1 DEF RequestsAreNew
<1>6. \A q \in Players :
        /\ at'[q] \in used' \cup {NoConnection}
        /\ entered'[q] <= row'[q].rev
        /\ \A o \in ops'[q] : o.id[1] = "server" => o.id[2] \in asked'[q]
    BY DEF RequestsAreNew
<1> QED
    BY <1>2, <1>3, <1>4, <1>5, <1>6 DEF RequestsAreNew

(* A pickup is not replayed: nothing was done under its id.                   *)
LEMMA BackendAnswersNew ==
    ASSUME PickupInv, RequestsAreNew, NEW c \in Calls, Replay(c) \/ ReadBack(c) \/ Fail(c)
    PROVE  RequestsAreNew'
<1> DEFINE x == call[c]
<1>0. TypeOK
    BY DEF PickupInv
<1>1. UNCHANGED <<entity, row, ops, seen, at, used, entered, grants, asked>>
    BY DEF Replay, ReadBack, Fail, world, session, backend
<1>2. x \in CallRecords /\ x # Idle /\ Unrepeated(x)
    <2>1. x.stage # "idle"
        BY DEF Replay, ReadBack, Fail
    <2>2. x # Idle
        BY <2>1 DEF Idle
    <2> QED
        BY <1>0, <2>2 DEF TypeOK, RequestsAreNew
<1>3. x.player \in Players /\ row[x.player] \in Rows /\ row[x.player].rev >= entered[x.player]
    <2>1. x.player \in Players
        BY <1>2 DEF CallRecords
    <2>2. row[x.player] \in Rows /\ entered[x.player] \in Nat /\ entered[x.player] <= row[x.player].rev
        BY <1>0, <2>1 DEF TypeOK, RequestsAreNew, Revisions
    <2> QED
        BY <2>1, <2>2 DEF Rows, Revisions
<1>4. CASE Replay(c)
    <2>1. x.stage = "sent"
        BY <1>4 DEF Replay
    <2>2. x.kind # "pickup" \/ Known(x) = {}
        BY <1>2, <2>1 DEF Unrepeated
    <2>3. \/ x.kind = "quest" /\ Waits(c)
          \/ x.kind = "equip" /\ Gets(c, row[x.player])
        BY <1>0, <1>4, <2>2, ReplayShape
    <2> QED
        BY <1>1, <1>2, <1>3, <2>3, AnswerNew
<1>5. CASE ReadBack(c)
    <2>1. x.stage = "committed" /\ x.kind = "quest"
        BY <1>2, <1>5 DEF ReadBack, Unrepeated
    <2>2. Gets(c, row[x.player])
        BY <1>0, <1>3, <1>5, <2>1, AnswerGets DEF ReadBack
    <2> QED
        BY <1>1, <1>2, <1>3, <2>1, <2>2, AnswerNew
<1>6. CASE Fail(c)
    <2>1. Gets(c, NoAnswer)
        BY <1>0, <1>6, AnswerGets DEF Fail
    <2> QED
        BY <1>1, <1>2, <2>1, AnswerNew
<1> QED
    BY <1>4, <1>5, <1>6

(* A commit does what no commit has done before: it adds an id of its own and   *)
(* gives away an entity that nobody was given.                                *)
LEMMA CommitNew ==
    ASSUME PickupInv, RequestsAreNew, NEW c \in Calls, Commit(c)
    PROVE  RequestsAreNew'
<1> DEFINE x == call[c]
           p == x.player
<1>0. TypeOK /\ CallsHoldEntities
    BY DEF PickupInv
<1>1. /\ x \in CallRecords /\ p \in Players /\ Known(x) = {} /\ x.stage = "sent"
      /\ row[p] \in Rows /\ row'[p] \in Rows
      /\ row'[p].rev = row[p].rev + 1
      /\ ops'[p] = ops[p] \cup {[id |-> OpId(x), kind |-> x.kind, rev |-> row'[p].rev]}
      /\ \A q \in Players \ {p} : row'[q] = row[q] /\ ops'[q] = ops[q]
      /\ \/ x.kind = "quest" /\ Waits(c)
         \/ x.kind # "quest" /\ Gets(c, row'[p])
    BY <1>0, CommitShape DEF Commit
<1>2. UNCHANGED <<entity, seen, at, used, entered, asked>>
    BY DEF Commit, world, session
<1>3. x # Idle /\ Unrepeated(x)
    BY <1>1, CallsAreNotIdle DEF RequestsAreNew
<1>4. /\ call'[c] # Idle /\ call'[c].kind = x.kind /\ call'[c].player = p /\ call'[c].req = x.req
      /\ call'[c].conn = x.conn /\ call'[c].entity = x.entity /\ call'[c].stage # "sent"
      /\ \A d \in Calls \ {c} : call'[d] = call[d]
    BY <1>1, CallsAreNotIdle DEF Waits, Gets
<1>5. OpId(x)[2] = x.req /\ (OpId(x)[1] = "server" <=> x.kind = "pickup")
    BY DEF OpId
<1>6. \A q \in Players : row[q].rev \in Nat /\ entered[q] \in Nat /\ row'[q].rev >= row[q].rev
    BY <1>0, <1>1 DEF TypeOK, Rows, Revisions
<1>7. /\ \A e \in Entities : entity[e] = "consumed" => grants'[e] = grants[e]
      /\ \A d \in Calls \ {c} : call[d] # Idle /\ call[d].kind = "pickup" =>
            grants'[call[d].entity] = grants[call[d].entity]
      /\ x.kind = "pickup" => grants'[x.entity] = 1
    <2>1. CASE x.kind = "pickup"
        <3>1. /\ x.entity \in Entities /\ entity[x.entity] = "reserved" /\ grants[x.entity] = 0
              /\ \A d \in Calls \ {c} : call[d] # Idle => call[d].entity # x.entity
            BY <1>0, <1>1, <1>3, <2>1 DEF CallsHoldEntities
        <3>2. \A d \in Calls \ {c} : call[d] # Idle /\ call[d].kind = "pickup" =>
                 call[d].entity \in Entities
            BY <1>0 DEF CallsHoldEntities
        <3>3. grants'[x.entity] = 1 /\ \A e \in Entities \ {x.entity} : grants'[e] = grants[e]
            BY <1>0, <2>1, <3>1 DEF Commit, TypeOK
        <3> HIDE DEF x
        <3> QED
            BY <3>1, <3>2, <3>3
    <2>2. CASE x.kind # "pickup"
        BY <2>2 DEF Commit
    <2> QED
        BY <2>1, <2>2
<1> DEFINE o1 == [id |-> OpId(x), kind |-> x.kind, rev |-> row'[p].rev]
<1>8. o1.id = OpId(x)
    OBVIOUS
<1>9. Unrepeated(call[c])'
    <2>1. x.answer # NoAnswer => x.answer.rev >= entered[p] \/ x.conn # at[p]
        BY <1>3 DEF Unrepeated
    <2>2. row'[p].rev >= entered[p]
        BY <1>1, <1>6 DEF RequestsAreNew
    <2>3. x.kind = "pickup" => x.req \in asked[p]
        BY <1>3 DEF Unrepeated
    <2>4. x.conn \in used
        BY <1>3 DEF Unrepeated
    <2> HIDE DEF x, p
    <2>5. CASE x.kind = "quest" /\ Waits(c)
        BY <1>2, <1>4, <2>1, <2>4, <2>5 DEF Unrepeated, Waits, x, p
    <2>6. CASE x.kind # "quest" /\ Gets(c, row'[p])
        BY <1>2, <1>4, <1>7, <2>2, <2>3, <2>4, <2>6 DEF Unrepeated, Gets
    <2> QED
        BY <1>1, <2>5, <2>6
<1>10. ASSUME NEW d \in Calls \ {c}, call[d] # Idle PROVE Unrepeated(call[d])'
    <2> DEFINE y == call[d]
    <2>1. y.player \in Players /\ Unrepeated(y) /\ call'[d] = y
        BY <1>0, <1>4, <1>10 DEF RequestsAreNew, TypeOK, CallRecords
    <2>2. ASSUME y.kind = "pickup", y.stage = "sent" PROVE {o \in ops'[y.player] : o.id = OpId(y)} = {}
        <3>1. {o \in ops[y.player] : o.id = OpId(y)} = {}
            BY <2>1, <2>2 DEF Unrepeated, Known
        <3>2. CASE y.player # p
            BY <1>1, <2>1, <3>1, <3>2
        <3>3. CASE y.player = p
            <4>1. OpId(y) # OpId(x)
                <5>1. OpId(y)[1] = "server" /\ OpId(y)[2] = y.req
                    BY <2>2 DEF OpId
                <5>2. x.kind = "pickup" => x.req # y.req
                    BY <1>3, <1>10, <2>2, <3>3 DEF RequestsAreNew
                <5> HIDE DEF x, y
                <5> QED
                    BY <1>5, <5>1, <5>2
            <4> HIDE DEF x, y, p
            <4> QED
                BY <1>1, <1>8, <3>1, <3>3, <4>1
        <3> QED
            BY <3>2, <3>3
    <2>3. y.kind = "pickup" => grants'[y.entity] = grants[y.entity]
        BY <1>7, <1>10
    <2> QED
        BY <1>2, <2>1, <2>2, <2>3 DEF Unrepeated, Known, OpId
<1> HIDE DEF o1
<1>11. \A d, f \in Calls : d # f /\ call'[d] # Idle /\ call'[f] # Idle =>
        ~(/\ call'[d].kind = "pickup" /\ call'[f].kind = "pickup"
          /\ call'[d].player = call'[f].player /\ call'[d].req = call'[f].req)
    BY <1>3, <1>4 DEF RequestsAreNew
<1>12. NotBeforeLogin' /\ ConsumedIsGranted'
    BY <1>2, <1>7 DEF RequestsAreNew, NotBeforeLogin, ConsumedIsGranted
<1>13. ASSUME NEW q \in Players
       PROVE  /\ at'[q] \in used' \cup {NoConnection}
              /\ entered'[q] <= row'[q].rev
              /\ \A o \in ops'[q] : o.id[1] = "server" => o.id[2] \in asked'[q]
    <2>1. at'[q] \in used' \cup {NoConnection} /\ entered'[q] <= row'[q].rev
        <3>1. at[q] \in used \cup {NoConnection} /\ entered[q] <= row[q].rev
            BY DEF RequestsAreNew
        <3>2. row'[q].rev \in Nat
            BY <1>1, <1>6 DEF Rows, Revisions
        <3> QED
            BY <1>2, <1>6, <3>1, <3>2
    <2>2. x.kind = "pickup" => x.req \in asked[p]
        BY <1>3 DEF Unrepeated
    <2> HIDE DEF x, p
    <2>3. \A o \in ops'[q] : o.id[1] = "server" => o.id[2] \in asked'[q]
        BY <1>1, <1>2, <1>5, <1>8, <2>2 DEF RequestsAreNew, o1
    <2> QED
        BY <2>1, <2>3
<1> QED
    BY <1>4, <1>9, <1>10, <1>11, <1>12, <1>13 DEF RequestsAreNew

(* A handler that resumes shows the player what the answer says, which is not   *)
(* older than the login, and consumes what was given to the player.            *)
LEMMA AnsweredNew ==
    ASSUME PickupInv, RequestsAreNew, NEW c \in Calls, PickupAnswered(c) \/ ChangeAnswered(c)
    PROVE  RequestsAreNew'
<1> DEFINE x == call[c]
<1>1. /\ x \in CallRecords /\ x # Idle /\ call'[c] = Idle
      /\ \A d \in Calls \ {c} : call'[d] = call[d]
      /\ UNCHANGED <<row, ops, grants, at, used, entered, asked>>
      /\ \A q \in Players :
            \/ seen'[q] = seen[q]
            \/ /\ q = x.player /\ StillHere(x) /\ x.answer # NoAnswer
               /\ seen'[q].inv = x.answer.inv /\ seen'[q].rev = x.answer.rev
    BY AnsweredShape
<1>2. Unrepeated(x)
    BY <1>1 DEF RequestsAreNew
<1>3. NotBeforeLogin'
    BY <1>1, <1>2 DEF RequestsAreNew, NotBeforeLogin, Unrepeated, StillHere
<1>4. ConsumedIsGranted'
    <2>1. \/ entity' = entity
          \/ /\ x.kind = "pickup" /\ x.answer # NoAnswer
             /\ entity' = [entity EXCEPT ![x.entity] = "consumed"]
        BY DEF PickupAnswered, ChangeAnswered, KeepReserved, Consume, world
    <2>2. entity \in [Entities -> {"available", "reserved", "consumed"}]
        BY DEF PickupInv, TypeOK
    <2> HIDE DEF x
    <2> QED
        BY <1>1, <1>2, <2>1, <2>2 DEF RequestsAreNew, ConsumedIsGranted, Unrepeated
<1>5. ASSUME NEW d \in Calls, call'[d] # Idle PROVE Unrepeated(call[d])'
    BY <1>1, <1>5 DEF RequestsAreNew, Unrepeated, Known, OpId
<1> HIDE DEF x
<1>6. \A d, f \in Calls : d # f /\ call'[d] # Idle /\ call'[f] # Idle =>
        ~(/\ call'[d].kind = "pickup" /\ call'[f].kind = "pickup"
          /\ call'[d].player = call'[f].player /\ call'[d].req = call'[f].req)
    BY <1>1 DEF RequestsAreNew
<1> QED
    BY <1>1, <1>3, <1>4, <1>5, <1>6 DEF RequestsAreNew

LEMMA NewStep ==
    ASSUME ~ReuseRequests, PickupInv, RequestsAreNew, [Next]_vars
    PROVE  RequestsAreNew'
<1>0. TypeOK
    BY DEF PickupInv
<1>1. ASSUME NEW p \in Players, PlayerStep(p) PROVE RequestsAreNew'
    BY <1>1, PlayerStepNew
<1>2. ASSUME NEW c \in Calls, CallStep(c) PROVE RequestsAreNew'
    <2>1. ASSUME NEW p \in Players, NEW e \in Entities, NEW r \in Requests, TryPickup(c, p, e, r)
          PROVE  RequestsAreNew'
        <3>1. UNCHANGED <<row, ops, seen, at, used, entered, grants>>
            BY <2>1 DEF TryPickup, session, backend
        <3>2. \A f \in Entities : entity'[f] = "consumed" => entity[f] = "consumed"
            BY <1>0, <2>1 DEF TryPickup, Reserve, TypeOK
        <3>3. r \in asked'[p] \ asked[p] /\ \A q \in Players : asked[q] \subseteq asked'[q]
            BY <1>0, <2>1 DEF TryPickup, TypeOK
        <3>4. at[p] \in used
            BY <2>1 DEF TryPickup, RequestsAreNew
        <3> QED
            BY <1>0, <2>1, <3>1, <3>2, <3>3, <3>4, TryStarts, StartNew
    <2>2. ASSUME NEW p \in Players, NEW kind \in {"equip", "quest"}, NEW r \in Requests,
                 NEW revision \in Revisions, ChangeProgress(c, p, kind, r, revision)
          PROVE  RequestsAreNew'
        <3>1. UNCHANGED <<entity, row, ops, seen, at, used, entered, grants, asked>>
            BY <2>2 DEF ChangeProgress, world, session, backend
        <3>2. at[p] \in used
            BY <2>2 DEF ChangeProgress, RequestsAreNew
        <3> QED
            BY <1>0, <2>2, <3>1, <3>2, ChangeStarts, StartNew
    <2>3. CASE Commit(c)
        BY <2>3, CommitNew
    <2>4. CASE Replay(c) \/ ReadBack(c) \/ Fail(c)
        BY <2>4, BackendAnswersNew
    <2>5. CASE PickupAnswered(c) \/ ChangeAnswered(c)
        BY <2>5, AnsweredNew
    <2> QED
        BY <1>2, <2>1, <2>2, <2>3, <2>4, <2>5 DEF CallStep
<1>3. CASE UNCHANGED vars
    BY <1>3 DEF vars, world, session, backend, RequestsAreNew, Unrepeated, Known, OpId,
                NotBeforeLogin, ConsumedIsGranted
<1> QED
    BY <1>1, <1>2, <1>3 DEF Next

LEMMA NewStart == Init => RequestsAreNew
<1>1. NewRow.rev = 0
    BY DEF NewRow
<1> QED
    BY <1>1 DEF Init, RequestsAreNew, NotBeforeLogin, ConsumedIsGranted

(* The inductive invariant of the next two.                                   *)
LEMMA RequestsStayNew ==
    ASSUME ~ReuseRequests
    PROVE  Spec => []RequestsAreNew
<1>1. PickupInv /\ RequestsAreNew /\ [Next]_vars => RequestsAreNew'
    BY NewStep
<1> QED
    BY <1>1, NewStart, PickupsSafe, PTL DEF Spec

(* What a login has loaded is never overwritten by an answer that is older,   *)
(* when clients give every pickup a request id of its own (server.gd:386, 407). *)
THEOREM SeenSinceLogin ==
    ASSUME ~ReuseRequests
    PROVE  Spec => []NotBeforeLogin
<1>1. RequestsAreNew => NotBeforeLogin
    BY DEF RequestsAreNew
<1> QED
    BY <1>1, RequestsStayNew, PTL

(* What is taken out of the world has been given to a player, under the same  *)
(* condition (server.gd:483-484).                                             *)
THEOREM ConsumedWasGranted ==
    ASSUME ~ReuseRequests
    PROVE  Spec => []ConsumedIsGranted
<1>1. RequestsAreNew => ConsumedIsGranted
    BY DEF RequestsAreNew
<1> QED
    BY <1>1, RequestsStayNew, PTL
-----------------------------------------------------------------------------
(* One history, under the same condition.                                    *)

(* What a step brings is the new row, which comes after all that there was.    *)
LEMMA HistoryGoesOn ==
    ASSUME OneHistory, NEW p \in Players,
           \A v \in Versions(p) : v.rev \in Nat /\ v.inv \in Nat,
           row'[p].rev \in Nat, row'[p].inv \in Nat,
           row'[p] = row[p] \/ (row'[p].rev > row[p].rev /\ row'[p].inv >= row[p].inv),
           \A v \in Versions(p)' : \E w \in Versions(p) \cup {row'[p]} :
               v.rev = w.rev /\ v.inv = w.inv
    PROVE  \A v, w \in Versions(p)' :
               v.rev <= row'[p].rev /\ (v.rev <= w.rev => v.inv <= w.inv)
<1>1. row[p] \in Versions(p)
    BY DEF Versions
<1>2. \A v, w \in Versions(p) \cup {row'[p]} :
          v.rev <= row'[p].rev /\ (v.rev <= w.rev => v.inv <= w.inv)
    BY <1>1 DEF OneHistory
<1> QED
    BY <1>2

LEMMA VersionsTyped ==
    ASSUME TypeOK, NEW p \in Players, NEW v \in Versions(p)
    PROVE  v.rev \in Nat /\ v.inv \in Nat
<1>1. row[p] \in Rows /\ seen[p] \in Rows
    BY DEF TypeOK
<1>2. \A c \in Calls : call[c] # Idle /\ call[c].answer # NoAnswer => call[c].answer \in Rows
    BY DEF TypeOK, CallRecords
<1>3. v \in Rows
    BY <1>1, <1>2 DEF Versions
<1> QED
    BY <1>3 DEF Rows, Revisions

(* No step brings anything but the new row, and none shows anything else than  *)
(* was on its way.                                                           *)
BringsTheRow(p) ==
    /\ row'[p] = row[p] \/ (row'[p].rev > row[p].rev /\ row'[p].inv >= row[p].inv)
    /\ \A v \in Versions(p)' : \E w \in Versions(p) \cup {row'[p]} :
          v.rev = w.rev /\ v.inv = w.inv
    /\ \E w \in Versions(p) : seen'[p].rev = w.rev /\ seen'[p].inv = w.inv

(* A step that moves one call on and shows nothing.                          *)
LEMMA OneCallMoves ==
    ASSUME NEW p \in Players, NEW c \in Calls, seen'[p] = seen[p],
           row'[p] = row[p] \/ (row'[p].rev > row[p].rev /\ row'[p].inv >= row[p].inv),
           \A d \in Calls \ {c} : call'[d] = call[d],
           \/ call'[c].answer = NoAnswer
           \/ /\ call[c] # Idle /\ call'[c].player = call[c].player
              /\ call'[c].answer = call[c].answer
           \/ call'[c].player = p => call'[c].answer = row'[p]
    PROVE  BringsTheRow(p)
<1>1. row[p] \in Versions(p) /\ seen[p] \in Versions(p)
    BY DEF Versions
<1>2. ASSUME NEW d \in Calls, call'[d] # Idle, call'[d].player = p, call'[d].answer # NoAnswer
      PROVE  call'[d].answer \in Versions(p) \cup {row'[p]}
    <2>1. CASE d # c
        BY <1>2, <2>1 DEF Versions
    <2>2. CASE d = c
        BY <1>2, <2>2 DEF Versions
    <2> QED
        BY <2>1, <2>2
<1>3. Versions(p)' \subseteq Versions(p) \cup {row'[p]}
    BY <1>1, <1>2 DEF Versions
<1> QED
    BY <1>1, <1>3 DEF BringsTheRow

LEMMA NewVersions ==
    ASSUME PickupInv, RequestsAreNew, [Next]_vars, NEW p \in Players
    PROVE  BringsTheRow(p)
<1>0. TypeOK
    BY DEF PickupInv
<1>1. row[p] \in Versions(p) /\ seen[p] \in Versions(p)
    BY DEF Versions
<1>3. ASSUME NEW q \in Players, PlayerStep(q) PROVE BringsTheRow(p)
    <2>1. row' = row /\ call' = call
        BY <1>3 DEF PlayerStep, Enter, Leave, Reconnect, Renewed, NotRenewed, backend
    <2>2. seen'[p] = seen[p] \/ seen'[p] = row[p]
        BY <1>0, <1>3 DEF PlayerStep, Enter, Leave, Reconnect, Renewed, NotRenewed, TypeOK
    <2>3. Versions(p)' \subseteq Versions(p)
        BY <1>1, <2>1, <2>2 DEF Versions
    <2> QED
        BY <1>1, <2>1, <2>2, <2>3 DEF BringsTheRow
<1>4. ASSUME NEW c \in Calls, CallStep(c) PROVE BringsTheRow(p)
    <2>1. ASSUME NEW q \in Players, NEW e \in Entities, NEW r \in Requests, TryPickup(c, q, e, r)
          PROVE  BringsTheRow(p)
        <3>1. seen' = seen /\ row' = row
            BY <2>1 DEF TryPickup, backend
        <3>2. Starts(c)
            BY <1>0, <2>1, TryStarts
        <3> QED
            BY <3>1, <3>2, OneCallMoves DEF Starts
    <2>2. ASSUME NEW q \in Players, NEW kind \in {"equip", "quest"}, NEW r \in Requests,
                 NEW revision \in Revisions, ChangeProgress(c, q, kind, r, revision)
          PROVE  BringsTheRow(p)
        <3>1. seen' = seen /\ row' = row
            BY <2>2 DEF ChangeProgress, backend
        <3>2. Starts(c)
            BY <1>0, <2>2, ChangeStarts
        <3> QED
            BY <3>1, <3>2, OneCallMoves DEF Starts
    <2>3. CASE Commit(c)
        <3>1. seen' = seen
            BY <2>3 DEF Commit
        <3>2. /\ call[c] \in CallRecords /\ call[c].player \in Players
              /\ row[call[c].player] \in Rows
              /\ row'[call[c].player].rev = row[call[c].player].rev + 1
              /\ row'[call[c].player].inv >= row[call[c].player].inv
              /\ \A q \in Players \ {call[c].player} : row'[q] = row[q]
              /\ Waits(c) \/ Gets(c, row'[call[c].player])
            BY <1>0, <2>3, CommitShape
        <3>3. row'[p] = row[p] \/ (row'[p].rev > row[p].rev /\ row'[p].inv >= row[p].inv)
            BY <3>2 DEF Rows, Revisions
        <3>4. call[c] # Idle
            BY <3>2, CallsAreNotIdle
        <3>5. CASE Waits(c)
            BY <3>1, <3>3, <3>4, <3>5, OneCallMoves DEF Waits
        <3>6. CASE Gets(c, row'[call[c].player])
            BY <3>1, <3>3, <3>6, OneCallMoves DEF Gets
        <3> QED
            BY <3>2, <3>5, <3>6
    <2>4. CASE Replay(c)
        <3>1. seen' = seen /\ row' = row /\ call[c].stage = "sent"
            BY <2>4 DEF Replay, backend
        <3>2. call[c] # Idle
            BY <3>1 DEF Idle
        <3>3. call[c].kind = "pickup" => Known(call[c]) = {}
            BY <3>1, <3>2 DEF RequestsAreNew, Unrepeated
        <3>4. Waits(c) \/ Gets(c, row[call[c].player])
            BY <1>0, <2>4, <3>3, ReplayShape
        <3>5. CASE Waits(c)
            BY <3>1, <3>2, <3>5, OneCallMoves DEF Waits
        <3>6. CASE Gets(c, row[call[c].player])
            BY <3>1, <3>6, OneCallMoves DEF Gets
        <3> QED
            BY <3>4, <3>5, <3>6
    <2>5. CASE ReadBack(c) \/ Fail(c)
        <3>1. seen' = seen /\ row' = row /\ call[c].stage \in {"sent", "committed", "served"}
            BY <2>5 DEF ReadBack, Fail, backend
        <3>2. call[c] # Idle
            BY <3>1 DEF Idle
        <3>3. row[call[c].player] \in Rows
            BY <1>0, <3>2 DEF TypeOK, CallRecords
        <3>4. Gets(c, row[call[c].player]) \/ Gets(c, NoAnswer)
            BY <1>0, <2>5, <3>1, <3>3, AnswerGets DEF ReadBack, Fail
        <3>5. CASE Gets(c, row[call[c].player])
            BY <3>1, <3>5, OneCallMoves DEF Gets
        <3>6. CASE Gets(c, NoAnswer)
            BY <3>1, <3>6, OneCallMoves DEF Gets
        <3> QED
            BY <3>4, <3>5, <3>6
    <2>6. CASE PickupAnswered(c) \/ ChangeAnswered(c)
        <3>1. /\ call[c] # Idle /\ call'[c] = Idle
              /\ \A d \in Calls \ {c} : call'[d] = call[d]
              /\ row' = row
              /\ \/ seen'[p] = seen[p]
                 \/ /\ p = call[c].player /\ call[c].answer # NoAnswer
                    /\ seen'[p].inv = call[c].answer.inv /\ seen'[p].rev = call[c].answer.rev
            BY <2>6, AnsweredShape
        <3>2. \E w \in Versions(p) : seen'[p].rev = w.rev /\ seen'[p].inv = w.inv
            <4>1. CASE seen'[p] = seen[p]
                BY <1>1, <4>1
            <4>2. CASE /\ p = call[c].player /\ call[c].answer # NoAnswer
                       /\ seen'[p].inv = call[c].answer.inv /\ seen'[p].rev = call[c].answer.rev
                <5>1. call[c].answer \in Versions(p)
                    BY <3>1, <4>2 DEF Versions
                <5> QED
                    BY <4>2, <5>1
            <4> QED
                BY <3>1, <4>1, <4>2
        <3>3. Versions(p)' \subseteq Versions(p) \cup {seen'[p]}
            BY <3>1 DEF Versions
        <3> QED
            BY <1>1, <3>1, <3>2, <3>3 DEF BringsTheRow
    <2> QED
        BY <1>4, <2>1, <2>2, <2>3, <2>4, <2>5, <2>6 DEF CallStep
<1>5. CASE UNCHANGED vars
    <2>1. seen' = seen /\ row' = row /\ call' = call
        BY <1>5 DEF vars, backend
    <2>2. Versions(p)' = Versions(p)
        BY <2>1 DEF Versions
    <2> QED
        BY <1>1, <2>1, <2>2 DEF BringsTheRow
<1> QED
    BY <1>3, <1>4, <1>5 DEF Next

LEMMA HistoryStep ==
    ASSUME PickupInv, PickupInv', RequestsAreNew, OneHistory, [Next]_vars
    PROVE  OneHistory'
<1> SUFFICES ASSUME NEW p \in Players
             PROVE  \A v, w \in Versions(p)' :
                        v.rev <= row'[p].rev /\ (v.rev <= w.rev => v.inv <= w.inv)
    BY DEF OneHistory
<1>1. row'[p].rev \in Nat /\ row'[p].inv \in Nat
    BY DEF PickupInv, TypeOK, Rows, Revisions
<1>2. \A v \in Versions(p) : v.rev \in Nat /\ v.inv \in Nat
    BY VersionsTyped DEF PickupInv
<1> QED
    BY <1>1, <1>2, NewVersions, HistoryGoesOn DEF BringsTheRow

(* All that is on its way to a player or shown belongs to one history of its    *)
(* progress: of two versions the later has all the items of the earlier.       *)
THEOREM ProgressIsOneHistory ==
    ASSUME ~ReuseRequests
    PROVE  Spec => []OneHistory
<1>1. Init => OneHistory
    <2>1. NewRow.rev = 0 /\ NewRow.inv = 0
        BY DEF NewRow
    <2>2. Init => \A p \in Players : Versions(p) = {NewRow} /\ row[p] = NewRow
        BY DEF Init, Versions
    <2> QED
        BY <2>1, <2>2 DEF OneHistory
<1>2. PickupInv /\ PickupInv' /\ RequestsAreNew /\ OneHistory /\ [Next]_vars => OneHistory'
    BY HistoryStep
<1> QED
    BY <1>1, <1>2, RequestsStayNew, PickupsSafe, PTL DEF Spec

(* A late answer takes items out of the cached progress only by taking it back  *)
(* to an earlier revision (server.gd:391, 412, 493-501).                      *)
THEOREM ItemsStay ==
    ASSUME ~ReuseRequests
    PROVE  Spec => ItemsLeaveWithRevision
<1>1. ASSUME PickupInv, RequestsAreNew, OneHistory, [Next]_vars, NEW p \in Players
      PROVE  seen'[p].inv < seen[p].inv => seen'[p].rev < seen[p].rev
    <2>1. PICK w \in Versions(p) : seen'[p].rev = w.rev /\ seen'[p].inv = w.inv
        BY <1>1, NewVersions DEF BringsTheRow
    <2>2. seen[p] \in Versions(p)
        BY DEF Versions
    <2>3. w.rev \in Nat /\ w.inv \in Nat /\ seen[p].rev \in Nat /\ seen[p].inv \in Nat
        BY <1>1, <2>2, VersionsTyped DEF PickupInv
    <2>4. seen[p].rev <= w.rev => seen[p].inv <= w.inv
        BY <1>1, <2>2 DEF OneHistory
    <2> QED
        BY <2>1, <2>3, <2>4
<1>2. PickupInv /\ RequestsAreNew /\ OneHistory /\ [Next]_vars =>
        [\A p \in Players : seen'[p].inv < seen[p].inv => seen'[p].rev < seen[p].rev]_vars
    BY <1>1
<1> QED
    BY <1>2, ProgressIsOneHistory, RequestsStayNew, PickupsSafe, PTL DEF Spec, ItemsLeaveWithRevision
=============================================================================
