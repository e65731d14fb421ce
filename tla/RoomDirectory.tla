--------------------------- MODULE RoomDirectory ---------------------------
(* The tables room and room_reservation of the Backend: rooms register and   *)
(* beat, players are allocated a seat, seats are released.                   *)
(*                                                                           *)
(* AllocateRoom and ReleaseReservation are transactions of several           *)
(* statements.  Each statement is an action, because the rows it locks block  *)
(* the statements of other transactions; what a transaction writes becomes    *)
(* visible when it commits, so the tables change in Commit only.  The rows a  *)
(* transaction has locked follow from the stage it has reached.               *)
(*                                                                           *)
(* A room's row is kept by columns; rooms are numbers because the code picks   *)
(* them in the order of room_id.  Time passes in ticks, which end when every  *)
(* transaction at its deadline has been cancelled.                            *)
EXTENDS Integers, FiniteSets

CONSTANTS
    Rooms,          \* identifiers of rooms
    Players,
    Calls,          \* handlers that may be running at a time
    Capacity,       \* the capacity each GameServer registers (8)
    FreshFor,       \* ticks after which a silent room is not allocated (15 s)
    CtxTimeout,     \* ticks a handler may take (3 s)
    MaxGeneration,  \* bound: generations 1..MaxGeneration of a room's process
    Nobody          \* the player of a call that is not running

ASSUME DirectoryAssumption ==
    /\ Rooms \subseteq Nat \ {0}
    /\ IsFiniteSet(Players)
    /\ Capacity \in [Rooms -> Nat \ {0}]
    /\ FreshFor \in Nat \ {0}
    /\ CtxTimeout \in Nat
    /\ MaxGeneration \in Nat \ {0}
    /\ Nobody \notin Players

VARIABLES
    generation,  \* generation of each room's row, 0 when there is no row
    status,      \* "ready" or "draining"
    used,        \* used_players
    silence,     \* ticks since last_heartbeat, at most MaxSilence
    active,      \* pairs <<room, player>> of reservations with released_at null
    stage,       \* how far each call is
    op,          \* "allocate" or "release"
    who,         \* the player of the call
    at,          \* the room it seats the player in, or frees the seat of
    left,        \* the room whose seat the transaction has released, or NoRoom
    age          \* ticks since the call started

roomVars == <<generation, status, silence>>
callVars == <<stage, op, who, at, left, age>>
vars     == <<roomVars, used, active, callVars>>

NoRoom      == 0
MaxSilence  == FreshFor + CtxTimeout
Stages      == {"idle", "asked", "picked", "read", "taken", "vacated",
                "reserved", "ticket"}

TypeOK ==
    /\ generation \in [Rooms -> 0..MaxGeneration]
    /\ status \in [Rooms -> {"ready", "draining"}]
    /\ used \in [Rooms -> Nat]
    /\ silence \in [Rooms -> 0..MaxSilence]
    /\ active \subseteq Rooms \X Players
    /\ stage \in [Calls -> Stages]
    /\ op \in [Calls -> {"allocate", "release"}]
    /\ who \in [Calls -> Players \cup {Nobody}]
    /\ at \in [Calls -> Rooms \cup {NoRoom}]
    /\ left \in [Calls -> Rooms \cup {NoRoom}]
    /\ age \in [Calls -> 0..CtxTimeout]

Init ==
    /\ generation = [r \in Rooms |-> 0]
    /\ status = [r \in Rooms |-> "ready"]
    /\ used = [r \in Rooms |-> 0]
    /\ silence = [r \in Rooms |-> 0]
    /\ active = {}
    /\ stage = [c \in Calls |-> "idle"]
    /\ op = [c \in Calls |-> "allocate"]
    /\ who = [c \in Calls |-> Nobody]
    /\ at = [c \in Calls |-> NoRoom]
    /\ left = [c \in Calls |-> NoRoom]
    /\ age = [c \in Calls |-> 0]
-----------------------------------------------------------------------------
(* Row locks.  An allocation locks the room it picked from the start, and     *)
(* every transaction locks the reservation it releases before it locks the    *)
(* room of that reservation.                                                  *)

LocksPick(c) == op[c] = "allocate" /\ stage[c] \in {"picked", "read", "taken", "vacated", "reserved"}
LocksSeat(c) == stage[c] \in {"taken", "vacated", "reserved"} /\ left[c] # NoRoom
LocksLeft(c) == stage[c] \in {"vacated", "reserved"} /\ left[c] # NoRoom

LocksRoom(c, r) == (LocksPick(c) /\ at[c] = r) \/ (LocksLeft(c) /\ left[c] = r)

RoomFree(c, r)    == \A d \in Calls \ {c} : ~LocksRoom(d, r)
SeatFree(c, r, p) == \A d \in Calls \ {c} : ~(LocksSeat(d) /\ left[d] = r /\ who[d] = p)
Unlocked(r)       == \A d \in Calls : ~LocksRoom(d, r)

SetStage(c, s) == stage' = [stage EXCEPT ![c] = s]

(* The call is over: its connection goes back to the pool.                   *)
Finish(c) ==
    /\ SetStage(c, "idle")
    /\ op'   = [op EXCEPT ![c] = "allocate"]
    /\ who'  = [who EXCEPT ![c] = Nobody]
    /\ at'   = [at EXCEPT ![c] = NoRoom]
    /\ left' = [left EXCEPT ![c] = NoRoom]
    /\ age'  = [age EXCEPT ![c] = 0]
-----------------------------------------------------------------------------
(* A GameServer registers its room: one upsert.  The seats taken survive it.  *)
(* now() is the start of the statement, which may have waited w ticks for     *)
(* the row.                                                                   *)
Admits(r, g) == generation[r] <= g

RegisterRoom(r, g, w) ==
    /\ Unlocked(r)
    /\ Admits(r, g)
    /\ generation' = [generation EXCEPT ![r] = g]
    /\ status' = [status EXCEPT ![r] = "ready"]
    /\ silence' = [silence EXCEPT ![r] = w]
    /\ UNCHANGED <<used, active, callVars>>

(* A heartbeat refreshes a room that is not yet stale; the number of players  *)
(* it reports is not stored.                                                  *)
HeartbeatRoom(r, g, s, w) ==
    /\ Unlocked(r)
    /\ generation[r] = g
    /\ silence[r] - w < FreshFor
    /\ status' = [status EXCEPT ![r] = s]
    /\ silence' = [silence EXCEPT ![r] = w]
    /\ UNCHANGED <<generation, used, active, callVars>>
-----------------------------------------------------------------------------
(* A slip: heartbeats are not looked at.                                      *)
SuitableSilent(r) == generation[r] # 0 /\ status[r] = "ready" /\ used[r] < Capacity[r]

(* A slip: a full room takes one more.                                        *)
SuitableFull(r) ==
    generation[r] # 0 /\ status[r] = "ready" /\ silence[r] < FreshFor /\ used[r] <= Capacity[r]

(* AllocateRoom, first statement: the first suitable room whose row nobody    *)
(* has locked.  Without one the call fails at once, which changes nothing.    *)
Suitable(r) ==
    /\ generation[r] # 0
    /\ status[r] = "ready"
    /\ silence[r] < FreshFor
    /\ used[r] < Capacity[r]

FirstSuitable(r) ==
    /\ Suitable(r) /\ Unlocked(r)
    /\ \A s \in Rooms : Suitable(s) /\ Unlocked(s) => r <= s

PickRoom(c, p, r) ==
    /\ stage[c] = "idle"
    /\ FirstSuitable(r)
    /\ SetStage(c, "picked")
    /\ op'   = [op EXCEPT ![c] = "allocate"]
    /\ who'  = [who EXCEPT ![c] = p]
    /\ at'   = [at EXCEPT ![c] = r]
    /\ UNCHANGED <<roomVars, used, active, left, age>>

(* Second statement, an update: its snapshot finds the player's reservation,  *)
(* if there is one, ...                                                       *)
ReadSeat(c) ==
    /\ stage[c] = "picked"
    /\ SetStage(c, "read")
    /\ \/ \E r \in Rooms : <<r, who[c]>> \in active /\ left' = [left EXCEPT ![c] = r]
       \/ (\A r \in Rooms : <<r, who[c]>> \notin active) /\ UNCHANGED left
    /\ UNCHANGED <<roomVars, used, active, op, who, at, age>>

(* A slip: "released_at is null" is forgotten.                               *)
AssumeActive(r, p) == r # NoRoom

(* ... and once the row is free looks whether it is still active.             *)
StillActive(r, p) == <<r, p>> \in active

TakeSeat(c) ==
    /\ stage[c] = "read"
    /\ SeatFree(c, left[c], who[c])
    /\ IF StillActive(left[c], who[c])
       THEN SetStage(c, "taken") /\ UNCHANGED left
       ELSE SetStage(c, "vacated") /\ left' = [left EXCEPT ![c] = NoRoom]
    /\ UNCHANGED <<roomVars, used, active, op, who, at, age>>

(* The row of the room that was left, to count its players down.              *)
Vacate(c) ==
    /\ stage[c] = "taken"
    /\ RoomFree(c, left[c])
    /\ SetStage(c, "vacated")
    /\ UNCHANGED <<roomVars, used, active, op, who, at, left, age>>

(* A slip: without the index.                                                 *)
IndexMissing(c) == TRUE

(* The insert of the new reservation.  The unique index on the active         *)
(* reservations of a player makes it wait for an uncommitted entry of another *)
(* transaction and fail on a committed one.                                   *)
IndexAdmits(c) ==
    /\ \A d \in Calls \ {c} : ~(stage[d] = "reserved" /\ who[d] = who[c])
    /\ \A r \in Rooms : <<r, who[c]>> \in active => r = left[c]

Reserve(c) ==
    /\ stage[c] = "vacated" /\ op[c] = "allocate"
    /\ IndexAdmits(c)
    /\ SetStage(c, "reserved")
    /\ UNCHANGED <<roomVars, used, active, op, who, at, left, age>>
-----------------------------------------------------------------------------
(* ReleaseReservation(room, player): asked for by the GameServer when a       *)
(* player's grace has run out, or by AllocateForMap to undo an allocation.    *)
BeginRelease(c, r, p) ==
    /\ stage[c] = "idle"
    /\ generation[r] # 0
    /\ SetStage(c, "asked")
    /\ op'  = [op EXCEPT ![c] = "release"]
    /\ who' = [who EXCEPT ![c] = p]
    /\ at'  = [at EXCEPT ![c] = r]
    /\ UNCHANGED <<roomVars, used, active, left, age>>

(* Its first statement; without an active reservation there is nothing to do. *)
ReleaseSeat(c) ==
    /\ stage[c] = "asked"
    /\ SeatFree(c, at[c], who[c])
    /\ IF StillActive(at[c], who[c])
       THEN /\ SetStage(c, "taken")
            /\ left' = [left EXCEPT ![c] = at[c]]
            /\ UNCHANGED <<op, who, at, age>>
       ELSE Finish(c)
    /\ UNCHANGED <<roomVars, used, active>>

(* used_players of a room counted down, never below zero.                     *)
CountDown(r) == [s \in Rooms |-> IF s # r THEN used[s] ELSE IF used[s] > 0 THEN used[s] - 1 ELSE 0]

CountUp(u, r) == [u EXCEPT ![r] = @ + 1]

CommitRelease(c) ==
    /\ stage[c] = "vacated" /\ op[c] = "release"
    /\ used' = CountDown(left[c])
    /\ active' = active \ {<<left[c], who[c]>>}
    /\ Finish(c)
    /\ UNCHANGED roomVars

(* AllocateRoom commits.  The answer may be lost on its way to the service,   *)
(* which then reports an error and undoes nothing.                            *)
CommitAllocate(c) ==
    /\ stage[c] = "reserved"
    /\ used' = CountUp(CountDown(left[c]), at[c])
    /\ active' = (active \ {<<left[c], who[c]>>}) \cup {<<at[c], who[c]>>}
    /\ \/ SetStage(c, "ticket") /\ left' = [left EXCEPT ![c] = NoRoom] /\ UNCHANGED <<op, who, at, age>>
       \/ Finish(c)
    /\ UNCHANGED roomVars

(* AllocateForMap issues a ticket for the seat and answers the client; when   *)
(* that fails it releases the reservation, whatever comes of that.            *)
IssueTicket(c) ==
    /\ stage[c] = "ticket"
    /\ Finish(c)
    /\ UNCHANGED <<roomVars, used, active>>

UndoAllocation(c) ==
    /\ stage[c] = "ticket"
    /\ SetStage(c, "asked")
    /\ op' = [op EXCEPT ![c] = "release"]
    /\ UNCHANGED <<roomVars, used, active, who, at, left, age>>

(* The transaction fails: an error of the database, the unique index, the     *)
(* victim of a deadlock, a client that went away.                             *)
Abort(c) ==
    /\ stage[c] # "idle"
    /\ Finish(c)
    /\ UNCHANGED <<roomVars, used, active>>

(* A slip: the context is not handed to the statements.                       *)
NeverExpire(c) == FALSE

(* The deadline of the handler's context.                                     *)
Expire(c) == age[c] = CtxTimeout /\ Abort(c)

Tick ==
    /\ \A c \in Calls : stage[c] # "idle" => age[c] < CtxTimeout
    /\ age' = [c \in Calls |-> IF stage[c] = "idle" THEN 0 ELSE age[c] + 1]
    /\ silence' = [r \in Rooms |-> IF generation[r] = 0 \/ silence[r] = MaxSilence
                                   THEN silence[r] ELSE silence[r] + 1]
    /\ UNCHANGED <<generation, status, used, active, stage, op, who, at, left>>
-----------------------------------------------------------------------------
(* What a running call does next of its own.                                  *)
Proceed(c) ==
    \/ ReadSeat(c) \/ TakeSeat(c) \/ Vacate(c) \/ Reserve(c)
    \/ ReleaseSeat(c) \/ CommitRelease(c) \/ CommitAllocate(c)
    \/ IssueTicket(c) \/ UndoAllocation(c)

RoomStep(r) ==
    \E g \in 1..MaxGeneration, w \in 0..CtxTimeout :
        \/ RegisterRoom(r, g, w)
        \/ \E s \in {"ready", "draining"} : HeartbeatRoom(r, g, s, w)

BeginCall(c) ==
    \E r \in Rooms, p \in Players : PickRoom(c, p, r) \/ BeginRelease(c, r, p)

Next ==
    \/ \E r \in Rooms : RoomStep(r)
    \/ \E c \in Calls : BeginCall(c) \/ Proceed(c) \/ Abort(c)
    \/ Tick

Spec == Init /\ [][Next]_vars

(* Time passes, the database executes every statement that waits for no row,  *)
(* and contexts are cancelled at their deadline.                              *)
FairSpec ==
    /\ Spec
    /\ WF_vars(Tick)
    /\ \A c \in Calls : WF_vars(Proceed(c)) /\ WF_vars(Expire(c))
-----------------------------------------------------------------------------
SeatsIn(r) == {p \in Players : <<r, p>> \in active}

(* used_players is the number of active reservations of the room: no          *)
(* interleaving of allocations, moves, releases and compensations counts a    *)
(* player twice, or not at all (postgres.go: AllocateRoom and                 *)
(* ReleaseReservation update the two tables by separate statements).          *)
SeatsCounted == \A r \in Rooms : used[r] = Cardinality(SeatsIn(r))

(* A player never holds seats in two rooms, whatever allocations of the same  *)
(* player overlap (the index active_player_reservation).                      *)
OneSeat ==
    \A r, s \in Rooms, p \in Players : <<r, p>> \in active /\ <<s, p>> \in active => r = s

(* The parts of the inductive invariant: row locks exclude each other ...     *)
LocksExclude ==
    \A c, d \in Calls : c # d =>
        /\ \A r \in Rooms : ~(LocksRoom(c, r) /\ LocksRoom(d, r))
        /\ ~(LocksSeat(c) /\ LocksSeat(d) /\ left[c] = left[d] /\ who[c] = who[d])

(* ... a locked reservation stays active until its transaction commits ...    *)
LockedSeatsAreActive == \A c \in Calls : LocksSeat(c) => <<left[c], who[c]>> \in active

(* ... a locked room stays as it was picked, but for time ...                 *)
PickedRoomsHavePlace ==
    \A c \in Calls : LocksPick(c) =>
        /\ status[at[c]] = "ready" /\ generation[at[c]] # 0
        /\ used[at[c]] < Capacity[at[c]]
        /\ silence[at[c]] < FreshFor + age[c]

(* ... an inserted reservation keeps others out of the index ...              *)
ReservedAlone == \A c \in Calls : stage[c] = "reserved" => IndexAdmits(c)

(* ... and the variables of a call agree with its stage.                      *)
CallsWellFormed ==
    \A c \in Calls :
        /\ stage[c] # "idle" => who[c] \in Players /\ at[c] \in Rooms
        /\ stage[c] = "taken" => left[c] \in Rooms
        /\ stage[c] \in {"picked", "read", "reserved", "ticket"} => op[c] = "allocate"
        /\ stage[c] = "asked" => op[c] = "release"
        /\ stage[c] \in {"idle", "picked", "asked", "ticket"} => left[c] = NoRoom
        /\ op[c] = "release" /\ stage[c] \in {"taken", "vacated"} => left[c] = at[c]

(* The inductive invariant of the directory: the seats are counted, one to a  *)
(* player, because of the locks each transaction holds at each stage.         *)
DirectoryInv ==
    /\ TypeOK /\ CallsWellFormed /\ SeatsCounted /\ OneSeat
    /\ LocksExclude /\ LockedSeatsAreActive /\ PickedRoomsHavePlace /\ ReservedAlone

(* A player is seated in a room only while it is ready and at most the        *)
(* handler's time beyond fresh: the lock taken by the pick keeps a draining    *)
(* heartbeat and a new registration out until the seat is committed.          *)
SeatsInLiveRooms ==
    [][\A r \in Rooms, p \in Players : <<r, p>> \in active' \ active =>
           status[r] = "ready" /\ silence[r] < MaxSilence]_vars

(* The seats implement the seat book: no room above its capacity, a move is   *)
(* one step.                                                                  *)
SeatOf == [p \in Players |-> IF \E r \in Rooms : <<r, p>> \in active
                             THEN CHOOSE r \in Rooms : <<r, p>> \in active ELSE NoRoom]

Book == INSTANCE SeatBook WITH seat <- SeatOf

ImplementsSeatBook == Book!Spec

(* Every handler ends, also when transactions wait for each other: an         *)
(* allocation locks a room and then a reservation, a release locks them in    *)
(* the opposite order, and two allocations may want each other's rooms.       *)
EveryCallEnds == \A c \in Calls : stage[c] # "idle" ~> stage[c] = "idle"
=============================================================================
