----------------------------- MODULE Admission -----------------------------
(* The way of a player through the system: a session asks for a seat and a    *)
(* ticket, the GameServer of a room redeems the ticket and acquires the        *)
(* player's lease, the player plays, leaves, comes back, and what it held is    *)
(* given up when its grace has ended.                                         *)
(*                                                                           *)
(* Composition of Tickets, statement by statement, with the seats as SeatBook  *)
(* promises them and with the rooms' processes, whose calls to the Backend are *)
(* one step each: GameSession has what happens between them.  A call may take  *)
(* effect and be reported as failed.  AllocateRoom does not look at the map     *)
(* that the ticket is then issued for.                                        *)
EXTENDS Tickets, FiniteSets

CONSTANTS
    Players, Rooms, Maps,
    Owner,       \* the player of a session
    MapOf,       \* the map a room's process runs
    Capacity,    \* players of a room
    HomeRoom,    \* "g0-room", for which POST /v1/tickets issues, running or not
    NoRoom,
    MaxToken     \* bound: fencing tokens of a player

ASSUME AdmissionAssumption ==
    /\ Owner \in [Sessions -> Players] /\ MapOf \in [Rooms -> Maps]
    /\ Capacity \in [Rooms -> Nat] /\ MaxToken \in Nat
    /\ NoRoom \notin Rooms \cup {HomeRoom}

VARIABLES
    seat,      \* the active reservation of each player
    place,     \* the room a call has a seat in, or redeems for
    goal,      \* the room and the map of each ticket
    lease,     \* active_player_session: room, token, and whether it has expired
    joining,   \* rooms that redeemed a player's ticket and wait for its lease
    present,   \* identities with their leases: room, player, token
    grace,     \* disconnected, likewise
    vacating,  \* entries whose grace has ended, the reservation to be released
    owed,      \* reservations that a failed allocation is to release
    lapsed,    \* ghost: entries whose lease has expired since they came in
    overtaken  \* ghost: players who came in while a release of the seat was to come

rooms  == <<joining, present, grace, vacating>>
ghosts == <<lapsed, overtaken>>
world  == <<seat, owed, place, goal, lease, rooms, ghosts>>
all    == <<vars, world>>

NoGoal  == [room |-> NoRoom]
NoLease == [room |-> NoRoom, token |-> 0, live |-> FALSE]
Stays   == Rooms \X Players
Joins   == Rooms \X Players \X Tickets
Entries == Rooms \X Players \X (1..MaxToken)

AdmissionTypeOK ==
    /\ seat \in [Players -> Rooms \cup {NoRoom}]
    /\ place \in [Calls -> Rooms \cup {NoRoom}]
    /\ \A c \in Calls : stage[c] = "written" => place[c] \in Rooms
    /\ goal \in [Tickets -> [room : Rooms \cup {HomeRoom}, map : Maps] \cup {NoGoal}]
    /\ lease \in [Players -> [room : Rooms \cup {NoRoom}, token : 0..MaxToken, live : BOOLEAN]]
    /\ joining \subseteq Joins
    /\ {vacating, owed, overtaken} \subseteq SUBSET Stays
    /\ {present, grace, lapsed} \subseteq SUBSET Entries

AdmissionInit ==
    /\ Init
    /\ seat = [p \in Players |-> NoRoom]
    /\ place = [c \in Calls |-> NoRoom]
    /\ goal = [t \in Tickets |-> NoGoal]
    /\ lease = [p \in Players |-> NoLease]
    /\ joining = {} /\ present = {} /\ grace = {} /\ vacating = {}
    /\ owed = {} /\ lapsed = {} /\ overtaken = {}
-----------------------------------------------------------------------------
Seats == INSTANCE SeatBook

(* A slip: the release names the player only.                                 *)
VacateAny(r, p) == seat' = [seat EXCEPT ![p] = NoRoom]

(* ReleaseReservation(r, p)                                                   *)
Vacate(r, p) == IF seat[p] = r THEN Seats!Leave(p) ELSE UNCHANGED seat

Caller(c) == Owner[about[c]]

Inside(r, p) == \E e \in present : e[1] = r /\ e[2] = p

(* A step of a handler that touches the tables of Tickets only.               *)
Alone(step) == step /\ UNCHANGED world

Ended(c) == place' = [place EXCEPT ![c] = NoRoom]

(* AllocateForMap: the seat first.                                            *)
AllocateRoom(c, r) ==
    /\ stage[c] = "authed" /\ op[c] = "issue" /\ place[c] = NoRoom
    /\ Seats!Sit(Caller(c), r)
    /\ place' = [place EXCEPT ![c] = r]
    /\ UNCHANGED <<vars, owed, goal, lease, rooms, ghosts>>

(* AllocateForMap when IssueTicket has returned an error: the seat is to be     *)
(* released, in a call of its own.                                            *)
MayOwe(c) ==
    \/ UNCHANGED owed
    \/ place[c] # NoRoom /\ op[c] = "issue" /\ owed' = owed \cup {<<place[c], Caller(c)>>}

(* The ticket is for the room of the seat, POST /v1/tickets asks for none, and  *)
(* for the map of the request, which is one of the catalogue.                 *)
Issue(c, m) ==
    /\ CommitIssue(c)
    /\ goal' = [goal EXCEPT ![ticket[c]] =
                   [room |-> IF place[c] = NoRoom THEN HomeRoom ELSE place[c], map |-> m]]
    /\ Ended(c) /\ MayOwe(c)
    /\ UNCHANGED <<seat, lease, rooms, ghosts>>

GiveUp(c) ==
    /\ Fail(c)
    /\ Ended(c) /\ MayOwe(c)
    /\ UNCHANGED <<seat, goal, lease, rooms, ghosts>>

(* A release may have no effect, and nothing comes of that.                   *)
Compensate(r, p) ==
    /\ <<r, p>> \in owed
    /\ owed' = owed \ {<<r, p>>}
    /\ UNCHANGED seat \/ Vacate(r, p)
    /\ UNCHANGED <<vars, place, goal, lease, rooms, ghosts>>

(* _authenticate of room r: the client's packet names the room's own map.     *)
Redeem(c, t, r) ==
    /\ BeginRedeem(c, t)
    /\ place' = [place EXCEPT ![c] = r]
    /\ UNCHANGED <<seat, owed, goal, lease, rooms, ghosts>>

(* RedeemTicket: where ... room_id = $2 and map_id = $7 and ...               *)
Fits(t, r) == goal[t] = [room |-> r, map |-> MapOf[r]]

Accept(c) ==
    /\ WriteRedemption(c) /\ Fits(ticket[c], place[c])
    /\ UNCHANGED world

(* The room goes on with the player, unless it has the player already, the     *)
(* answer was lost or the connection has gone.                                *)
Redeemed(c) ==
    LET r == place[c] p == Owner[issued[ticket[c]]] IN
    /\ CommitRedeem(c)
    /\ \/ ~Inside(r, p) /\ joining' = joining \cup {<<r, p, ticket[c]>>}
       \/ UNCHANGED joining
    /\ Ended(c)
    /\ UNCHANGED <<seat, owed, goal, lease, present, grace, vacating, ghosts>>
-----------------------------------------------------------------------------
(* An earlier stay, or allocation, has yet to release the seat.               *)
Due(r, p) ==
    \/ <<r, p>> \in vacating \cup owed
    \/ \E e \in present \cup grace : e[1] = r /\ e[2] = p

(* A slip: the lease of another room is not looked at.                        *)
AcquirableAnyway(p) == lease[p].token < MaxToken

Acquirable(p) == ~lease[p].live /\ lease[p].token < MaxToken

(* One of the connections of player p that wait in room r goes on.            *)
Resumes(r, p) ==
    \E j \in joining : j[1] = r /\ j[2] = p /\ joining' = joining \ {j}

(* AcquireSession, whose answer may be lost.                                  *)
Acquire(r, p) ==
    LET token == lease[p].token + 1 IN
    /\ Resumes(r, p) /\ Acquirable(p)
    /\ lease' = [lease EXCEPT ![p] = [room |-> r, token |-> token, live |-> TRUE]]
    /\ \/ UNCHANGED <<present, overtaken>>
       \/ /\ present' = present \cup {<<r, p, token>>}
          /\ overtaken' = IF Due(r, p) THEN overtaken \cup {<<r, p>>} ELSE overtaken \ {<<r, p>>}
    /\ UNCHANGED <<vars, seat, owed, place, goal, grace, vacating, lapsed>>

Refuse(r, p) ==
    /\ Resumes(r, p)
    /\ UNCHANGED <<vars, seat, owed, place, goal, lease, present, grace, vacating, ghosts>>

(* The stays that have lapsed are forgotten with their entries.               *)
KeepLapsed == lapsed' = lapsed \cap (present' \cup grace')

(* _remove_peer: an entry of an earlier stay is replaced.                     *)
Leave(e) ==
    /\ e \in present
    /\ present' = present \ {e}
    /\ grace' = {f \in grace : f[1] # e[1] \/ f[2] # e[2]} \cup {e}
    /\ KeepLapsed
    /\ UNCHANGED <<vars, seat, owed, place, goal, lease, joining, vacating, overtaken>>

(* _reconnect                                                                 *)
Return(e) ==
    /\ e \in grace /\ ~Inside(e[1], e[2])
    /\ grace' = grace \ {e}
    /\ present' = present \cup {e}
    /\ UNCHANGED <<vars, seat, owed, place, goal, lease, joining, vacating, ghosts>>

Holds(e) == lease[e[2]].room = e[1] /\ lease[e[2]].token = e[3]

(* _tick_disconnected erases the entry and releases its lease, and then the     *)
(* reservation.  A call may have no effect, and nothing comes of that.        *)
GraceEnds(e) ==
    /\ e \in grace
    /\ grace' = grace \ {e}
    /\ vacating' = vacating \cup {<<e[1], e[2]>>}
    /\ UNCHANGED lease \/ (Holds(e) /\ lease' = [lease EXCEPT ![e[2]] = NoLease])
    /\ UNCHANGED <<vars, seat, owed, place, goal, joining, present, overtaken>>
    /\ KeepLapsed

ReleaseSeat(r, p) ==
    /\ <<r, p>> \in vacating
    /\ vacating' = vacating \ {<<r, p>>}
    /\ UNCHANGED seat \/ Vacate(r, p)
    /\ UNCHANGED <<vars, owed, place, goal, lease, joining, present, grace, ghosts>>

(* 30 s without a renewal.                                                    *)
Lapse(p) ==
    /\ lease[p].live
    /\ lease' = [lease EXCEPT ![p].live = FALSE]
    /\ lapsed' = lapsed \cup ({<<lease[p].room, p, lease[p].token>>} \cap (present \cup grace))
    /\ UNCHANGED <<vars, seat, owed, place, goal, rooms, overtaken>>

(* The process of a room stops and another one takes its place.               *)
Crash(r) ==
    /\ joining' = {s \in joining : s[1] # r}
    /\ present' = {e \in present : e[1] # r}
    /\ grace' = {e \in grace : e[1] # r}
    /\ vacating' = {s \in vacating : s[1] # r}
    /\ KeepLapsed
    /\ overtaken' = {s \in overtaken : s[1] # r}
    /\ UNCHANGED <<vars, seat, owed, place, goal, lease>>
-----------------------------------------------------------------------------
SessionStep ==
    \/ \E s \in Sessions : Alone(Login(s))
    \/ \E c \in Calls, s \in Sessions, o \in {"issue", "logout"} : Alone(Enter(c, s, o))
    \/ \E c \in Calls, t \in Tickets : Alone(BeginIssue(c, t))
    \/ \E c \in Calls : Alone(LockIssuer(c)) \/ Alone(LockBearer(c)) \/ Alone(Logout(c))
    \/ Alone(Tick)

HandlerStep(c) ==
    \/ \E r \in Rooms : AllocateRoom(c, r)
    \/ \E m \in Maps : Issue(c, m)
    \/ GiveUp(c)
    \/ \E t \in Tickets, r \in Rooms : Redeem(c, t, r)
    \/ Accept(c) \/ Redeemed(c)

RoomStep ==
    \/ \E r \in Rooms, p \in Players : Acquire(r, p) \/ Refuse(r, p) \/ ReleaseSeat(r, p)
    \/ \E e \in Entries : Leave(e) \/ Return(e) \/ GraceEnds(e)
    \/ \E r \in Rooms : Crash(r)

AdmissionNext ==
    \/ SessionStep
    \/ \E c \in Calls : HandlerStep(c)
    \/ RoomStep
    \/ \E p \in Players : Lapse(p) \/ \E r \in Rooms : Compensate(r, p)

AdmissionSpec == AdmissionInit /\ [][AdmissionNext]_all
-----------------------------------------------------------------------------
(* An entry of a room holds the player's lease until that expires: a release of *)
(* another stay or of another room leaves it alone, and nobody takes it over.  *)
StaysHoldLeases ==
    \A e \in present \cup grace : e \in lapsed \/ (Holds(e) /\ lease[e[2]].live)

(* Two entries of a player in one room, or a release that is to come, are found *)
(* only where the player came in over an earlier stay.                        *)
StaysAreApart ==
    \A e \in present \cup grace : <<e[1], e[2]>> \notin overtaken =>
        /\ <<e[1], e[2]>> \notin vacating
        /\ e \notin present \cap grace
        /\ \A f \in present \cup grace : f[1] = e[1] /\ f[2] = e[2] => f = e

AdmissionInv ==
    /\ AdmissionTypeOK
    /\ lapsed \subseteq present \cup grace
    /\ present \cap grace \subseteq lapsed
    /\ StaysHoldLeases /\ StaysAreApart

(* A player is in the game, or may come back to it, in two stays at once only   *)
(* when a lease under the room and token of one of them has expired, however    *)
(* tickets, leases and releases overlap (server.gd:341-345, 269-281;            *)
(* postgres.go:144, 156).                                                     *)
OneRoomPlays ==
    \A e, f \in present \cup grace : e # f /\ e[2] = f[2] => e \in lapsed \/ f \in lapsed

(* A player who plays loses the seat only to an allocation of its own, which     *)
(* moves the seat or fails and gives it up, or to the release that an earlier    *)
(* stay had yet to make when it came in: a release names the room and the       *)
(* player and not the stay (server.gd:280, service.go:151-155).               *)
SeatsStayWithPlayers ==
    [][\A r \in Rooms, p \in Players :
          Inside(r, p) /\ seat[p] = r /\ seat'[p] # r =>
              \/ \E c \in Calls : op[c] = "issue" /\ Caller(c) = p
              \/ <<r, p>> \in owed \cup overtaken]_all
=============================================================================
