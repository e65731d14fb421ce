------------------------------ MODULE SeatBook ------------------------------
(* What the room directory promises about seats: a player sits in at most   *)
(* one room, a room never seats more players than its capacity, and a        *)
(* player moves from one room to another in one step.                        *)
EXTENDS Integers, FiniteSets

CONSTANTS Rooms, Players, Capacity, NoRoom

VARIABLE seat   \* the room of each player, NoRoom for none

Seated(r) == {p \in Players : seat[p] = r}

Init == seat = [p \in Players |-> NoRoom]

(* A player is seated in a room with a free place, leaving any other.       *)
Sit(p, r) == /\ Cardinality(Seated(r)) < Capacity[r]
             /\ seat' = [seat EXCEPT ![p] = r]

Leave(p) == seat' = [seat EXCEPT ![p] = NoRoom]

Next == \E p \in Players : Leave(p) \/ \E r \in Rooms : Sit(p, r)

Spec == Init /\ [][Next]_seat
=============================================================================
