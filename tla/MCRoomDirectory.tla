-------------------------- MODULE MCRoomDirectory --------------------------
(* Small instances of RoomDirectory for TLC.                               *)
EXTENDS RoomDirectory, TLC

CONSTANTS p1, p2, c1, c2

(* A room for two and a room for one.                                      *)
MCCapacity == 1 :> 2 @@ 2 :> 1
=============================================================================
