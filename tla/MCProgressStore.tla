--------------------------- MODULE MCProgressStore ---------------------------
(* Small instances of ProgressStore for TLC.                               *)
EXTENDS ProgressStore, TLC

CONSTANTS c1, c2, r1, r2, coin, gem, hand, forage, step

MCItems      == {coin, gem}
MCQuestOf    == step :> forage
MCRequired   == step :> 1
MCReward     == forage :> (coin :> 1 @@ gem :> 1)

PickupOf(i)  == [kind |-> "pickup", item |-> i]
Wear(i, on)  == [kind |-> "equip", slot |-> hand, item |-> i, equipped |-> on]
StepBy(n)    == [kind |-> "quest", objective |-> step, amount |-> n]
Req(o, p)    == [op |-> o, payload |-> p]

(* Two operations that contend for the quest's reward, an item that comes  *)
(* with the reward being put on, under an operation identifier reused for    *)
(* another payload, and an amount the code refuses.                        *)
RulesRequests == {Req(1, StepBy(1)), Req(2, StepBy(1)), Req(1, StepBy(2)),
                  Req(2, Wear(gem, TRUE))}

(* Two pickups: all that fencing needs.                                    *)
PickupRequests == {Req(1, PickupOf(coin)), Req(2, PickupOf(coin))}

NoCatalog == <<>>

Symmetry == Permutations(Calls)

CallsAndRooms == Permutations(Calls) \cup Permutations(Rooms)
=============================================================================
