--------------------------- MODULE ProgressRules ---------------------------
(***************************************************************************)
(* The rules of one player's progress, shared by the abstract ledger and   *)
(* by the SQL transactions: what a pickup, an equipment change and a quest *)
(* step do to the inventory, the equipment and the quest list, and when    *)
(* they are permitted.                                                     *)
(*                                                                         *)
(* The quest list of the code (a JSON array of quests, each an array of    *)
(* objectives) is the function from objectives to progress: 0 stands for   *)
(* an objective the array does not list, because a listed one has been     *)
(* advanced by at least 1.                                                 *)
(***************************************************************************)
EXTENDS Integers, FiniteSets

CONSTANTS
    Items,        \* item names
    Slots,        \* equipment slots
    NoItem,       \* an empty slot
    Quests,       \* the keys of questCatalog
    Objectives,   \* all objectives of all quests
    QuestOf,      \* objective -> its quest
    Required,     \* objective -> required progress
    Reward        \* quest -> item -> amount

(* Every quest of the catalogue has exactly one objective.  CommitQuest    *)
(* calls a quest completed when the objectives its row LISTS are complete, *)
(* so a catalogue with two objectives for a quest would complete it early  *)
(* and could pay its reward twice.                                         *)
ASSUME CatalogAssumption ==
    /\ NoItem \notin Items
    /\ IsFiniteSet(Quests)
    /\ QuestOf \in [Objectives -> Quests]
    /\ \A o1, o2 \in Objectives : QuestOf[o1] = QuestOf[o2] => o1 = o2
    /\ Required \in [Objectives -> Nat \ {0}]
    /\ Reward \in [Quests -> [Items -> Nat]]

-----------------------------------------------------------------------------
(* What a commit asks for.                                                 *)

Pickup    == [kind : {"pickup"}, item : Items]
Equip     == [kind : {"equip"}, slot : Slots, item : Items, equipped : BOOLEAN]
QuestStep == [kind : {"quest"}, objective : Objectives, amount : Nat]

Payload == Pickup \cup Equip \cup QuestStep

Progress == [inv    : [Items -> Nat],
             equip  : [Slots -> Items \cup {NoItem}],
             quests : [Objectives -> Nat]]

NewProgress == [inv    |-> [i \in Items |-> 0],
                equip  |-> [s \in Slots |-> NoItem],
                quests |-> [o \in Objectives |-> 0]]

(* Arguments CommitQuest refuses before it opens a transaction.            *)
Valid(p) == p.kind = "quest" => p.amount \in 1..Required[p.objective]

(* A slip the properties must catch: equipping without asking.             *)
OwnedUnchecked(progress, p) == TRUE

(* CommitEquipment asks for the item: in the inventory to put it on, in    *)
(* that slot to take it off.                                               *)
Owned(progress, p) ==
    p.kind = "equip" => IF p.equipped THEN progress.inv[p.item] > 0
                                      ELSE progress.equip[p.slot] = p.item

(* A quest is complete when every objective its row lists is.              *)
Completed(quests, q) ==
    LET listed == {o \in Objectives : QuestOf[o] = q /\ quests[o] > 0}
    IN  listed # {} /\ \A o \in listed : quests[o] >= Required[o]

Advance(quests, o, amount) ==
    LET sum == quests[o] + amount
    IN  [quests EXCEPT ![o] = IF sum > Required[o] THEN Required[o] ELSE sum]

(* A slip: the reward is paid whenever the quest is complete.              *)
PayRewardAgain(inv, before, after, q) ==
    IF Completed(after, q) THEN [i \in Items |-> inv[i] + Reward[q][i]] ELSE inv

(* CommitQuest pays the reward in the step that completes the quest.       *)
PayReward(inv, before, after, q) ==
    IF ~Completed(before, q) /\ Completed(after, q)
    THEN [i \in Items |-> inv[i] + Reward[q][i]]
    ELSE inv

(* The row the commit writes.                                              *)
Effect(progress, p) ==
    CASE p.kind = "pickup" ->
            [progress EXCEPT !.inv[p.item] = @ + 1]
      [] p.kind = "equip" ->
            [progress EXCEPT !.equip[p.slot] = IF p.equipped THEN p.item ELSE NoItem]
      [] p.kind = "quest" ->
            LET quests == Advance(progress.quests, p.objective, p.amount)
            IN  [progress EXCEPT
                   !.quests = quests,
                   !.inv    = PayReward(progress.inv, progress.quests, quests,
                                        QuestOf[p.objective])]
=============================================================================
