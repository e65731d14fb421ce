---------------------------- MODULE MCAdmission ----------------------------
(* Finite instances of Admission: tokens, calls and rooms are interchangeable. *)
EXTENDS Admission, TLC

CONSTANTS s1, p1, r1, r2

MCOwner    == s1 :> p1
MCMapOf    == [r \in {r1, r2} |-> CHOOSE m \in Maps : TRUE]
MCCapacity == r1 :> 1 @@ r2 :> 1

(* Bound: the entries, and the releases to be made, that the rooms and the    *)
(* Backend hold at a time, and those with the calls under way.                *)
Entered ==
    Cardinality(joining) + Cardinality(present) + Cardinality(grace)
        + Cardinality(vacating) + Cardinality(owed)

TwoEntries == Entered <= 2 /\ Entered + Cardinality({c \in Calls : stage[c] # "idle"}) <= 3

Symmetry == Permutations(Tickets) \cup Permutations(Calls) \cup Permutations(Rooms)
=============================================================================
