----------------------------- MODULE MCPickups ------------------------------
(* Small instances of Pickups.                                               *)
EXTENDS Pickups, TLC

Symmetry == Permutations(Players) \cup Permutations(Connections)
            \cup Permutations(Entities) \cup Permutations(Requests) \cup Permutations(Calls)

(* A lease is in doubt while one call at most is under way.                  *)
DoubtAtRest ==
    uncertain # {} => /\ Cardinality(uncertain) = 1
                      /\ Cardinality({c \in Calls : call[c] # Idle}) <= 1
=============================================================================
