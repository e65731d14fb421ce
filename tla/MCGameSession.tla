--------------------------- MODULE MCGameSession ---------------------------
(* Finite instances of GameSession: connections and players are            *)
(* interchangeable, and so are the firings of the grace timer.              *)
EXTENDS GameSession, TLC

(* Bound: connections that are open, or whose coroutine still waits, at a   *)
(* time.                                                                    *)
TwoOpen ==
    Cardinality({c \in Peers : \/ conn[c] \notin {"new", "gone"}
                              \/ auth[c].at \in {"redeem", "acquire", "reading"}}) <= 2

(* Bound: a player whose lease lapsed and whose entry was put back or whose  *)
(* tokens began again is not followed on.                                   *)
OneMishap == lapsed \cap excused = {}

Bounded == TwoOpen /\ OneMishap

Symmetry == Permutations(Peers) \cup Permutations(Players) \cup Permutations(Ticks)
=============================================================================
