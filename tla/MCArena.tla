------------------------------ MODULE MCArena ------------------------------
(* A player with three connections and an enemy whom two attacks, or an        *)
(* ability, leave no health.                                                  *)
EXTENDS Arena, FiniteSetsExt

(* Two connections at a time: the third comes when one has gone.              *)
TwoOpen ==
    Cardinality({c \in Connections : c \in peers \/ Nobody # asking[c]
                                     \/ Nobody # loading[c] \/ Nobody # conn[c]}) <= 2

(* No more renewals once a late one has brought a body back.                  *)
OneRevival == revived = {} \/ \A p \in Players : kept[p] = NoEntry

(* The enemy dies and comes back once.                                        *)
OneLife == \A e \in Enemies : enemy[e].revision <= 3

Effort == Cardinality(used)
          + MapThenSumSet(LAMBDA o : body[o].last + Cardinality(body[o].inputs), Connections)

Quiet ==
    /\ enemy = [e \in Enemies |-> Unscathed]
    /\ \A o \in Connections : body[o].hp = FullHealth

(* The more connections, the fewer inputs: who fights sends one input over one *)
(* connection, or none over two; with a third connection nobody fights.        *)
Bounded ==
    /\ TwoOpen /\ OneRevival /\ OneLife
    /\ Effort <= 4
    /\ Quiet \/ Effort <= 2
=============================================================================
