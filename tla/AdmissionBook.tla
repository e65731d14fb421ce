--------------------------- MODULE AdmissionBook ---------------------------
(* What the rate limiter promises: of one key no more than its limit is      *)
(* admitted in any minute, and a request is turned away only when its key has *)
(* used its limit within the last minute, or is new while as many others as   *)
(* the table holds have been admitted within the last minute.                 *)
EXTENDS Integers, Sequences, FiniteSets

CONSTANTS Keys, Limit, Minute, MaxWindows

VARIABLES
    clock,    \* time
    log,      \* for each key, the times of all its admissions
    turned    \* whether the last request was turned away

book == <<clock, log, turned>>

Recent(t) == clock - t < Minute

(* The key was admitted within the last minute.                              *)
Active(k) == log[k] # <<>> /\ Recent(log[k][Len(log[k])])

(* The Limit-th last admission of the key is less than a minute old.         *)
UsedUp(k) == /\ Len(log[k]) >= Limit[k]
             /\ Recent(log[k][Len(log[k]) - Limit[k] + 1])

Crowded(k) == /\ ~Active(k)
              /\ Cardinality({j \in Keys : Active(j)}) >= MaxWindows

Init == clock = 0 /\ log = [k \in Keys |-> <<>>] /\ turned = FALSE

Admit(k) == /\ ~UsedUp(k)
            /\ log' = [log EXCEPT ![k] = Append(@, clock)]
            /\ turned' = FALSE
            /\ UNCHANGED clock

TurnAway(k) == /\ UsedUp(k) \/ Crowded(k)
               /\ turned' = TRUE
               /\ UNCHANGED <<clock, log>>

(* A request that the limiter is not asked about.                            *)
Pass == turned' = FALSE /\ UNCHANGED <<clock, log>>

(* The limits are those of one process: a new one starts from nothing.       *)
Forget == log' = [k \in Keys |-> <<>>] /\ turned' = FALSE /\ UNCHANGED clock

Wait == clock' = clock + 1 /\ UNCHANGED <<log, turned>>

Next == \/ \E k \in Keys : Admit(k) \/ TurnAway(k)
        \/ Pass \/ Forget \/ Wait

Spec == Init /\ [][Next]_book
=============================================================================
