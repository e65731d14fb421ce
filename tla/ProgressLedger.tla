--------------------------- MODULE ProgressLedger ---------------------------
(***************************************************************************)
(* What the progress store promises about one player: the operations take  *)
(* effect one at a time, each at most once, in the order of a log; an      *)
(* operation takes effect as a whole or not at all; and nobody is told     *)
(* that an operation succeeded unless it is in the log.                    *)
(***************************************************************************)
EXTENDS ProgressRules, Sequences

CONSTANT Requests     \* [op, payload] pairs

VARIABLES
    log,     \* the operations that took effect, oldest first
    state,   \* the progress they add up to
    told     \* the operations somebody was told have succeeded

vars == <<log, state, told>>

Entries == {log[n] : n \in DOMAIN log}

Init == log = <<>> /\ state = NewProgress /\ told = {}

Apply(q) ==
    /\ Valid(q.payload)
    /\ \A e \in Entries : e.op # q.op
    /\ Owned(state, q.payload)
    /\ log' = Append(log, q)
    /\ state' = Effect(state, q.payload)
    /\ UNCHANGED told

Tell(q) ==
    /\ q \in Entries
    /\ told' = told \cup {q}
    /\ UNCHANGED <<log, state>>

Next == \E q \in Requests : Apply(q) \/ Tell(q)

Spec == Init /\ [][Next]_vars
=============================================================================
