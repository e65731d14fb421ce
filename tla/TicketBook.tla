----------------------------- MODULE TicketBook -----------------------------
(* What the Backend promises about entry tickets: a ticket is issued by an   *)
(* open session, admits its bearer at most once, and nothing is issued or    *)
(* admitted for a session once it is closed.                                 *)

CONSTANTS Sessions, Tickets, NoSession

VARIABLES
    open,    \* sessions in use
    closed,  \* sessions that were logged out
    bearer,  \* the session a ticket was issued to
    used     \* tickets that have admitted their bearer

book == <<open, closed, bearer, used>>

Init == /\ open = {} /\ closed = {} /\ used = {}
        /\ bearer = [t \in Tickets |-> NoSession]

Open(s) == /\ s \notin open \cup closed
           /\ open' = open \cup {s}
           /\ UNCHANGED <<closed, bearer, used>>

Close(s) == /\ open' = open \ {s}
            /\ closed' = closed \cup {s}
            /\ UNCHANGED <<bearer, used>>

Issue(t, s) == /\ s \in open /\ bearer[t] = NoSession
               /\ bearer' = [bearer EXCEPT ![t] = s]
               /\ UNCHANGED <<open, closed, used>>

Admit(t) == /\ bearer[t] \in open /\ t \notin used
            /\ used' = used \cup {t}
            /\ UNCHANGED <<open, closed, bearer>>

Next == \/ \E s \in Sessions : Open(s) \/ Close(s) \/ \E t \in Tickets : Issue(t, s)
        \/ \E t \in Tickets : Admit(t)

Spec == Init /\ [][Next]_book
=============================================================================
