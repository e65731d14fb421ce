------------------------------ MODULE Tickets ------------------------------
(* The tables session and ticket of the Backend: a login opens a session, a  *)
(* session issues tickets and is logged out, and a GameServer redeems a      *)
(* ticket for the player who connects with it.                               *)
(*                                                                           *)
(* IssueTicket and RedeemTicket lock the row of the session in their first   *)
(* statement and change the tables when they commit; RevokeSession is a      *)
(* single statement that waits for the row.  A handler asks for the session  *)
(* (Auth) before any of this, in a read of its own.                          *)
(*                                                                           *)
(* Time passes in ticks and only differences matter.  now() is the start of  *)
(* a transaction: from a transaction of age a, a row with ttl n has n + a.   *)
EXTENDS Integers

CONSTANTS
    Sessions,    \* session tokens, each opened by one login
    Tickets,     \* ticket tokens, each drawn for one issue
    Calls,       \* handlers that may be running at a time
    NoSession,   \* the session of a ticket that has no row
    NoTicket,    \* the ticket of a call that has none
    SessionTTL,  \* 15 min
    TicketTTL,   \* 60 s
    CtxTimeout   \* 3 s, the deadline of a handler

ASSUME TicketAssumption ==
    /\ NoSession \notin Sessions /\ NoTicket \notin Tickets
    /\ SessionTTL \in Nat \ {0} /\ TicketTTL \in Nat \ {0} /\ CtxTimeout \in Nat

VARIABLES
    opened,       \* sessions with a row
    revoked,      \* ... whose revoked_at is set
    sessionLeft,  \* time until session.expires_at
    issued,       \* ticket.session_hash
    ticketLeft,   \* time until ticket.expires_at
    redeemed,     \* tickets whose redeemed_at is set
    op,           \* what a call does: "issue", "logout" or "redeem"
    stage,        \* how far it is
    about,        \* its session
    ticket,       \* its ticket
    age,          \* ticks since it, or its transaction, began
    admissions    \* ghost: how often a ticket was redeemed

tables == <<opened, revoked, sessionLeft, issued, ticketLeft, redeemed>>
calls  == <<op, stage, about, ticket, age>>
vars   == <<tables, calls, admissions>>

TypeOK ==
    /\ opened \subseteq Sessions
    /\ revoked \subseteq opened
    /\ sessionLeft \in [Sessions -> Int]
    /\ issued \in [Tickets -> Sessions \cup {NoSession}]
    /\ ticketLeft \in [Tickets -> Int]
    /\ redeemed \subseteq Tickets
    /\ op \in [Calls -> {"issue", "logout", "redeem"}]
    /\ stage \in [Calls -> {"idle", "authed", "begun", "locked", "written"}]
    /\ about \in [Calls -> Sessions \cup {NoSession}]
    /\ ticket \in [Calls -> Tickets \cup {NoTicket}]
    /\ age \in [Calls -> 0..CtxTimeout]
    /\ admissions \in [Tickets -> Nat]

Init ==
    /\ opened = {} /\ revoked = {} /\ redeemed = {}
    /\ sessionLeft = [s \in Sessions |-> 0]
    /\ issued = [t \in Tickets |-> NoSession]
    /\ ticketLeft = [t \in Tickets |-> 0]
    /\ op = [c \in Calls |-> "redeem"]
    /\ stage = [c \in Calls |-> "idle"]
    /\ about = [c \in Calls |-> NoSession]
    /\ ticket = [c \in Calls |-> NoTicket]
    /\ age = [c \in Calls |-> 0]
    /\ admissions = [t \in Tickets |-> 0]
-----------------------------------------------------------------------------
(* A slip: expires_at >= now().                                              *)
UnexpiredAtEnd(left, a) == left + a >= 0

(* expires_at > now() in a transaction of age a.                             *)
Unexpired(left, a) == left + a > 0

(* A slip: revoked_at is not looked at.                                      *)
LiveThough(s, a) == s \in opened /\ Unexpired(sessionLeft[s], a)

Live(s, a) == s \in opened \ revoked /\ Unexpired(sessionLeft[s], a)

(* The session row is locked from the first statement to the commit.         *)
Locks(c) == stage[c] \in {"locked", "written"}

SessionFree(c, s) == \A d \in Calls \ {c} : ~(Locks(d) /\ about[d] = s)

Finish(c) ==
    /\ stage' = [stage EXCEPT ![c] = "idle"]
    /\ op' = [op EXCEPT ![c] = "redeem"]
    /\ about' = [about EXCEPT ![c] = NoSession]
    /\ ticket' = [ticket EXCEPT ![c] = NoTicket]
    /\ age' = [age EXCEPT ![c] = 0]

(* CreateSession with a fresh token.                                         *)
Login(s) ==
    /\ s \notin opened
    /\ opened' = opened \cup {s}
    /\ sessionLeft' = [sessionLeft EXCEPT ![s] = SessionTTL]
    /\ UNCHANGED <<revoked, issued, ticketLeft, redeemed, calls, admissions>>

(* A handler of the session finds it with Auth.                              *)
Enter(c, s, o) ==
    /\ stage[c] = "idle" /\ o \in {"issue", "logout"}
    /\ Live(s, 0)
    /\ stage' = [stage EXCEPT ![c] = "authed"]
    /\ op' = [op EXCEPT ![c] = o]
    /\ about' = [about EXCEPT ![c] = s]
    /\ UNCHANGED <<tables, ticket, age, admissions>>

(* Ticket, TicketForMap, AllocateForMap: a fresh token, and a transaction.   *)
Fresh(t) == issued[t] = NoSession /\ \A d \in Calls : ~(op[d] = "issue" /\ ticket[d] = t)

BeginIssue(c, t) ==
    /\ stage[c] = "authed" /\ op[c] = "issue"
    /\ Fresh(t)
    /\ stage' = [stage EXCEPT ![c] = "begun"]
    /\ ticket' = [ticket EXCEPT ![c] = t]
    /\ age' = [age EXCEPT ![c] = 0]
    /\ UNCHANGED <<tables, op, about, admissions>>

(* RedeemTicket with any token a client may hold.                            *)
BeginRedeem(c, t) ==
    /\ stage[c] = "idle"
    /\ stage' = [stage EXCEPT ![c] = "begun"]
    /\ op' = [op EXCEPT ![c] = "redeem"]
    /\ ticket' = [ticket EXCEPT ![c] = t]
    /\ UNCHANGED <<tables, about, age, admissions>>

(* IssueTicket: select ... from session ... for update.                      *)
LockIssuer(c) ==
    /\ stage[c] = "begun" /\ op[c] = "issue"
    /\ SessionFree(c, about[c]) /\ Live(about[c], age[c])
    /\ stage' = [stage EXCEPT ![c] = "locked"]
    /\ UNCHANGED <<tables, op, about, ticket, age, admissions>>

(* IssueTicket: the insert, visible from the commit on; its time is now().   *)
CommitIssue(c) ==
    /\ stage[c] = "locked" /\ op[c] = "issue"
    /\ issued' = [issued EXCEPT ![ticket[c]] = about[c]]
    /\ ticketLeft' = [ticketLeft EXCEPT ![ticket[c]] = TicketTTL - age[c]]
    /\ Finish(c)
    /\ UNCHANGED <<opened, revoked, sessionLeft, redeemed, admissions>>

(* RedeemTicket: select ... from session join ticket ... for update of s.    *)
LockBearer(c) ==
    LET s == issued[ticket[c]] IN
    /\ stage[c] = "begun" /\ op[c] = "redeem"
    /\ s # NoSession /\ SessionFree(c, s)
    /\ stage' = [stage EXCEPT ![c] = "locked"]
    /\ about' = [about EXCEPT ![c] = s]
    /\ UNCHANGED <<tables, op, ticket, age, admissions>>

(* A slip: "redeemed_at is null" is forgotten.                               *)
RedeemableAgain(t, a) == Unexpired(ticketLeft[t], a) /\ Live(issued[t], a)

Redeemable(t, a) == t \notin redeemed /\ Unexpired(ticketLeft[t], a) /\ Live(issued[t], a)

(* RedeemTicket: update ticket ... where redeemed_at is null and ...         *)
WriteRedemption(c) ==
    /\ stage[c] = "locked" /\ op[c] = "redeem"
    /\ Redeemable(ticket[c], age[c])
    /\ stage' = [stage EXCEPT ![c] = "written"]
    /\ UNCHANGED <<tables, op, about, ticket, age, admissions>>

CommitRedeem(c) ==
    /\ stage[c] = "written"
    /\ redeemed' = redeemed \cup {ticket[c]}
    /\ admissions' = [admissions EXCEPT ![ticket[c]] = @ + 1]
    /\ Finish(c)
    /\ UNCHANGED <<opened, revoked, sessionLeft, issued, ticketLeft>>

(* RevokeSession                                                             *)
Logout(c) ==
    /\ stage[c] = "authed" /\ op[c] = "logout"
    /\ SessionFree(c, about[c])
    /\ revoked' = revoked \cup {about[c]}
    /\ Finish(c)
    /\ UNCHANGED <<opened, sessionLeft, issued, ticketLeft, redeemed, admissions>>

(* A statement finds no row, the deadline passes, the connection is lost:    *)
(* the transaction is rolled back and the handler answers with an error.     *)
Fail(c) ==
    /\ stage[c] # "idle"
    /\ Finish(c)
    /\ UNCHANGED <<tables, admissions>>

(* Nothing tells rows apart that expired longer ago than a transaction lasts. *)
Passed(left) == IF left > -CtxTimeout THEN left - 1 ELSE left

Tick ==
    /\ \A c \in Calls : stage[c] # "idle" => age[c] < CtxTimeout
    /\ age' = [c \in Calls |-> IF stage[c] = "idle" THEN age[c] ELSE age[c] + 1]
    /\ sessionLeft' = [s \in Sessions |-> Passed(sessionLeft[s])]
    /\ ticketLeft' = [t \in Tickets |-> Passed(ticketLeft[t])]
    /\ UNCHANGED <<opened, revoked, issued, redeemed, op, stage, about, ticket, admissions>>

CallStep(c) ==
    \/ \E s \in Sessions, o \in {"issue", "logout"} : Enter(c, s, o)
    \/ \E t \in Tickets : BeginIssue(c, t) \/ BeginRedeem(c, t)
    \/ LockIssuer(c) \/ CommitIssue(c)
    \/ LockBearer(c) \/ WriteRedemption(c) \/ CommitRedeem(c)
    \/ Logout(c) \/ Fail(c)

Next == (\E s \in Sessions : Login(s)) \/ (\E c \in Calls : CallStep(c)) \/ Tick

Spec == Init /\ [][Next]_vars
-----------------------------------------------------------------------------
(* A ticket lets its bearer in at most once, however many redemptions of it  *)
(* run at a time (postgres.go:117-125; integration_test.go:79-102).           *)
AdmittedOnce == \A t \in Tickets : admissions[t] <= 1

(* Once a logout has been answered no ticket of the session admits anybody   *)
(* and none is issued, although both look at the session before they change  *)
(* anything; a ticket admits once and never changes hands: TicketBook        *)
(* (postgres.go:89-131).                                                      *)
Book == INSTANCE TicketBook WITH
    open <- opened \ revoked, closed <- revoked, bearer <- issued, used <- redeemed

ImplementsTicketBook == Book!Spec

(* A ticket admits at most the length of a transaction after it, or its      *)
(* session, has expired: now() is older than the commit (postgres.go:120).   *)
AdmissionsAreTimely ==
    [][\A t \in Tickets : admissions'[t] # admissions[t] =>
          ticketLeft[t] > -CtxTimeout /\ sessionLeft[issued[t]] > -CtxTimeout]_vars
-----------------------------------------------------------------------------
(* The inductive invariant.                                                  *)

(* Locks exclude each other.                                                 *)
LocksExclude ==
    \A c, d \in Calls : c # d /\ Locks(c) /\ Locks(d) => about[c] # about[d]

(* A call has what its stage needs, and what it has checked still holds.     *)
CallsWellFormed ==
    \A c \in Calls :
        /\ stage[c] = "authed" => about[c] \in opened
        /\ stage[c] \in {"idle", "authed"} => ticket[c] = NoTicket
        /\ stage[c] \in {"begun", "locked", "written"} => ticket[c] \in Tickets
        /\ stage[c] = "begun" /\ op[c] = "issue" => about[c] \in opened
        /\ stage[c] = "locked" /\ op[c] = "issue" => about[c] \in opened \ revoked
        /\ stage[c] = "locked" /\ op[c] = "redeem" => about[c] = issued[ticket[c]] /\ about[c] \in opened
        /\ stage[c] = "written" =>
              /\ op[c] = "redeem"
              /\ about[c] = issued[ticket[c]] /\ about[c] \in opened \ revoked
              /\ ticket[c] \notin redeemed
              /\ Unexpired(ticketLeft[ticket[c]], age[c])
              /\ Unexpired(sessionLeft[about[c]], age[c])
        /\ op[c] = "logout" => stage[c] = "authed"

(* The token of a ticket being issued is in nobody else's transaction.       *)
TokensAreFresh ==
    \A c \in Calls : op[c] = "issue" /\ ticket[c] # NoTicket =>
        /\ issued[ticket[c]] = NoSession
        /\ \A d \in Calls \ {c} : op[d] = "issue" => ticket[d] # ticket[c]

RowsAgree ==
    \A t \in Tickets :
        /\ issued[t] # NoSession => issued[t] \in opened
        /\ admissions[t] = IF t \in redeemed THEN 1 ELSE 0

TicketInv == TypeOK /\ LocksExclude /\ CallsWellFormed /\ TokensAreFresh /\ RowsAgree
=============================================================================
