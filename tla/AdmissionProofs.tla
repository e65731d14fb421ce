-------------------------- MODULE AdmissionProofs --------------------------
(* Proofs about Tickets and about Admission, for every number of players,     *)
(* rooms, sessions, tickets, calls and fencing tokens.                        *)
(*                                                                           *)
(* Tickets.  TicketInv is inductive: what a transaction has checked under the *)
(* lock of its session's row holds until it commits, because whatever could   *)
(* change it, a logout or another redemption, waits for the lock.             *)
(*                                                                           *)
(* Admission.  Every step of the composition is a step of Tickets or leaves   *)
(* its tables alone, so what is shown of tickets holds here.  Of the rooms,   *)
(* AdmissionInv is inductive: a lease passes on only when it has lapsed, a     *)
(* release takes the lease of its own stay only, and a second entry of a       *)
(* player in a room is one that came in over the first.                       *)
EXTENDS Admission, TLAPS

USE DEF Locks

(* The calls other than c are what they were.                                *)
OthersUnchanged(c) ==
    \A d \in Calls \ {c} :
        /\ stage'[d] = stage[d] /\ op'[d] = op[d] /\ about'[d] = about[d]
        /\ ticket'[d] = ticket[d] /\ age'[d] = age[d]

(* What CallsWellFormed says of one call.                                    *)
WellFormed(c) ==
    /\ stage[c] = "authed" => about[c] \in opened
    /\ stage[c] \in {"idle", "authed"} => ticket[c] = NoTicket
    /\ stage[c] \in {"begun", "locked", "written"} => ticket[c] \in Tickets
    /\ stage[c] = "begun" /\ op[c] = "issue" => about[c] \in opened
    /\ stage[c] = "locked" /\ op[c] = "issue" => about[c] \in opened \ revoked
    /\ stage[c] = "locked" /\ op[c] = "redeem" => about[c] = issued[ticket[c]] /\ about[c] \in opened
    /\ stage[c] = "written" =>
          /\ op[c] = "redeem"
          /\ about[c] = issued[ticket[c]] /\ about[c] \in opened \ revoked
          /\ ticket[c] \notin redeemed
          /\ Unexpired(ticketLeft[ticket[c]], age[c])
          /\ Unexpired(sessionLeft[about[c]], age[c])
    /\ op[c] = "logout" => stage[c] = "authed"

LEMMA WellFormedCalls == CallsWellFormed <=> \A c \in Calls : WellFormed(c)
BY DEF CallsWellFormed, WellFormed

(* The empty tables satisfy the invariant.                                   *)
LEMMA InitInv == Init => TicketInv
<1> SUFFICES ASSUME Init PROVE TicketInv
    OBVIOUS
<1>1. TypeOK
    BY TicketAssumption DEF Init, TypeOK
<1>2. LocksExclude /\ CallsWellFormed
    BY DEF Init, LocksExclude, CallsWellFormed
<1>3. TokensAreFresh /\ RowsAgree
    BY DEF Init, TokensAreFresh, RowsAgree
<1> QED
    BY <1>1, <1>2, <1>3 DEF TicketInv

(* A call that ends is idle and holds nothing.                               *)
LEMMA FinishedCall ==
    ASSUME TypeOK, NEW c \in Calls, Finish(c)
    PROVE  /\ stage'[c] = "idle" /\ op'[c] = "redeem" /\ ticket'[c] = NoTicket
           /\ OthersUnchanged(c)
           /\ stage' \in [Calls -> {"idle", "authed", "begun", "locked", "written"}]
           /\ op' \in [Calls -> {"issue", "logout", "redeem"}]
           /\ about' \in [Calls -> Sessions \cup {NoSession}]
           /\ ticket' \in [Calls -> Tickets \cup {NoTicket}]
           /\ age' \in [Calls -> 0..CtxTimeout]
BY TicketAssumption DEF TypeOK, Finish, OthersUnchanged

(* A step of call c that leaves the tables alone.                            *)
LEMMA CallMoves ==
    ASSUME TicketInv, TypeOK', NEW c \in Calls, OthersUnchanged(c),
           UNCHANGED <<tables, admissions>>,
           WellFormed(c)',
           Locks(c)' => \/ Locks(c) /\ about'[c] = about[c]
                        \/ SessionFree(c, about'[c]),
           op'[c] = "issue" /\ ticket'[c] # NoTicket =>
             \/ op[c] = "issue" /\ ticket'[c] = ticket[c]
             \/ Fresh(ticket'[c])
    PROVE  TicketInv'
<1> USE DEF TicketInv
<1>1. CallsWellFormed'
    <2>1. \A d \in Calls \ {c} : WellFormed(d)'
        BY WellFormedCalls DEF OthersUnchanged, WellFormed, tables
    <2> QED
        BY <2>1 DEF CallsWellFormed, WellFormed
<1>2. LocksExclude'
    BY DEF LocksExclude, OthersUnchanged, SessionFree
<1>3. TokensAreFresh'
    BY DEF TokensAreFresh, OthersUnchanged, Fresh, tables
<1>4. RowsAgree'
    BY DEF RowsAgree, tables
<1> QED
    BY <1>1, <1>2, <1>3, <1>4

(* A login adds a session that nobody knows yet.                             *)
LEMMA LoginStep ==
    ASSUME TicketInv, NEW s \in Sessions, Login(s)
    PROVE  TicketInv'
<1> USE TicketAssumption DEF TicketInv, Login, calls
<1>1. TypeOK'
    BY DEF TypeOK
<1>2. \A c \in Calls : WellFormed(c)'
    BY WellFormedCalls DEF TypeOK, WellFormed
<1>3. CallsWellFormed'
    BY <1>2 DEF CallsWellFormed, WellFormed
<1>4. LocksExclude' /\ TokensAreFresh' /\ RowsAgree'
    BY DEF LocksExclude, TokensAreFresh, RowsAgree
<1> QED
    BY <1>1, <1>3, <1>4

(* A step of a call that is not a commit.                                    *)
LEMMA MoveStep ==
    ASSUME TicketInv, NEW c \in Calls,
           \/ \E s \in Sessions, o \in {"issue", "logout"} : Enter(c, s, o)
           \/ \E t \in Tickets : BeginIssue(c, t) \/ BeginRedeem(c, t)
           \/ LockIssuer(c) \/ LockBearer(c) \/ WriteRedemption(c) \/ Fail(c)
    PROVE  TicketInv'
<1> USE TicketAssumption
<1>0. TypeOK /\ WellFormed(c)
    BY WellFormedCalls DEF TicketInv
<1>1. ASSUME NEW s \in Sessions, NEW o \in {"issue", "logout"}, Enter(c, s, o)
      PROVE  TicketInv'
    <2>1. TypeOK' /\ OthersUnchanged(c)
        BY <1>0, <1>1 DEF TypeOK, Enter, tables, OthersUnchanged
    <2>2. WellFormed(c)'
        BY <1>0, <1>1 DEF TypeOK, Enter, tables, WellFormed, Live
    <2>3. ticket'[c] = NoTicket
        BY <1>0, <1>1 DEF Enter, WellFormed
    <2>4. UNCHANGED <<tables, admissions>> /\ stage'[c] = "authed"
        BY <1>0, <1>1 DEF Enter, TypeOK
    <2> QED
        BY <2>1, <2>2, <2>3, <2>4, CallMoves
<1>2. ASSUME NEW t \in Tickets, BeginIssue(c, t)
      PROVE  TicketInv'
    <2>1. TypeOK' /\ OthersUnchanged(c)
        BY <1>0, <1>2 DEF TypeOK, BeginIssue, tables, OthersUnchanged
    <2>2. WellFormed(c)'
        BY <1>0, <1>2 DEF TypeOK, BeginIssue, tables, WellFormed
    <2> QED
        BY <1>0, <1>2, <2>1, <2>2, CallMoves DEF BeginIssue, TypeOK
<1>3. ASSUME NEW t \in Tickets, BeginRedeem(c, t)
      PROVE  TicketInv'
    <2>1. TypeOK' /\ OthersUnchanged(c)
        BY <1>0, <1>3 DEF TypeOK, BeginRedeem, tables, OthersUnchanged
    <2>2. WellFormed(c)'
        BY <1>0, <1>3 DEF TypeOK, BeginRedeem, tables, WellFormed
    <2> QED
        BY <1>0, <1>3, <2>1, <2>2, CallMoves DEF BeginRedeem, TypeOK
<1>4. CASE LockIssuer(c)
    <2>1. TypeOK' /\ OthersUnchanged(c)
        BY <1>0, <1>4 DEF TypeOK, LockIssuer, tables, OthersUnchanged
    <2>2. WellFormed(c)'
        BY <1>0, <1>4 DEF TypeOK, LockIssuer, tables, WellFormed, Live
    <2> QED
        BY <1>0, <1>4, <2>1, <2>2, CallMoves DEF LockIssuer, TypeOK
<1>5. CASE LockBearer(c)
    <2>1. TypeOK' /\ OthersUnchanged(c)
        BY <1>0, <1>5 DEF TypeOK, LockBearer, tables, OthersUnchanged, WellFormed
    <2>2. WellFormed(c)'
        BY <1>0, <1>5 DEF TypeOK, LockBearer, tables, WellFormed, TicketInv, RowsAgree
    <2> QED
        BY <1>0, <1>5, <2>1, <2>2, CallMoves DEF LockBearer, TypeOK
<1>6. CASE WriteRedemption(c)
    <2>1. TypeOK' /\ OthersUnchanged(c)
        BY <1>0, <1>6 DEF TypeOK, WriteRedemption, tables, OthersUnchanged
    <2>2. WellFormed(c)'
        BY <1>0, <1>6 DEF TypeOK, WriteRedemption, tables, WellFormed, Redeemable, Live
    <2> QED
        BY <1>0, <1>6, <2>1, <2>2, CallMoves DEF WriteRedemption, TypeOK
<1>7. CASE Fail(c)
    <2>1. TypeOK'
        BY <1>0, <1>7, FinishedCall DEF Fail, tables, TypeOK
    <2>2. WellFormed(c)'
        BY <1>0, <1>7, FinishedCall DEF Fail, WellFormed
    <2> QED
        BY <1>0, <1>7, <2>1, <2>2, FinishedCall, CallMoves DEF Fail
<1> QED
    BY <1>1, <1>2, <1>3, <1>4, <1>5, <1>6, <1>7

(* IssueTicket commits: the session is open and the token is fresh.          *)
LEMMA CommitIssueStep ==
    ASSUME TicketInv, NEW c \in Calls, CommitIssue(c)
    PROVE  TicketInv'
<1> USE TicketAssumption
<1>0. TypeOK /\ WellFormed(c)
    BY WellFormedCalls DEF TicketInv
<1>1. /\ ticket[c] \in Tickets /\ about[c] \in opened \ revoked /\ issued[ticket[c]] = NoSession
    BY <1>0 DEF TicketInv, CommitIssue, WellFormed, TokensAreFresh
<1>2. TypeOK'
    BY <1>0, <1>1, FinishedCall DEF CommitIssue, TypeOK
<1>3. CallsWellFormed'
    <2>1. ASSUME NEW d \in Calls \ {c} PROVE WellFormed(d)'
        <3>1. OthersUnchanged(c) /\ UNCHANGED <<opened, revoked, sessionLeft, redeemed>>
            BY <1>0, FinishedCall DEF CommitIssue
        <3>2. WellFormed(d)
            BY WellFormedCalls DEF TicketInv
        <3>3. ASSUME (stage[d] = "locked" /\ op[d] = "redeem") \/ stage[d] = "written"
              PROVE  /\ issued'[ticket[d]] = issued[ticket[d]]
                     /\ ticketLeft'[ticket[d]] = ticketLeft[ticket[d]]
            BY <1>0, <1>1, <3>2, <3>3 DEF WellFormed, CommitIssue, TypeOK
        <3> QED
            BY <3>1, <3>2, <3>3 DEF OthersUnchanged, WellFormed, Unexpired
    <2>2. WellFormed(c)'
        BY <1>0, FinishedCall DEF CommitIssue, WellFormed
    <2> QED
        BY <2>1, <2>2 DEF CallsWellFormed, WellFormed
<1>4. LocksExclude'
    BY <1>0, FinishedCall DEF TicketInv, LocksExclude, CommitIssue, OthersUnchanged
<1>5. TokensAreFresh'
    BY <1>0, <1>1, FinishedCall DEF TicketInv, TokensAreFresh, CommitIssue, OthersUnchanged, TypeOK
<1>6. RowsAgree'
    BY <1>0, <1>1 DEF TicketInv, RowsAgree, CommitIssue, TypeOK
<1> QED
    BY <1>2, <1>3, <1>4, <1>5, <1>6 DEF TicketInv

(* RedeemTicket commits: no other transaction has written the same ticket.   *)
LEMMA CommitRedeemStep ==
    ASSUME TicketInv, NEW c \in Calls, CommitRedeem(c)
    PROVE  TicketInv'
<1> USE TicketAssumption
<1>0. TypeOK /\ WellFormed(c)
    BY WellFormedCalls DEF TicketInv
<1>1. /\ ticket[c] \in Tickets /\ about[c] = issued[ticket[c]]
      /\ ticket[c] \notin redeemed /\ issued[ticket[c]] # NoSession
    BY <1>0 DEF CommitRedeem, WellFormed, TypeOK
<1>2. TypeOK'
    BY <1>0, <1>1, FinishedCall DEF CommitRedeem, TypeOK
<1>3. CallsWellFormed'
    <2>1. ASSUME NEW d \in Calls \ {c} PROVE WellFormed(d)'
        BY <1>0, <1>1, FinishedCall, WellFormedCalls
           DEF CommitRedeem, OthersUnchanged, WellFormed, TicketInv, LocksExclude
    <2>2. WellFormed(c)'
        BY <1>0, FinishedCall DEF CommitRedeem, WellFormed
    <2> QED
        BY <2>1, <2>2 DEF CallsWellFormed, WellFormed
<1>4. LocksExclude'
    BY <1>0, FinishedCall DEF TicketInv, LocksExclude, CommitRedeem, OthersUnchanged
<1>5. TokensAreFresh'
    BY <1>0, FinishedCall DEF TicketInv, TokensAreFresh, CommitRedeem, OthersUnchanged
<1>6. RowsAgree'
    BY <1>0, <1>1 DEF TicketInv, RowsAgree, CommitRedeem, TypeOK
<1> QED
    BY <1>2, <1>3, <1>4, <1>5, <1>6 DEF TicketInv

(* A logout waits for the transactions that rely on the session.             *)
LEMMA LogoutStep ==
    ASSUME TicketInv, NEW c \in Calls, Logout(c)
    PROVE  TicketInv'
<1> USE TicketAssumption
<1>0. TypeOK /\ WellFormed(c)
    BY WellFormedCalls DEF TicketInv
<1>1. about[c] \in opened
    BY <1>0 DEF Logout, WellFormed
<1>2. TypeOK'
    BY <1>0, <1>1, FinishedCall DEF Logout, TypeOK
<1>3. CallsWellFormed'
    <2>1. ASSUME NEW d \in Calls \ {c} PROVE WellFormed(d)'
        BY <1>0, FinishedCall, WellFormedCalls
           DEF Logout, OthersUnchanged, WellFormed, TicketInv, SessionFree
    <2>2. WellFormed(c)'
        BY <1>0, FinishedCall DEF Logout, WellFormed
    <2> QED
        BY <2>1, <2>2 DEF CallsWellFormed, WellFormed
<1>4. LocksExclude'
    BY <1>0, FinishedCall DEF TicketInv, LocksExclude, Logout, OthersUnchanged
<1>5. TokensAreFresh' /\ RowsAgree'
    BY <1>0, FinishedCall DEF TicketInv, TokensAreFresh, RowsAgree, Logout, OthersUnchanged
<1> QED
    BY <1>2, <1>3, <1>4, <1>5 DEF TicketInv

(* Time: a transaction that found a row unexpired still finds it so.         *)
LEMMA TickStep ==
    ASSUME TicketInv, Tick
    PROVE  TicketInv'
<1> USE TicketAssumption
<1>0. TypeOK
    BY DEF TicketInv
<1>1. \A left \in Int, a \in 0..CtxTimeout :
         Unexpired(left, a) => Unexpired(Passed(left), a + 1)
    BY DEF Unexpired, Passed
<1>2. TypeOK'
    BY <1>0 DEF TypeOK, Tick, Passed
<1>3. CallsWellFormed'
    <2> SUFFICES ASSUME NEW d \in Calls PROVE WellFormed(d)'
        BY DEF CallsWellFormed, WellFormed
    <2>1. WellFormed(d)
        BY WellFormedCalls DEF TicketInv
    <2>2. CASE stage[d] # "written"
        BY <2>1, <2>2 DEF Tick, WellFormed
    <2>3. CASE stage[d] = "written"
        <3>1. /\ issued[ticket[d]] = about[d] /\ about[d] \in Sessions /\ ticket[d] \in Tickets
              /\ age[d] \in 0..CtxTimeout
              /\ ticketLeft[ticket[d]] \in Int /\ sessionLeft[about[d]] \in Int
            BY <1>0, <2>1, <2>3 DEF TypeOK, WellFormed
        <3>2. /\ age'[d] = age[d] + 1
              /\ ticketLeft'[ticket[d]] = Passed(ticketLeft[ticket[d]])
              /\ sessionLeft'[about[d]] = Passed(sessionLeft[about[d]])
            BY <2>3, <3>1 DEF Tick
        <3>3. /\ Unexpired(ticketLeft'[ticket[d]], age'[d])
              /\ Unexpired(sessionLeft'[about[d]], age'[d])
            BY <1>1, <2>1, <2>3, <3>1, <3>2 DEF WellFormed
        <3> QED
            BY <2>1, <2>3, <3>3 DEF Tick, WellFormed
    <2> QED
        BY <2>2, <2>3
<1>4. LocksExclude' /\ TokensAreFresh' /\ RowsAgree'
    BY DEF TicketInv, LocksExclude, TokensAreFresh, RowsAgree, Tick
<1> QED
    BY <1>2, <1>3, <1>4 DEF TicketInv

(* Nothing changes.                                                          *)
LEMMA StutterStep ==
    ASSUME TicketInv, UNCHANGED vars
    PROVE  TicketInv'
BY DEF TicketInv, TypeOK, LocksExclude, CallsWellFormed, TokensAreFresh, RowsAgree,
       Unexpired, vars, tables, calls

LEMMA StepInv == TicketInv /\ [Next]_vars => TicketInv'
<1> SUFFICES ASSUME TicketInv, [Next]_vars PROVE TicketInv'
    OBVIOUS
<1>1. ASSUME NEW s \in Sessions, Login(s) PROVE TicketInv'
    BY <1>1, LoginStep
<1>2. ASSUME NEW c \in Calls, CallStep(c) PROVE TicketInv'
    BY <1>2, MoveStep, CommitIssueStep, CommitRedeemStep, LogoutStep DEF CallStep
<1>3. CASE Tick
    BY <1>3, TickStep
<1>4. CASE UNCHANGED vars
    BY <1>4, StutterStep
<1> QED
    BY <1>1, <1>2, <1>3, <1>4 DEF Next

-----------------------------------------------------------------------------
(* The inductive invariant: sessions lock their transactions out of each     *)
(* other, and what a transaction has checked holds until it commits.         *)
THEOREM TicketsSafe == Spec => []TicketInv
<1>1. Init => TicketInv
    BY InitInv
<1>2. TicketInv /\ [Next]_vars => TicketInv'
    BY StepInv
<1> QED
    BY <1>1, <1>2, PTL DEF Spec

(* A ticket lets its bearer in at most once.                                 *)
THEOREM TicketsAdmitOnce == Spec => []AdmittedOnce
<1>1. TicketInv => AdmittedOnce
    BY DEF TicketInv, RowsAgree, AdmittedOnce
<1> QED
    BY <1>1, TicketsSafe, PTL

(* A ticket is not redeemed later than a transaction lasts after it expires. *)
THEOREM TimelyAdmissions == Spec => AdmissionsAreTimely
<1> DEFINE Timely == \A t \in Tickets : admissions'[t] # admissions[t] =>
                       ticketLeft[t] > -CtxTimeout /\ sessionLeft[issued[t]] > -CtxTimeout
<1>1. TicketInv /\ [Next]_vars => [Timely]_vars
    <2> SUFFICES ASSUME TicketInv, Next, NEW t \in Tickets, admissions'[t] # admissions[t]
                 PROVE  ticketLeft[t] > -CtxTimeout /\ sessionLeft[issued[t]] > -CtxTimeout
        BY DEF vars
    <2> USE TicketAssumption
    <2>1. PICK c \in Calls : CommitRedeem(c)
        BY DEF Next, CallStep, Login, Enter, BeginIssue, BeginRedeem, LockIssuer, CommitIssue,
               LockBearer, WriteRedemption, Logout, Fail, Tick
    <2>2. TypeOK /\ WellFormed(c)
        BY WellFormedCalls DEF TicketInv
    <2>3. t = ticket[c]
        BY <2>1, <2>2 DEF CommitRedeem, TypeOK, WellFormed
    <2>4. /\ Unexpired(ticketLeft[t], age[c]) /\ Unexpired(sessionLeft[issued[t]], age[c])
          /\ age[c] \in 0..CtxTimeout /\ ticketLeft[t] \in Int /\ sessionLeft[issued[t]] \in Int
        BY <2>1, <2>2, <2>3 DEF CommitRedeem, TypeOK, WellFormed
    <2> QED
        BY <2>4 DEF Unexpired
<1> QED
    BY <1>1, TicketsSafe, PTL DEF Spec, AdmissionsAreTimely

(* The Backend keeps the ticket book: tickets are issued and admitted only   *)
(* for sessions that are open when the change becomes visible.               *)
THEOREM TicketsImplementTicketBook == Spec => ImplementsTicketBook
<1>1. Init => Book!Init
    BY DEF Init, Book!Init
<1>2. TicketInv /\ [Next]_vars => [Book!Next]_(Book!book)
    <2> SUFFICES ASSUME TicketInv, [Next]_vars PROVE [Book!Next]_(Book!book)
        OBVIOUS
    <2> USE TicketAssumption DEF Book!book
    <2>0. TypeOK
        BY DEF TicketInv
    <2>1. ASSUME NEW s \in Sessions, Login(s) PROVE Book!Open(s)
        BY <2>0, <2>1 DEF Login, Book!Open, TypeOK
    <2>2. ASSUME NEW c \in Calls, CallStep(c) PROVE [Book!Next]_(Book!book)
        <3>0. WellFormed(c)
            BY WellFormedCalls DEF TicketInv
        <3>1. CASE CommitIssue(c)
            <4>1. /\ ticket[c] \in Tickets /\ about[c] \in opened \ revoked
                  /\ issued[ticket[c]] = NoSession
                BY <3>0, <3>1 DEF TicketInv, CommitIssue, WellFormed, TokensAreFresh
            <4>2. Book!Issue(ticket[c], about[c])
                BY <3>1, <4>1 DEF CommitIssue, Book!Issue
            <4> QED
                BY <2>0, <4>1, <4>2 DEF Book!Next, TypeOK
        <3>2. CASE CommitRedeem(c)
            <4>1. /\ ticket[c] \in Tickets /\ ticket[c] \notin redeemed
                  /\ issued[ticket[c]] \in opened \ revoked
                BY <3>0, <3>2 DEF CommitRedeem, WellFormed
            <4>2. Book!Admit(ticket[c])
                BY <3>2, <4>1 DEF CommitRedeem, Book!Admit
            <4> QED
                BY <4>1, <4>2 DEF Book!Next
        <3>3. CASE Logout(c)
            <4>1. about[c] \in Sessions
                BY <2>0, <3>0, <3>3 DEF Logout, WellFormed, TypeOK
            <4>2. Book!Close(about[c])
                BY <3>3 DEF Logout, Book!Close
            <4> QED
                BY <4>1, <4>2 DEF Book!Next
        <3>4. CASE UNCHANGED tables
            BY <3>4 DEF tables
        <3> QED
            BY <2>2, <3>1, <3>2, <3>3, <3>4
               DEF CallStep, Enter, BeginIssue, BeginRedeem, LockIssuer, LockBearer, WriteRedemption, Fail
    <2>3. CASE Tick
        BY <2>3 DEF Tick
    <2>4. CASE UNCHANGED vars
        BY <2>4 DEF vars, tables
    <2> QED
        BY <2>1, <2>2, <2>3, <2>4 DEF Next, Book!Next
<1> QED
    BY <1>1, <1>2, TicketsSafe, PTL DEF Spec, ImplementsTicketBook, Book!Spec
-----------------------------------------------------------------------------

(* What the invariants of the rooms speak of.                                *)
stays == <<lease, present, grace, vacating, lapsed, overtaken>>

(* A step of a player's session or of a handler is a step of Tickets.         *)
LEMMA StepIsTickets == [AdmissionNext]_all => [Next]_vars
<1> SUFFICES ASSUME [AdmissionNext]_all PROVE [Next]_vars
    OBVIOUS
<1>1. CASE SessionStep
    BY <1>1 DEF SessionStep, Alone, Next, CallStep
<1>2. ASSUME NEW c \in Calls, HandlerStep(c) PROVE [Next]_vars
    BY <1>2 DEF HandlerStep, AllocateRoom, Issue, GiveUp, Redeem, Accept, Redeemed, Next, CallStep
<1>3. CASE RoomStep
    BY <1>3 DEF RoomStep, Acquire, Refuse, ReleaseSeat, Leave, Return, GraceEnds, Crash
<1>4. CASE \E p \in Players : Lapse(p) \/ \E r \in Rooms : Compensate(r, p)
    BY <1>4 DEF Lapse, Compensate
<1>5. CASE UNCHANGED all
    BY <1>5 DEF all
<1> QED
    BY <1>1, <1>2, <1>3, <1>4, <1>5 DEF AdmissionNext

(* The composition behaves as Tickets: what is proved of tickets is true of it. *)
THEOREM AdmissionIsTickets == AdmissionSpec => Spec
<1>1. AdmissionInit => Init
    BY DEF AdmissionInit
<1> QED
    BY <1>1, StepIsTickets, PTL DEF AdmissionSpec, Spec

(* Nobody has come in yet.                                                   *)
LEMMA AdmissionStart == AdmissionInit => AdmissionInv
<1> SUFFICES ASSUME AdmissionInit PROVE AdmissionInv
    OBVIOUS
<1>1. AdmissionTypeOK
    BY AdmissionAssumption DEF AdmissionInit, Init, AdmissionTypeOK, NoGoal, NoLease
<1> QED
    BY <1>1 DEF AdmissionInit, AdmissionInv, StaysHoldLeases, StaysAreApart

(* The player of a call that issues, and of one that has redeemed.            *)
LEMMA CallersArePlayers ==
    ASSUME TicketInv, NEW c \in Calls
    PROVE  /\ op[c] = "issue" /\ stage[c] # "idle" => Caller(c) \in Players
           /\ stage[c] = "written" => ticket[c] \in Tickets /\ Owner[issued[ticket[c]]] \in Players
<1>1. TypeOK /\ WellFormed(c)
    BY WellFormedCalls DEF TicketInv
<1>2. op[c] = "issue" /\ stage[c] # "idle" => stage[c] \in {"authed", "begun", "locked"}
    BY <1>1 DEF TypeOK, WellFormed
<1> QED
    BY <1>1, <1>2, AdmissionAssumption DEF TypeOK, WellFormed, Caller

(* A call that is as far as its commit was there before, or has just written. *)
LEMMA WrittenBefore ==
    ASSUME TicketInv, AdmissionTypeOK, [AdmissionNext]_all, NEW d \in Calls, stage'[d] = "written"
    PROVE  \/ stage[d] = "written" /\ place'[d] = place[d]
           \/ Accept(d)
<1> USE DEF TypeOK
<1>0. TypeOK /\ place \in [Calls -> Rooms \cup {NoRoom}]
    BY DEF TicketInv, AdmissionTypeOK
<1>1. CASE SessionStep
    BY <1>0, <1>1 DEF SessionStep, Alone, world, Login, Enter, BeginIssue, LockIssuer, LockBearer,
                      Logout, Finish, Tick, calls
<1>2. ASSUME NEW c \in Calls, HandlerStep(c), c # d
      PROVE  stage'[d] = stage[d] /\ place'[d] = place[d]
    <2>1. CASE (\E r \in Rooms : AllocateRoom(c, r)) \/ Accept(c)
        BY <1>0, <1>2, <2>1 DEF AllocateRoom, Accept, WriteRedemption, world, vars, calls
    <2>2. CASE (\E m \in Maps : Issue(c, m)) \/ GiveUp(c) \/ Redeemed(c)
        <3>1. Finish(c) /\ Ended(c)
            BY <2>2 DEF Issue, GiveUp, Redeemed, CommitIssue, Fail, CommitRedeem
        <3> QED
            BY <1>0, <1>2, <3>1 DEF Finish, Ended
    <2>3. CASE \E t \in Tickets, r \in Rooms : Redeem(c, t, r)
        BY <1>0, <1>2, <2>3 DEF Redeem, BeginRedeem
    <2> QED
        BY <1>2, <2>1, <2>2, <2>3 DEF HandlerStep
<1>3. CASE HandlerStep(d)
    BY <1>0, <1>3 DEF HandlerStep, AllocateRoom, Issue, GiveUp, Redeem, Redeemed, vars,
                      calls, CommitIssue, CommitRedeem, Fail, BeginRedeem, Finish
<1>4. CASE RoomStep
    BY <1>4 DEF RoomStep, Acquire, Refuse, ReleaseSeat, Leave, Return, GraceEnds, Crash, vars, calls
<1>5. CASE \E p \in Players : Lapse(p) \/ \E r \in Rooms : Compensate(r, p)
    BY <1>5 DEF Lapse, Compensate, vars, calls
<1>6. CASE UNCHANGED all
    BY <1>6 DEF all, vars, calls, world
<1> QED
    BY <1>1, <1>2, <1>3, <1>4, <1>5, <1>6 DEF AdmissionNext

(* What AdmissionTypeOK says of the composition's variables, one at a time.    *)
Typed ==
    /\ seat \in [Players -> Rooms \cup {NoRoom}]
    /\ place \in [Calls -> Rooms \cup {NoRoom}]
    /\ goal \in [Tickets -> [room : Rooms \cup {HomeRoom}, map : Maps] \cup {NoGoal}]
    /\ lease \in [Players -> [room : Rooms \cup {NoRoom}, token : 0..MaxToken, live : BOOLEAN]]
    /\ joining \subseteq Joins
    /\ {vacating, owed, overtaken} \subseteq SUBSET Stays
    /\ {present, grace, lapsed} \subseteq SUBSET Entries

(* The variables keep their types.                                           *)
LEMMA TypesStay ==
    TicketInv /\ AdmissionTypeOK /\ [AdmissionNext]_all => AdmissionTypeOK'
<1> SUFFICES ASSUME TicketInv, AdmissionTypeOK, [AdmissionNext]_all PROVE AdmissionTypeOK'
    OBVIOUS
<1>0. Typed /\ \A c \in Calls : stage[c] = "written" => place[c] \in Rooms
    BY DEF Typed, AdmissionTypeOK
<1>00. ASSUME NEW d \in Calls, stage'[d] = "written" PROVE place'[d] \in Rooms
    <2>1. CASE stage[d] = "written" /\ place'[d] = place[d]
        BY <1>0, <2>1
    <2>2. CASE Accept(d)
        <3>1. ticket[d] \in Tickets /\ Fits(ticket[d], place[d]) /\ place'[d] = place[d]
            BY <2>2, WellFormedCalls DEF TicketInv, Accept, WriteRedemption, WellFormed, world
        <3>2. goal[ticket[d]] # NoGoal
            BY <3>1 DEF Fits, NoGoal
        <3>3. place[d] # NoRoom
            BY <1>0, <3>1, <3>2, AdmissionAssumption DEF Fits, Typed
        <3> QED
            BY <1>0, <3>1, <3>3 DEF Typed
    <2> QED
        BY <1>00, <2>1, <2>2, WrittenBefore
<1>000. SUFFICES Typed'
    BY <1>00 DEF Typed, AdmissionTypeOK
<1> USE <1>0, AdmissionAssumption DEF Typed
<1>1. CASE SessionStep
    BY <1>1 DEF SessionStep, Alone, world, rooms, ghosts
<1>2. ASSUME NEW c \in Calls, HandlerStep(c) PROVE Typed'
    <2>0. TypeOK
        BY DEF TicketInv
    <2>1. /\ op[c] = "issue" /\ stage[c] # "idle" => Caller(c) \in Players
          /\ stage[c] = "written" => ticket[c] \in Tickets /\ Owner[issued[ticket[c]]] \in Players
        BY CallersArePlayers
    <2>2. ASSUME stage[c] # "idle", MayOwe(c) PROVE owed' \subseteq Stays
        BY <2>1, <2>2 DEF MayOwe, Stays
    <2>3. ASSUME Ended(c) PROVE place' \in [Calls -> Rooms \cup {NoRoom}]
        BY <2>3 DEF Ended
    <2>4. ASSUME NEW r \in Rooms, AllocateRoom(c, r) PROVE Typed'
        BY <2>1, <2>4 DEF AllocateRoom, Seats!Sit, rooms, ghosts
    <2>5. ASSUME NEW m \in Maps, Issue(c, m) PROVE Typed'
        <3>1. stage[c] # "idle" /\ MayOwe(c) /\ Ended(c)
            BY <2>5 DEF Issue, CommitIssue
        <3>2. goal' \in [Tickets -> [room : Rooms \cup {HomeRoom}, map : Maps] \cup {NoGoal}]
            BY <2>5 DEF Issue
        <3> QED
            BY <2>2, <2>3, <2>5, <3>1, <3>2 DEF Issue, rooms, ghosts
    <2>6. CASE GiveUp(c)
        <3>1. stage[c] # "idle" /\ MayOwe(c) /\ Ended(c)
            BY <2>6 DEF GiveUp, Fail
        <3> QED
            BY <2>2, <2>3, <2>6, <3>1 DEF GiveUp, rooms, ghosts
    <2>7. ASSUME NEW t \in Tickets, NEW r \in Rooms, Redeem(c, t, r) PROVE Typed'
        BY <2>7 DEF Redeem, rooms, ghosts
    <2>8. CASE Accept(c)
        BY <2>8 DEF Accept, world, rooms, ghosts
    <2>9. CASE Redeemed(c)
        <3>1. stage[c] = "written" /\ Ended(c) /\ place[c] \in Rooms
            BY <2>9 DEF Redeemed, CommitRedeem
        <3> QED
            BY <2>1, <2>3, <2>9, <3>1 DEF Redeemed, Joins, ghosts
    <2> QED
        BY <1>2, <2>4, <2>5, <2>6, <2>7, <2>8, <2>9 DEF HandlerStep
<1>3. CASE RoomStep
    <2>1. ASSUME NEW r \in Rooms, NEW p \in Players, Acquire(r, p) PROVE Typed'
        <3>1. lease[p].token + 1 \in 1..MaxToken
            BY <2>1 DEF Acquire, Acquirable
        <3>2. lease' \in [Players -> [room : Rooms \cup {NoRoom}, token : 0..MaxToken, live : BOOLEAN]]
            BY <2>1, <3>1 DEF Acquire
        <3>3. present' \subseteq Entries /\ overtaken' \subseteq Stays
            BY <2>1, <3>1 DEF Acquire, Entries, Stays
        <3> QED
            BY <2>1, <3>2, <3>3 DEF Acquire, Resumes
    <2>2. ASSUME NEW r \in Rooms, NEW p \in Players, Refuse(r, p) \/ ReleaseSeat(r, p) PROVE Typed'
        BY <2>2 DEF Refuse, Resumes, ReleaseSeat, Vacate, Seats!Leave, ghosts
    <2>3. ASSUME NEW e \in Entries, Leave(e) \/ Return(e) PROVE Typed'
        BY <2>3 DEF Leave, Return, KeepLapsed, ghosts
    <2>4. ASSUME NEW e \in Entries, GraceEnds(e) PROVE Typed'
        <3>1. e[1] \in Rooms /\ e[2] \in Players
            BY DEF Entries
        <3>2. lease' \in [Players -> [room : Rooms \cup {NoRoom}, token : 0..MaxToken, live : BOOLEAN]]
            <4>1. NoLease \in [room : Rooms \cup {NoRoom}, token : 0..MaxToken, live : BOOLEAN]
                BY DEF NoLease
            <4> QED
                BY <2>4, <3>1, <4>1 DEF GraceEnds
        <3> QED
            BY <2>4, <3>1, <3>2 DEF GraceEnds, KeepLapsed, Stays
    <2>5. ASSUME NEW r \in Rooms, Crash(r) PROVE Typed'
        BY <2>5 DEF Crash, KeepLapsed
    <2> QED
        BY <1>3, <2>1, <2>2, <2>3, <2>4, <2>5 DEF RoomStep
<1>4. ASSUME NEW p \in Players, Lapse(p) PROVE Typed'
    BY <1>4 DEF Lapse, rooms
<1>5. ASSUME NEW p \in Players, NEW r \in Rooms, Compensate(r, p) PROVE Typed'
    BY <1>5 DEF Compensate, Vacate, Seats!Leave, rooms, ghosts
<1>6. CASE UNCHANGED all
    BY <1>6 DEF all, world, rooms, ghosts
<1> QED
    BY <1>1, <1>2, <1>3, <1>4, <1>5, <1>6 DEF AdmissionNext

(* What the invariant says of the stays, and what it needs of the types.      *)
StaysInv ==
    /\ lapsed \subseteq present \cup grace
    /\ present \cap grace \subseteq lapsed
    /\ StaysHoldLeases /\ StaysAreApart

(* An entry is its room, its player and its token.                            *)
LEMMA EntryParts ==
    ASSUME NEW e \in Entries
    PROVE  e[1] \in Rooms /\ e[2] \in Players /\ e[3] \in 1..MaxToken /\ e = <<e[1], e[2], e[3]>>
BY DEF Entries

(* Sessions, tickets and seats do not touch the stays.                        *)
LEMMA StaysUntouched == StaysInv /\ UNCHANGED stays => StaysInv'
BY DEF StaysInv, stays, StaysHoldLeases, StaysAreApart, Holds

(* A lease that is acquired had lapsed, with every entry of the player.       *)
LEMMA AcquireStep ==
    ASSUME Typed, StaysInv, NEW r \in Rooms, NEW p \in Players, Acquire(r, p)
    PROVE  StaysInv'
<1> DEFINE new == <<r, p, lease[p].token + 1>>
<1> USE DEF Typed
<1>0. /\ \A e \in present \cup grace : e \in Entries
      /\ lease[p].token \in Nat
    OBVIOUS
<1>1. /\ \A q \in Players : q # p => lease'[q] = lease[q]
      /\ lease'[p] = [room |-> r, token |-> lease[p].token + 1, live |-> TRUE]
    BY DEF Acquire
<1>2. \A e \in present \cup grace : e[2] = p => e \in lapsed
    BY DEF Acquire, Acquirable, StaysInv, StaysHoldLeases
<1>3. /\ lapsed' = lapsed /\ grace' = grace /\ vacating' = vacating
      /\ present' = present \/ present' = present \cup {new}
    BY DEF Acquire
<1>4. lapsed' \subseteq present' \cup grace' /\ present' \cap grace' \subseteq lapsed'
    <2>1. new \in grace => new \in lapsed
        BY <1>2
    <2> QED
        BY <1>3, <2>1 DEF StaysInv
<1>5. StaysHoldLeases'
    <2> SUFFICES ASSUME NEW e \in present' \cup grace', e \notin lapsed'
                 PROVE  Holds(e)' /\ lease'[e[2]].live
        BY DEF StaysHoldLeases
    <2>1. CASE e = new
        BY <1>1, <2>1 DEF Holds
    <2>2. CASE e \in present \cup grace
        <3>1. e[2] # p /\ e[2] \in Players
            BY <1>0, <1>2, <1>3, <2>2, EntryParts
        <3>2. Holds(e) /\ lease[e[2]].live
            BY <1>3, <2>2 DEF StaysInv, StaysHoldLeases
        <3> QED
            BY <1>1, <3>1, <3>2 DEF Holds
    <2> QED
        BY <1>3, <2>1, <2>2
<1>6. StaysAreApart'
    <2>1. CASE present' = present /\ overtaken' = overtaken
        BY <1>3, <2>1 DEF StaysInv, StaysAreApart
    <2>2. CASE /\ present' = present \cup {new}
               /\ overtaken' = IF Due(r, p) THEN overtaken \cup {<<r, p>>} ELSE overtaken \ {<<r, p>>}
        <3>1. CASE Due(r, p)
            <4> SUFFICES ASSUME NEW e \in present' \cup grace', <<e[1], e[2]>> \notin overtaken'
                         PROVE  /\ <<e[1], e[2]>> \notin vacating'
                                /\ e \notin present' \cap grace'
                                /\ \A f \in present' \cup grace' : f[1] = e[1] /\ f[2] = e[2] => f = e
                BY DEF StaysAreApart
            <4>1. e[1] # r \/ e[2] # p
                BY <2>2, <3>1
            <4>2. new[1] = r /\ new[2] = p
                OBVIOUS
            <4>3. e \in present \cup grace /\ e # new /\ <<e[1], e[2]>> \notin overtaken
                BY <1>3, <2>2, <3>1, <4>1, <4>2
            <4> QED
                BY <1>3, <2>2, <4>1, <4>2, <4>3 DEF StaysInv, StaysAreApart
        <3>2. CASE ~Due(r, p)
            <4>1. /\ <<r, p>> \notin vacating
                  /\ \A e \in present \cup grace : e[1] # r \/ e[2] # p
                BY <3>2 DEF Due
            <4> SUFFICES ASSUME NEW e \in present' \cup grace', <<e[1], e[2]>> \notin overtaken'
                         PROVE  /\ <<e[1], e[2]>> \notin vacating'
                                /\ e \notin present' \cap grace'
                                /\ \A f \in present' \cup grace' : f[1] = e[1] /\ f[2] = e[2] => f = e
                BY DEF StaysAreApart
            <4>2. new[1] = r /\ new[2] = p
                OBVIOUS
            <4>3. CASE e = new
                BY <1>3, <2>2, <4>1, <4>2, <4>3
            <4>4. CASE e \in present \cup grace
                <5>1. <<e[1], e[2]>> \notin overtaken
                    BY <2>2, <3>2, <4>1, <4>4
                <5> QED
                    BY <1>3, <2>2, <4>1, <4>2, <4>4, <5>1 DEF StaysInv, StaysAreApart
            <4> QED
                BY <1>3, <4>3, <4>4
        <3> QED
            BY <3>1, <3>2
    <2> QED
        BY <2>1, <2>2 DEF Acquire
<1> QED
    BY <1>4, <1>5, <1>6 DEF StaysInv

(* An entry goes from the game to the grace.                                  *)
LEMMA LeaveStep ==
    ASSUME Typed, StaysInv, NEW e \in Entries, Leave(e)
    PROVE  StaysInv'
<1>1. /\ lease' = lease /\ vacating' = vacating /\ overtaken' = overtaken
      /\ present' = present \ {e} /\ grace' \subseteq grace \cup {e}
      /\ lapsed' = lapsed \cap (present' \cup grace')
      /\ e \in present
    BY DEF Leave, KeepLapsed
<1>2. present' \cup grace' \subseteq present \cup grace /\ present' \cap grace' \subseteq present \cap grace
    BY <1>1
<1>3. lapsed' \subseteq present' \cup grace' /\ present' \cap grace' \subseteq lapsed'
    BY <1>1, <1>2 DEF StaysInv
<1>4. StaysHoldLeases'
    BY <1>1, <1>2 DEF StaysInv, StaysHoldLeases, Holds
<1>5. StaysAreApart'
    BY <1>1, <1>2 DEF StaysInv, StaysAreApart
<1> QED
    BY <1>3, <1>4, <1>5 DEF StaysInv

(* ... and back.                                                             *)
LEMMA ReturnStep ==
    ASSUME Typed, StaysInv, NEW e \in Entries, Return(e)
    PROVE  StaysInv'
<1>1. /\ lease' = lease /\ vacating' = vacating /\ overtaken' = overtaken /\ lapsed' = lapsed
      /\ present' = present \cup {e} /\ grace' = grace \ {e}
      /\ e \in grace
    BY DEF Return, ghosts
<1>2. present' \cup grace' = present \cup grace /\ present' \cap grace' \subseteq present \cap grace
    BY <1>1
<1>3. lapsed' \subseteq present' \cup grace' /\ present' \cap grace' \subseteq lapsed'
    BY <1>1, <1>2 DEF StaysInv
<1>4. StaysHoldLeases'
    BY <1>1, <1>2 DEF StaysInv, StaysHoldLeases, Holds
<1>5. StaysAreApart'
    BY <1>1, <1>2 DEF StaysInv, StaysAreApart
<1> QED
    BY <1>3, <1>4, <1>5 DEF StaysInv

(* The lease is released of the stay that ends, and of no other: an entry that *)
(* holds the same lease would be the same entry.                              *)
LEMMA GraceEndsStep ==
    ASSUME Typed, StaysInv, NEW e \in Entries, GraceEnds(e)
    PROVE  StaysInv'
<1> USE DEF Typed
<1>1. /\ present' = present /\ grace' = grace \ {e} /\ overtaken' = overtaken
      /\ vacating' = vacating \cup {<<e[1], e[2]>>}
      /\ lapsed' = lapsed \cap (present' \cup grace')
      /\ e \in grace
    BY DEF GraceEnds, KeepLapsed
<1>2. /\ present' \cup grace' \subseteq present \cup grace
      /\ present' \cap grace' \subseteq present \cap grace
    BY <1>1
<1>3. lapsed' \subseteq present' \cup grace' /\ present' \cap grace' \subseteq lapsed'
    BY <1>1, <1>2 DEF StaysInv
<1>4. StaysHoldLeases'
    <2> SUFFICES ASSUME NEW f \in present' \cup grace', f \notin lapsed'
                 PROVE  Holds(f)' /\ lease'[f[2]].live
        BY DEF StaysHoldLeases
    <2>1. f \notin lapsed /\ f \in present \cup grace /\ f \in Entries
        BY <1>1, <1>2
    <2>2. Holds(f) /\ lease[f[2]].live
        BY <2>1 DEF StaysInv, StaysHoldLeases
    <2>3. f # e
        BY <1>1, <2>1 DEF StaysInv
    <2>4. Holds(e) => e[2] # f[2]
        BY <2>1, <2>2, <2>3, EntryParts DEF Holds
    <2>5. lease'[f[2]] = lease[f[2]]
        BY <2>1, <2>4, EntryParts DEF GraceEnds
    <2> QED
        BY <2>2, <2>5 DEF Holds
<1>5. StaysAreApart'
    <2> SUFFICES ASSUME NEW f \in present' \cup grace', <<f[1], f[2]>> \notin overtaken'
                 PROVE  /\ <<f[1], f[2]>> \notin vacating'
                        /\ f \notin present' \cap grace'
                        /\ \A g \in present' \cup grace' : g[1] = f[1] /\ g[2] = f[2] => g = f
        BY DEF StaysAreApart
    <2>1. f \in present \cup grace /\ <<f[1], f[2]>> \notin overtaken
        BY <1>1, <1>2
    <2>2. /\ <<f[1], f[2]>> \notin vacating /\ f \notin present \cap grace
          /\ \A g \in present \cup grace : g[1] = f[1] /\ g[2] = f[2] => g = f
        BY <2>1 DEF StaysInv, StaysAreApart
    <2>3. f # e
        BY <1>1, <2>2
    <2>4. <<f[1], f[2]>> # <<e[1], e[2]>>
        BY <1>1, <2>2, <2>3
    <2> QED
        BY <1>1, <1>2, <2>2, <2>4
<1> QED
    BY <1>3, <1>4, <1>5 DEF StaysInv

(* A release that has been made is no longer to come.                         *)
LEMMA ReleaseSeatStep ==
    ASSUME StaysInv, NEW r \in Rooms, NEW p \in Players, ReleaseSeat(r, p)
    PROVE  StaysInv'
<1>1. /\ lease' = lease /\ present' = present /\ grace' = grace /\ lapsed' = lapsed
      /\ overtaken' = overtaken /\ vacating' \subseteq vacating
    BY DEF ReleaseSeat, ghosts
<1> QED
    BY <1>1 DEF StaysInv, StaysHoldLeases, StaysAreApart, Holds

(* The entry that held the lease has lapsed with it.                          *)
LEMMA LapseStep ==
    ASSUME Typed, StaysInv, NEW p \in Players, Lapse(p)
    PROVE  StaysInv'
<1> USE DEF Typed
<1>1. /\ present' = present /\ grace' = grace /\ vacating' = vacating /\ overtaken' = overtaken
      /\ lapsed' = lapsed \cup ({<<lease[p].room, p, lease[p].token>>} \cap (present \cup grace))
    BY DEF Lapse, rooms
<1>2. StaysHoldLeases'
    <2> SUFFICES ASSUME NEW e \in present \cup grace, e \notin lapsed'
                 PROVE  Holds(e)' /\ lease'[e[2]].live
        BY <1>1 DEF StaysHoldLeases
    <2>1. e \notin lapsed /\ e \in Entries
        BY <1>1
    <2>2. Holds(e) /\ lease[e[2]].live
        BY <2>1 DEF StaysInv, StaysHoldLeases
    <2>3. e[2] # p
        <3> SUFFICES ASSUME e[2] = p PROVE FALSE
            OBVIOUS
        <3>1. e = <<lease[p].room, p, lease[p].token>>
            BY <2>1, <2>2, EntryParts DEF Holds
        <3> QED
            BY <1>1, <3>1
    <2>4. lease'[e[2]] = lease[e[2]]
        BY <2>1, <2>3, EntryParts DEF Lapse
    <2> QED
        BY <2>2, <2>4 DEF Holds
<1> QED
    BY <1>1, <1>2 DEF StaysInv, StaysAreApart

(* What a process knew of its players is gone, what the others know is not.    *)
LEMMA CrashStep ==
    ASSUME Typed, StaysInv, NEW r \in Rooms, Crash(r)
    PROVE  StaysInv'
<1>1. /\ lease' = lease
      /\ present' = {e \in present : e[1] # r} /\ grace' = {e \in grace : e[1] # r}
      /\ vacating' = {s \in vacating : s[1] # r} /\ overtaken' = {s \in overtaken : s[1] # r}
      /\ lapsed' = lapsed \cap (present' \cup grace')
    BY DEF Crash, KeepLapsed
<1>2. lapsed' \subseteq present' \cup grace' /\ present' \cap grace' \subseteq lapsed'
    BY <1>1 DEF StaysInv
<1>3. StaysHoldLeases'
    BY <1>1 DEF StaysInv, StaysHoldLeases, Holds
<1>4. StaysAreApart'
    <2> SUFFICES ASSUME NEW f \in present' \cup grace', <<f[1], f[2]>> \notin overtaken'
                 PROVE  /\ <<f[1], f[2]>> \notin vacating'
                        /\ f \notin present' \cap grace'
                        /\ \A g \in present' \cup grace' : g[1] = f[1] /\ g[2] = f[2] => g = f
        BY DEF StaysAreApart
    <2>1. f \in present \cup grace /\ <<f[1], f[2]>> \notin overtaken
        BY <1>1
    <2> QED
        BY <1>1, <2>1 DEF StaysInv, StaysAreApart
<1> QED
    BY <1>2, <1>3, <1>4 DEF StaysInv

(* Every step of the system keeps what is said of the stays.                  *)
LEMMA StaysStep == Typed /\ StaysInv /\ [AdmissionNext]_all => StaysInv'
<1> SUFFICES ASSUME Typed, StaysInv, [AdmissionNext]_all PROVE StaysInv'
    OBVIOUS
<1>1. CASE SessionStep
    <2>1. UNCHANGED world
        BY <1>1 DEF SessionStep, Alone
    <2> QED
        BY <2>1, StaysUntouched DEF world, rooms, ghosts, stays
<1>2. ASSUME NEW c \in Calls, HandlerStep(c) PROVE StaysInv'
    <2>1. UNCHANGED stays
        BY <1>2 DEF HandlerStep, AllocateRoom, Issue, GiveUp, Redeem, Accept, Redeemed,
                    world, rooms, ghosts, stays
    <2> QED
        BY <2>1, StaysUntouched
<1>3. CASE RoomStep
    <2>1. ASSUME NEW r \in Rooms, NEW p \in Players, Refuse(r, p) PROVE StaysInv'
        BY <2>1, StaysUntouched DEF Refuse, ghosts, stays
    <2> QED
        BY <1>3, <2>1, AcquireStep, LeaveStep, ReturnStep, GraceEndsStep, ReleaseSeatStep, CrashStep
           DEF RoomStep
<1>4. ASSUME NEW p \in Players, NEW r \in Rooms, Compensate(r, p) PROVE StaysInv'
    BY <1>4, StaysUntouched DEF Compensate, rooms, ghosts, stays
<1>5. CASE UNCHANGED all
    BY <1>5, StaysUntouched DEF all, world, rooms, ghosts, stays
<1> QED
    BY <1>1, <1>2, <1>3, <1>4, <1>5, LapseStep DEF AdmissionNext

(* For every number of players, rooms, sessions, tickets and calls: an entry of *)
(* a room holds the player's lease until that expires, and a player is twice in *)
(* a room only where it came in over an earlier stay.                         *)
THEOREM AdmissionSafe == AdmissionSpec => []AdmissionInv
<1>1. AdmissionInv <=> AdmissionTypeOK /\ StaysInv
    BY DEF AdmissionInv, StaysInv
<1>2. AdmissionTypeOK => Typed
    BY DEF AdmissionTypeOK, Typed
<1>3. TicketInv /\ AdmissionInv /\ [AdmissionNext]_all => AdmissionInv'
    <2>1. (AdmissionInv <=> AdmissionTypeOK /\ StaysInv)'
        BY DEF AdmissionInv, StaysInv
    <2> QED
        BY <1>1, <1>2, <2>1, TypesStay, StaysStep
<1> QED
    BY <1>3, AdmissionStart, AdmissionIsTickets, TicketsSafe, PTL DEF AdmissionSpec

(* A player is in the game in two stays at once only when a lease under the     *)
(* room and token of one of them has expired.                                 *)
THEOREM OneRoom == AdmissionSpec => []OneRoomPlays
<1>1. AdmissionInv => OneRoomPlays
    <2> SUFFICES ASSUME AdmissionInv, NEW e \in present \cup grace, NEW f \in present \cup grace,
                        e # f, e[2] = f[2], e \notin lapsed, f \notin lapsed
                 PROVE  FALSE
        BY DEF OneRoomPlays
    <2>1. e \in Entries /\ f \in Entries
        BY DEF AdmissionInv, AdmissionTypeOK
    <2>2. Holds(e) /\ Holds(f)
        BY DEF AdmissionInv, StaysHoldLeases
    <2> QED
        BY <2>1, <2>2, EntryParts DEF Holds
<1> QED
    BY <1>1, AdmissionSafe, PTL

(* A player who plays loses the seat to an allocation of its own or to a release *)
(* that an earlier stay had yet to make, and to nothing else.                  *)
THEOREM SeatsStay == AdmissionSpec => SeatsStayWithPlayers
<1>1. ASSUME AdmissionInv, [AdmissionNext]_all, NEW r \in Rooms, NEW p \in Players,
             Inside(r, p), seat[p] = r, seat'[p] # r
      PROVE  \/ \E c \in Calls : op[c] = "issue" /\ Caller(c) = p
             \/ <<r, p>> \in owed \cup overtaken
    <2>0. seat \in [Players -> Rooms \cup {NoRoom}]
        BY <1>1 DEF AdmissionInv, AdmissionTypeOK
    <2>1. CASE SessionStep
        BY <1>1, <2>1 DEF SessionStep, Alone, world
    <2>2. ASSUME NEW c \in Calls, HandlerStep(c) PROVE op[c] = "issue" /\ Caller(c) = p
        <3>1. PICK q \in Rooms : AllocateRoom(c, q)
            BY <1>1, <2>2 DEF HandlerStep, Issue, GiveUp, Redeem, Accept, Redeemed, world
        <3> QED
            BY <1>1, <2>0, <3>1 DEF AllocateRoom, Seats!Sit
    <2>3. CASE RoomStep
        <3>1. PICK q \in Rooms, o \in Players : ReleaseSeat(q, o)
            BY <1>1, <2>3 DEF RoomStep, Acquire, Refuse, Leave, Return, GraceEnds, Crash
        <3>2. o = p /\ q = r
            BY <1>1, <2>0, <3>1 DEF ReleaseSeat, Vacate, Seats!Leave
        <3>3. <<r, p>> \in vacating
            BY <3>1, <3>2 DEF ReleaseSeat
        <3> QED
            BY <1>1, <3>3 DEF Inside, AdmissionInv, StaysAreApart
    <2>4. ASSUME NEW q \in Players, Lapse(q) PROVE FALSE
        BY <1>1, <2>4 DEF Lapse
    <2>5. ASSUME NEW o \in Players, NEW q \in Rooms, Compensate(q, o) PROVE <<r, p>> \in owed
        <3>1. o = p /\ q = r
            BY <1>1, <2>0, <2>5 DEF Compensate, Vacate, Seats!Leave
        <3> QED
            BY <2>5, <3>1 DEF Compensate
    <2>6. CASE UNCHANGED all
        BY <1>1, <2>6 DEF all, world
    <2> QED
        BY <1>1, <2>1, <2>2, <2>3, <2>4, <2>5, <2>6 DEF AdmissionNext
<1>2. AdmissionInv /\ [AdmissionNext]_all =>
         [\A r \in Rooms, p \in Players :
              Inside(r, p) /\ seat[p] = r /\ seat'[p] # r =>
                  \/ \E c \in Calls : op[c] = "issue" /\ Caller(c) = p
                  \/ <<r, p>> \in owed \cup overtaken]_all
    BY <1>1
<1> QED
    BY <1>2, AdmissionSafe, PTL DEF SeatsStayWithPlayers, AdmissionSpec
=============================================================================
