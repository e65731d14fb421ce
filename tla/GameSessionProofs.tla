------------------------- MODULE GameSessionProofs --------------------------
(* Proofs about GameSession, for every number of connections, players and    *)
(* overlapping timers, and for every bound.                                  *)
(*                                                                           *)
(* Four inductive invariants: CoreInv says what the dictionaries and the     *)
(* coroutines know of each other; on top of it, TokensInv that a peer is     *)
(* given a reconnect token once, HandsInv that a lease that never lapsed is  *)
(* in one hand, and FencesInv that one hand at most holds the last fencing   *)
(* token.                                                                    *)
EXTENDS GameSession, TLAPS

AuthRecords ==
    [at : {"idle", "redeem", "acquire", "reading", "done"}, player : Players \cup {Nobody},
     call : Calls, token : 0..MaxToken, saw : SUBSET (Peers \cup Players)]

TickRecords ==
    [at : {"idle", "aborted", "release"}, left : SUBSET Players, saved : Saved \cup {Nobody},
     call : Calls]

RenewalRecords ==
    [loop : {"idle", "aborted", "peers", "players"}, left : SUBSET (Peers \cup Players),
     key : Peers \cup Players \cup {Nobody}, saved : Saved \cup {Nobody}, call : Calls]

Connections == {"new", "authing", "joined", "closing", "gone"}

(* What else CoreInv says.                                                   *)
Links == IdentitiesHoldLeases /\ PeersInv /\ KeptInv /\ RenewalInv

LEMMA CoreParts == CoreInv <=> TypeOK /\ Links
BY DEF CoreInv, SessionInv, Links

(* The values that are not records.                                          *)
LEMMA NobodyIs ==
    /\ Nobody \notin Peers /\ Nobody \notin Players /\ Nobody \notin Lease /\ Nobody \notin Saved
    /\ MaxToken \in Nat \ {0} /\ MaxRenewals \in Nat /\ MaxRestarts \in Nat
BY SessionAssumption, NobodyIsNoEntry

LEMMA RestingIs ==
    /\ Resting \in AuthRecords
    /\ Resting.at = "idle" /\ Resting.player = Nobody /\ Resting.call = NoCall
    /\ Resting.token = 0 /\ Resting.saw = {}
BY NobodyIs DEF Resting, AuthRecords, Calls, NoCall

LEMMA NoTickIs ==
    /\ NoTick \in TickRecords /\ BadTick \in TickRecords
    /\ NoTick.call = NoCall /\ BadTick.call = NoCall
BY DEF NoTick, BadTick, TickRecords, Calls, NoCall

LEMMA NoRenewalIs ==
    /\ NoRenewal \in RenewalRecords /\ BadRenewal \in RenewalRecords
    /\ NoRenewal.loop = "idle" /\ NoRenewal.call = NoCall
    /\ BadRenewal.loop = "aborted" /\ BadRenewal.call = NoCall
BY DEF NoRenewal, BadRenewal, RenewalRecords, Calls, NoCall

LEMMA CoreInit == Init => CoreInv
<1> SUFFICES ASSUME Init PROVE TypeOK /\ Links
    BY CoreParts
<1>1. NoRow \in [token : 0..MaxToken, live : BOOLEAN]
    BY NobodyIs DEF NoRow
<1>2. TypeOK
    BY <1>1, NobodyIs, RestingIs, NoTickIs, NoRenewalIs
       DEF Init, TypeOK, AuthRecords, TickRecords, RenewalRecords
<1>3. Links
    BY RestingIs, NoTickIs, NoRenewalIs, SessionAssumption
       DEF Init, Links, IdentitiesHoldLeases, PeersInv, KeptInv, RenewalInv, NoCall
<1> QED
    BY <1>2, <1>3
-----------------------------------------------------------------------------
(* The coroutines that see something begin go on as they were.               *)
SameCall(r, s) == r.at = s.at /\ r.player = s.player /\ r.call = s.call /\ r.token = s.token

LEMMA BeginsShape ==
    ASSUME NEW a \in [Peers -> AuthRecords], NEW x \in Peers \cup Players
    PROVE  /\ Begins(x, a) \in [Peers -> AuthRecords]
           /\ \A d \in Peers : SameCall(Begins(x, a)[d], a[d])
<1>1. ASSUME NEW d \in Peers
      PROVE  /\ [a[d] EXCEPT !.saw = @ \cup {x}] \in AuthRecords
             /\ SameCall([a[d] EXCEPT !.saw = @ \cup {x}], a[d])
    <2>1. a[d] \in AuthRecords
        OBVIOUS
    <2> QED
        BY <2>1 DEF AuthRecords, SameCall
<1> QED
    BY <1>1 DEF Begins, SameCall

(* A connection that goes away, or is told to.                               *)
Departs(c) ==
    /\ conn' \in [Peers -> Connections] /\ conn'[c] \in {"closing", "gone"}
    /\ pending' \in [Peers -> {"no", "open", "submitted"}] /\ pending'[c] = "no"
    /\ identities' \in [Peers -> Players \cup {Nobody}] /\ identities'[c] = Nobody
    /\ leases' \in [Peers -> Lease \cup {Nobody}] /\ leases'[c] = Nobody
    /\ \A d \in Peers \ {c} :
          /\ conn'[d] = conn[d] /\ pending'[d] = pending[d]
          /\ identities'[d] = identities[d] /\ leases'[d] = leases[d]
    /\ auth' \in [Peers -> AuthRecords]
    /\ \A d \in Peers :
          \/ SameCall(auth'[d], auth[d])
          \/ d = c /\ auth[c].call # "ok" /\ SameCall(auth'[c], Resting)
    /\ disconnected' \in [Players -> Saved \cup {Nobody}]
    /\ \A p \in Players :
          \/ disconnected'[p] = disconnected[p] /\ p # identities[c]
          \/ p = identities[c] /\ disconnected'[p] = [from |-> c, lease |-> leases[c], over |-> FALSE]
    /\ UNCHANGED <<tokens, grace, renewal, row, renewals, restarts, ghosts>>

LEMMA RemoveDeparts ==
    ASSUME CoreInv, NEW c \in Peers, NEW a \in [Peers -> AuthRecords], Remove(c, a),
           \A d \in Peers : \/ SameCall(a[d], auth[d])
                            \/ d = c /\ auth[c].call # "ok" /\ SameCall(a[c], Resting),
           conn' \in [Peers -> Connections], conn'[c] \in {"closing", "gone"},
           \A d \in Peers \ {c} : conn'[d] = conn[d],
           UNCHANGED <<tokens, grace, renewal, row, renewals, restarts, ghosts>>
    PROVE  Departs(c)
<1>0. TypeOK
    BY DEF CoreInv, SessionInv
<1>1. /\ pending' \in [Peers -> {"no", "open", "submitted"}] /\ pending'[c] = "no"
      /\ identities' \in [Peers -> Players \cup {Nobody}] /\ identities'[c] = Nobody
      /\ leases' \in [Peers -> Lease \cup {Nobody}] /\ leases'[c] = Nobody
      /\ \A d \in Peers \ {c} :
            /\ pending'[d] = pending[d]
            /\ identities'[d] = identities[d] /\ leases'[d] = leases[d]
    BY <1>0 DEF Remove, TypeOK
<1>2. auth' \in [Peers -> AuthRecords] /\ \A d \in Peers : SameCall(auth'[d], a[d])
    <2>1. auth' = a \/ auth' = Begins(c, a)
        BY DEF Remove
    <2>2. \A d \in Peers : SameCall(a[d], a[d])
        BY DEF SameCall
    <2> QED
        BY <2>1, <2>2, BeginsShape
<1>3. \A d \in Peers :
          \/ SameCall(auth'[d], auth[d])
          \/ d = c /\ auth[c].call # "ok" /\ SameCall(auth'[c], Resting)
    BY <1>2 DEF SameCall
<1>4. CASE identities[c] = Nobody
    <2>1. disconnected' = disconnected
        BY <1>4 DEF Remove
    <2> QED
        BY <1>0, <1>1, <1>2, <1>3, <1>4, <2>1, NobodyIs DEF Departs, TypeOK
<1>5. CASE identities[c] # Nobody
    <2> DEFINE saved == [from |-> c, lease |-> leases[c], over |-> FALSE]
    <2>1. identities[c] \in Players /\ leases[c] \in Lease
        BY <1>0, <1>5 DEF CoreInv, SessionInv, TypeOK, IdentitiesHoldLeases
    <2>2. saved \in Saved
        BY <2>1 DEF Saved
    <2>3. disconnected' = [disconnected EXCEPT ![identities[c]] = saved]
        BY <1>5 DEF Remove
    <2>4. /\ disconnected' \in [Players -> Saved \cup {Nobody}]
          /\ disconnected'[identities[c]] = saved
          /\ \A p \in Players : p # identities[c] => disconnected'[p] = disconnected[p]
        BY <1>0, <2>1, <2>2, <2>3 DEF TypeOK
    <2> QED
        BY <1>1, <1>2, <1>3, <2>1, <2>4 DEF Departs
<1> QED
    BY <1>4, <1>5

(* A departure leaves what it says of the others alone.                      *)
LEMMA DepartsCore ==
    ASSUME CoreInv, NEW c \in Peers, Departs(c)
    PROVE  CoreInv'
<1>0. TypeOK /\ Links
    BY CoreParts
<1>1. TypeOK'
    BY <1>0 DEF Departs, TypeOK, ghosts, AuthRecords, Connections
<1>2. \A d \in Peers : HasEntered(d) => HasEntered(d)'
    BY RestingIs DEF HasEntered, Departs, SameCall
<1>3. IdentitiesHoldLeases'
    BY <1>0 DEF Links, IdentitiesHoldLeases, Departs
<1>4. PeersInv'
    BY <1>0, <1>2, RestingIs DEF Links, PeersInv, Departs, SameCall, NoCall
<1>5. KeptInv'
    <2>1. ASSUME NEW p \in Players, disconnected'[p] # Nobody
          PROVE  disconnected'[p].lease.player = p
        <3>1. CASE disconnected'[p] = disconnected[p]
            BY <1>0, <2>1, <3>1 DEF Links, KeptInv
        <3>2. CASE p = identities[c] /\ disconnected'[p] = [from |-> c, lease |-> leases[c], over |-> FALSE]
            <4>1. leases[c].player = p
                BY <1>0, <3>2, NobodyIs DEF Links, IdentitiesHoldLeases
            <4> QED
                BY <3>2, <4>1
        <3> QED
            BY <3>1, <3>2 DEF Departs
    <2> QED
        BY <1>0, <2>1 DEF Links, KeptInv, Departs
<1>6. RenewalInv'
    BY <1>0, <1>2 DEF Links, RenewalInv, Departs
<1> QED
    BY <1>1, <1>3, <1>4, <1>5, <1>6 DEF CoreInv, SessionInv
-----------------------------------------------------------------------------
(* The steps of a connection.                                                *)

LEMMA RejectDeparts ==
    ASSUME CoreInv, NEW c \in Peers, NEW a \in [Peers -> AuthRecords], Reject(c, a),
           \A d \in Peers : \/ SameCall(a[d], auth[d])
                            \/ d = c /\ auth[c].call # "ok" /\ SameCall(a[c], Resting),
           UNCHANGED <<tokens, grace, renewal, row, renewals, restarts, ghosts>>
    PROVE  Departs(c)
<1>1. conn \in [Peers -> Connections]
    BY DEF CoreInv, SessionInv, TypeOK, Connections
<1>2. /\ conn' \in [Peers -> Connections] /\ conn'[c] \in {"closing", "gone"}
      /\ \A d \in Peers \ {c} : conn'[d] = conn[d]
    BY <1>1 DEF Reject, Connections
<1> QED
    BY <1>2, RemoveDeparts DEF Reject

LEMMA AuthIs ==
    ASSUME CoreInv
    PROVE  /\ auth \in [Peers -> AuthRecords]
           /\ \A d \in Peers : auth[d] \in AuthRecords /\ SameCall(auth[d], auth[d])
           /\ \A d \in Peers : auth[d].at # "acquire" => auth[d].call = NoCall
BY DEF CoreInv, SessionInv, TypeOK, AuthRecords, SameCall, PeersInv

(* A coroutine of _authenticate that ends.                                   *)
LEMMA RestingShape ==
    ASSUME CoreInv, NEW c \in Peers
    PROVE  /\ [auth EXCEPT ![c] = Resting] \in [Peers -> AuthRecords]
           /\ [auth EXCEPT ![c] = Resting][c] = Resting
           /\ SameCall([auth EXCEPT ![c] = Resting][c], Resting)
           /\ \A d \in Peers \ {c} : SameCall([auth EXCEPT ![c] = Resting][d], auth[d])
BY AuthIs, RestingIs DEF SameCall

Opens(c) ==
    /\ conn[c] = "new"
    /\ pending' = [pending EXCEPT ![c] = "open"] /\ conn' = [conn EXCEPT ![c] = "authing"]
    /\ UNCHANGED <<identities, leases, disconnected, tokens, auth, grace, renewal, row, renewals,
                   restarts, ghosts>>

LEMMA ConnectCases ==
    ASSUME CoreInv, NEW c \in Peers, Connect(c)
    PROVE  Departs(c) \/ Opens(c)
<1>1. CASE Reject(c, auth)
    BY <1>1, AuthIs, RejectDeparts DEF Connect
<1>2. CASE ~Reject(c, auth)
    BY <1>2 DEF Connect, Opens, Keep
<1> QED
    BY <1>1, <1>2

LEMMA OpensCore ==
    ASSUME CoreInv, NEW c \in Peers, Opens(c)
    PROVE  CoreInv'
<1>0. TypeOK /\ Links
    BY CoreParts
<1>1. TypeOK'
    BY <1>0 DEF Opens, TypeOK, ghosts
<1>2. \A d \in Peers : HasEntered(d) => HasEntered(d)'
    BY <1>0 DEF HasEntered, Opens, TypeOK
<1>3. IdentitiesHoldLeases' /\ PeersInv' /\ KeptInv'
    BY <1>0, <1>2 DEF Links, IdentitiesHoldLeases, PeersInv, KeptInv, Opens, TypeOK
<1>4. RenewalInv'
    BY <1>0, <1>2 DEF Links, RenewalInv, Opens
<1> QED
    BY <1>1, <1>3, <1>4 DEF CoreInv, SessionInv

LEMMA DropDeparts ==
    ASSUME CoreInv, NEW c \in Peers, Drop(c)
    PROVE  Departs(c)
<1> DEFINE a == IF auth[c].at = "done" THEN [auth EXCEPT ![c] = Resting] ELSE auth
<1>1. a \in [Peers -> AuthRecords]
    BY AuthIs, RestingShape
<1>2. \A d \in Peers : \/ SameCall(a[d], auth[d])
                       \/ d = c /\ auth[c].call # "ok" /\ SameCall(a[c], Resting)
    BY AuthIs, RestingShape DEF NoCall
<1>3. Remove(c, a)
    BY DEF Drop
<1>4. /\ conn' \in [Peers -> Connections] /\ conn'[c] \in {"closing", "gone"}
      /\ \A d \in Peers \ {c} : conn'[d] = conn[d]
    BY DEF Drop, CoreInv, SessionInv, TypeOK, Connections
<1> HIDE DEF a
<1> QED
    BY <1>1, <1>2, <1>3, <1>4, RemoveDeparts DEF Drop

LEMMA RefuseDeparts ==
    ASSUME CoreInv, NEW c \in Peers, RefusePacket(c)
    PROVE  Departs(c)
BY AuthIs, RejectDeparts DEF RefusePacket

LEMMA SubmitCore ==
    ASSUME CoreInv, NEW c \in Peers, SubmitTicket(c)
    PROVE  CoreInv'
<1>0. TypeOK /\ Links
    BY CoreParts
<1>1. /\ auth' \in [Peers -> AuthRecords]
      /\ auth'[c] = [auth[c] EXCEPT !.at = "redeem"]
      /\ \A d \in Peers \ {c} : auth'[d] = auth[d]
      /\ auth'[c].at = "redeem" /\ auth'[c].call = auth[c].call /\ auth'[c].token = auth[c].token
    BY AuthIs DEF SubmitTicket, AuthRecords
<1>2. UNCHANGED <<conn, identities, leases, disconnected, tokens, grace, renewal, row, renewals,
                  restarts, ghosts>>
    BY DEF SubmitTicket, Keep
<1>3. /\ pending' \in [Peers -> {"no", "open", "submitted"}] /\ pending'[c] = "submitted"
      /\ \A d \in Peers \ {c} : pending'[d] = pending[d]
    BY <1>0 DEF SubmitTicket, TypeOK
<1>4. TypeOK'
    BY <1>0, <1>1, <1>2, <1>3 DEF TypeOK, ghosts, AuthRecords
<1>5. \A d \in Peers : HasEntered(d) => HasEntered(d)'
    BY <1>1, <1>2, <1>3 DEF HasEntered, SubmitTicket
<1>6. IdentitiesHoldLeases' /\ KeptInv'
    BY <1>0, <1>2 DEF Links, IdentitiesHoldLeases, KeptInv
<1>8. PeersInv'
    <2>1. auth[c].call = NoCall /\ leases[c] = Nobody /\ conn[c] = "authing"
        BY <1>0, AuthIs DEF SubmitTicket, Links, PeersInv, HasEntered
    <2>2. ASSUME NEW d \in Peers \ {c}
          PROVE  auth'[d] = auth[d] /\ pending'[d] = pending[d] /\ conn'[d] = conn[d]
        BY <1>1, <1>2, <1>3
    <2>3. auth'[c].at = "redeem" /\ auth'[c].call = NoCall /\ conn'[c] = "authing" /\ leases'[c] = Nobody
        BY <1>1, <1>2, <2>1
    <2> QED
        BY <1>0, <1>2, <1>3, <1>5, <2>2, <2>3 DEF Links, PeersInv, NoCall
<1>7. RenewalInv'
    BY <1>0, <1>2, <1>5 DEF Links, RenewalInv
<1> QED
    BY <1>4, <1>6, <1>7, <1>8 DEF CoreInv, SessionInv

(* A player who is let in again has the lease that was kept.                 *)
LEMMA ResumeShape ==
    ASSUME CoreInv, NEW c \in Peers, NEW t \in Peers, NEW p \in Players, Resume(c, t, p)
    PROVE  /\ conn[c] = "authing" /\ pending[c] = "open" /\ auth[c].at = "idle"
           /\ identities[c] = Nobody /\ leases[c] = Nobody
           /\ fate[t] # "unissued" /\ tokens[p] = t
           /\ disconnected[p] \in Saved /\ disconnected[p].lease \in Lease /\ p \notin Present
           /\ pending' \in [Peers -> {"no", "open", "submitted"}] /\ pending'[c] = "submitted"
           /\ identities' \in [Peers -> Players \cup {Nobody}] /\ identities'[c] = p
           /\ leases' \in [Peers -> Lease \cup {Nobody}] /\ leases'[c] = disconnected[p].lease
           /\ auth' \in [Peers -> AuthRecords]
           /\ auth'[c].at = "done" /\ auth'[c].call = NoCall
           /\ \A d \in Peers \ {c} :
                 /\ pending'[d] = pending[d] /\ identities'[d] = identities[d]
                 /\ leases'[d] = leases[d] /\ auth'[d] = auth[d]
           /\ disconnected' \in [Players -> Saved \cup {Nobody}] /\ disconnected'[p] = Nobody
           /\ tokens' \in [Players -> Peers \cup {Nobody}] /\ tokens'[p] = c
           /\ \A q \in Players \ {p} : disconnected'[q] = disconnected[q] /\ tokens'[q] = tokens[q]
           /\ UNCHANGED <<conn, grace, renewal, row, renewals, restarts, lapsed, excused>>
<1>0. TypeOK /\ Links
    BY CoreParts
<1>1. /\ conn[c] = "authing" /\ pending[c] = "open" /\ fate[t] # "unissued" /\ tokens[p] = t
      /\ p \notin Present /\ disconnected[p] # Nobody
      /\ pending' = [pending EXCEPT ![c] = "submitted"]
      /\ disconnected' = [disconnected EXCEPT ![p] = Nobody]
      /\ identities' = [identities EXCEPT ![c] = p]
      /\ leases' = [leases EXCEPT ![c] = disconnected[p].lease]
      /\ tokens' = [tokens EXCEPT ![p] = c]
      /\ auth' = [auth EXCEPT ![c] = [Resting EXCEPT !.at = "done"]]
      /\ UNCHANGED <<conn, grace, renewal, row, renewals, restarts, lapsed, excused>>
    BY DEF Resume, IssueToken
<1>2. auth[c].at = "idle" /\ leases[c] = Nobody /\ identities[c] = Nobody
    BY <1>0, <1>1 DEF Links, PeersInv, HasEntered, IdentitiesHoldLeases
<1>3. disconnected[p] \in Saved /\ disconnected[p].lease \in Lease
    BY <1>0, <1>1 DEF TypeOK, Saved
<1>4. /\ [Resting EXCEPT !.at = "done"] \in AuthRecords
      /\ [Resting EXCEPT !.at = "done"].at = "done" /\ [Resting EXCEPT !.at = "done"].call = NoCall
    BY RestingIs DEF AuthRecords
<1>5. /\ auth' \in [Peers -> AuthRecords]
      /\ auth'[c].at = "done" /\ auth'[c].call = NoCall
      /\ \A d \in Peers \ {c} : auth'[d] = auth[d]
    BY <1>1, <1>4, AuthIs
<1>6. /\ pending' \in [Peers -> {"no", "open", "submitted"}] /\ pending'[c] = "submitted"
      /\ identities' \in [Peers -> Players \cup {Nobody}] /\ identities'[c] = p
      /\ leases' \in [Peers -> Lease \cup {Nobody}] /\ leases'[c] = disconnected[p].lease
      /\ \A d \in Peers \ {c} :
            /\ pending'[d] = pending[d] /\ identities'[d] = identities[d]
            /\ leases'[d] = leases[d]
    BY <1>0, <1>1, <1>3 DEF TypeOK
<1>7. /\ disconnected' \in [Players -> Saved \cup {Nobody}] /\ disconnected'[p] = Nobody
      /\ tokens' \in [Players -> Peers \cup {Nobody}] /\ tokens'[p] = c
      /\ \A q \in Players \ {p} : disconnected'[q] = disconnected[q] /\ tokens'[q] = tokens[q]
    BY <1>0, <1>1 DEF TypeOK
<1> QED
    BY <1>1, <1>2, <1>3, <1>5, <1>6, <1>7

LEMMA FateIs ==
    ASSUME TypeOK, NEW c \in Peers, NEW t \in Peers
    PROVE  /\ [fate EXCEPT ![t] = "spent"] \in [Peers -> {"unissued", "handed", "spent"}]
           /\ [fate EXCEPT ![t] = "spent", ![c] = "handed"] \in [Peers -> {"unissued", "handed", "spent"}]
BY DEF TypeOK

LEMMA ResumeCore ==
    ASSUME CoreInv, NEW c \in Peers, NEW t \in Peers, NEW p \in Players, Resume(c, t, p)
    PROVE  CoreInv'
<1>0. TypeOK /\ Links
    BY CoreParts
<1>1. fate' \in [Peers -> {"unissued", "handed", "spent"}]
    BY <1>0, FateIs DEF Resume
<1>2. TypeOK'
    BY <1>0, <1>1, ResumeShape DEF TypeOK, AuthRecords
<1>3. \A d \in Peers : HasEntered(d) => HasEntered(d)'
    BY ResumeShape DEF HasEntered
<1>4. HasEntered(c)' /\ ~HasEntered(c)
    BY ResumeShape DEF HasEntered
<1>5. IdentitiesHoldLeases' /\ KeptInv'
    <2>1. disconnected[p].lease.player = p /\ disconnected[p].lease # Nobody
        BY <1>0, ResumeShape, NobodyIs DEF Links, KeptInv
    <2>2. leases'[c] # Nobody /\ leases'[c].player = identities'[c] /\ conn'[c] = "authing"
        BY <2>1, ResumeShape
    <2>3. IdentitiesHoldLeases'
        BY <1>0, <2>2, ResumeShape DEF Links, IdentitiesHoldLeases
    <2>4. KeptInv'
        BY <1>0, ResumeShape DEF Links, KeptInv
    <2> QED
        BY <2>3, <2>4
<1>6. PeersInv'
    BY <1>0, <1>3, <1>4, ResumeShape, NobodyIs DEF Links, PeersInv, NoCall
<1>7. RenewalInv'
    BY <1>0, <1>3, <1>4, ResumeShape DEF Links, RenewalInv
<1> QED
    BY <1>2, <1>5, <1>6, <1>7 DEF CoreInv, SessionInv

LEMMA ResumeLateShape ==
    ASSUME CoreInv, NEW c \in Peers, NEW t \in Peers, NEW p \in Players, ResumeLate(c, t, p)
    PROVE  /\ tokens[p] = t
           /\ conn' \in [Peers -> Connections] /\ conn'[c] = "closing"
           /\ pending' \in [Peers -> {"no", "open", "submitted"}] /\ pending'[c] = "no"
           /\ \A d \in Peers \ {c} : pending'[d] = pending[d] /\ conn'[d] = conn[d]
           /\ disconnected' \in [Players -> Saved \cup {Nobody}] /\ disconnected'[p] = Nobody
           /\ tokens' \in [Players -> Peers \cup {Nobody}] /\ tokens'[p] = Nobody
           /\ \A q \in Players \ {p} : disconnected'[q] = disconnected[q] /\ tokens'[q] = tokens[q]
           /\ fate' \in [Peers -> {"unissued", "handed", "spent"}]
           /\ UNCHANGED <<identities, leases, auth, grace, renewal, row, renewals, restarts, lapsed,
                          excused>>
<1>0. TypeOK
    BY CoreParts
<1>1. fate' \in [Peers -> {"unissued", "handed", "spent"}]
    BY <1>0, FateIs DEF ResumeLate
<1> QED
    BY <1>0, <1>1 DEF ResumeLate, TypeOK, Connections

LEMMA ResumeLateCore ==
    ASSUME CoreInv, NEW c \in Peers, NEW t \in Peers, NEW p \in Players, ResumeLate(c, t, p)
    PROVE  CoreInv'
<1>0. TypeOK /\ Links
    BY CoreParts
<1>1. TypeOK'
    BY <1>0, ResumeLateShape DEF TypeOK, Connections
<1>2. \A d \in Peers : HasEntered(d) => HasEntered(d)'
    BY ResumeLateShape DEF HasEntered
<1>3. IdentitiesHoldLeases'
    BY <1>0, ResumeLateShape DEF Links, IdentitiesHoldLeases
<1>4. PeersInv'
    BY <1>0, <1>2, ResumeLateShape DEF Links, PeersInv
<1>5. KeptInv'
    BY <1>0, ResumeLateShape DEF Links, KeptInv
<1>6. RenewalInv'
    BY <1>0, <1>2, ResumeLateShape DEF Links, RenewalInv
<1> QED
    BY <1>1, <1>3, <1>4, <1>5, <1>6 DEF CoreInv, SessionInv

(* A coroutine of _authenticate that goes on, and nothing else.              *)
AuthGoes(c) ==
    /\ auth' \in [Peers -> AuthRecords]
    /\ \A d \in Peers \ {c} : SameCall(auth'[d], auth[d])
    /\ UNCHANGED <<memory, grace, renewal, renewals, restarts, fate, excused>>

Asks(c, p) ==
    /\ auth[c].at = "redeem" /\ p \notin Present
    /\ auth'[c].at = "acquire" /\ auth'[c].player = p /\ auth'[c].call = "posted" /\ auth'[c].token = 0
    /\ AuthGoes(c) /\ UNCHANGED <<row, lapsed>>

LEMMA RedeemedCases ==
    ASSUME CoreInv, NEW c \in Peers, NEW p \in Players, Redeemed(c, p)
    PROVE  Departs(c) \/ Asks(c, p)
<1>1. CASE p \in Present
    <2>1. Reject(c, [auth EXCEPT ![c] = Resting])
        BY <1>1 DEF Redeemed
    <2>2. auth[c].call # "ok"
        BY AuthIs DEF Redeemed, NoCall
    <2>3. UNCHANGED <<tokens, grace, renewal, row, renewals, restarts, ghosts>>
        BY DEF Redeemed
    <2> QED
        BY <2>1, <2>2, <2>3, RestingShape, RejectDeparts
<1>2. CASE p \notin Present
    <2> DEFINE new == [Resting EXCEPT !.at = "acquire", !.player = p, !.call = "posted"]
    <2>1. /\ new \in AuthRecords /\ new.at = "acquire" /\ new.player = p /\ new.call = "posted"
          /\ new.token = 0
        BY RestingIs DEF AuthRecords, Calls
    <2>2. auth' = [auth EXCEPT ![c] = new] /\ auth[c].at = "redeem"
        BY <1>2 DEF Redeemed
    <2>3. UNCHANGED <<memory, grace, renewal, row, renewals, restarts, ghosts>>
        BY <1>2 DEF Redeemed, Keep, memory
    <2> HIDE DEF new
    <2>4. auth' \in [Peers -> AuthRecords] /\ auth'[c] = new /\ \A d \in Peers \ {c} : auth'[d] = auth[d]
        BY <2>1, <2>2, AuthIs
    <2> QED
        BY <1>2, <2>1, <2>2, <2>3, <2>4, AuthIs DEF Asks, AuthGoes, ghosts
<1> QED
    BY <1>1, <1>2

GivesUp(c) ==
    /\ auth[c].at = "redeem"
    /\ SameCall(auth'[c], Resting)
    /\ AuthGoes(c) /\ UNCHANGED <<row, lapsed>>

LEMMA AuthFailedCases ==
    ASSUME CoreInv, NEW c \in Peers, AuthFailed(c)
    PROVE  Departs(c) \/ GivesUp(c)
<1> DEFINE a == [auth EXCEPT ![c] = Resting]
<1>1. auth[c].call # "ok"
    BY AuthIs DEF AuthFailed, NoCall
<1>2. UNCHANGED <<tokens, grace, renewal, row, renewals, restarts, ghosts>>
    BY DEF AuthFailed
<1>3. CASE auth[c].at = "redeem" /\ pending[c] = "no"
    <2>1. auth' = a /\ UNCHANGED <<conn, pending, identities, leases, disconnected>>
        BY <1>3 DEF AuthFailed, Keep
    <2> QED
        BY <1>2, <1>3, <2>1, RestingShape DEF GivesUp, AuthGoes, memory, ghosts
<1>4. CASE ~(auth[c].at = "redeem" /\ pending[c] = "no")
    <2>1. Reject(c, a)
        BY <1>4 DEF AuthFailed
    <2> QED
        BY <1>1, <1>2, <2>1, RestingShape, RejectDeparts
<1> QED
    BY <1>3, <1>4

(* What a step of a call of _authenticate may be, for the invariant.         *)
LEMMA AuthGoesCore ==
    ASSUME CoreInv, NEW c \in Peers, AuthGoes(c),
           row' \in [Players -> [token : 0..MaxToken, live : BOOLEAN]], lapsed' = lapsed,
           auth[c].at \in {"redeem", "acquire"}, auth'[c].at \in {"idle", "acquire"},
           auth'[c].at = "acquire" => auth'[c].player # Nobody,
           auth'[c].call # NoCall => auth'[c].at = "acquire",
           auth'[c].call = "ok" => auth'[c].token # 0
    PROVE  CoreInv'
<1>0. TypeOK /\ Links
    BY CoreParts
<1>1. UNCHANGED <<conn, pending, identities, leases, disconnected, tokens, grace, renewal>>
    BY DEF AuthGoes, memory
<1>2. TypeOK'
    BY <1>0 DEF AuthGoes, memory, TypeOK, AuthRecords
<1>3. \A d \in Peers : HasEntered(d) => HasEntered(d)'
    BY <1>1 DEF HasEntered, AuthGoes, SameCall
<1>4. IdentitiesHoldLeases' /\ KeptInv'
    BY <1>0, <1>1 DEF Links, IdentitiesHoldLeases, KeptInv
<1>5. PeersInv'
    BY <1>0, <1>1, <1>3 DEF Links, PeersInv, AuthGoes, SameCall
<1>6. RenewalInv'
    BY <1>0, <1>1, <1>3 DEF Links, RenewalInv
<1> QED
    BY <1>2, <1>4, <1>5, <1>6 DEF CoreInv, SessionInv

LEMMA AskingCore ==
    ASSUME CoreInv, NEW c \in Peers, \/ \E p \in Players : Asks(c, p)
                                     \/ GivesUp(c)
    PROVE  CoreInv'
BY AuthGoesCore, RestingIs, NobodyIs DEF Asks, GivesUp, SameCall, NoCall, CoreInv, SessionInv, TypeOK

(* The lease is granted, with or without an answer.                          *)
Grants(c) ==
    LET p == auth[c].player IN
    /\ auth[c].at = "acquire" /\ auth[c].call = "posted" /\ p \in Players /\ ~row[p].live
    /\ row' \in [Players -> [token : 0..MaxToken, live : BOOLEAN]]
    /\ row'[p].live /\ row'[p].token # 0 /\ row'[p].token = row[p].token + 1
    /\ \A q \in Players \ {p} : row'[q] = row[q]
    /\ auth'[c].at = "acquire" /\ auth'[c].player = p
    /\ \/ auth'[c].call = "ok" /\ auth'[c].token = row'[p].token
       \/ auth'[c].call = "failed"
    /\ AuthGoes(c) /\ UNCHANGED lapsed

LEMMA ServeAcquireShape ==
    ASSUME CoreInv, NEW c \in Peers, ServeAcquire(c)
    PROVE  Grants(c)
<1> DEFINE p == auth[c].player
<1>0. TypeOK /\ Links
    BY CoreParts
<1>1. p \in Players
    BY <1>0, NobodyIs DEF ServeAcquire, Links, PeersInv, TypeOK
<1>2. row[p] \in [token : 0..MaxToken, live : BOOLEAN]
    BY <1>0, <1>1 DEF TypeOK
<1>3. /\ Granted(p) \in [token : 0..MaxToken, live : BOOLEAN]
      /\ Granted(p).live /\ Granted(p).token \in 1..MaxToken /\ Granted(p).token = row[p].token + 1
    BY <1>2, NobodyIs DEF Granted, ServeAcquire
<1>4. /\ auth[c].at = "acquire" /\ auth[c].call = "posted" /\ ~row[p].live
      /\ row' = [row EXCEPT ![p] = Granted(p)]
      /\ UNCHANGED <<memory, grace, renewal, renewals, restarts, ghosts>>
    BY DEF ServeAcquire
<1>5. PICK answer \in {"ok", "failed"} :
         auth' = Begins(p, [auth EXCEPT ![c].call = answer,
                                        ![c].token = IF answer = "ok" THEN Granted(p).token ELSE 0])
    BY DEF ServeAcquire
<1> DEFINE token == IF answer = "ok" THEN Granted(p).token ELSE 0
           new == [auth[c] EXCEPT !.call = answer, !.token = token]
           a == [auth EXCEPT ![c] = new]
<1>6. /\ new \in AuthRecords /\ new.at = "acquire" /\ new.player = p /\ new.call = answer
      /\ new.token = token
    <2>1. token \in 0..MaxToken
        BY <1>3, NobodyIs
    <2> HIDE DEF token
    <2> QED
        BY <1>4, <2>1, AuthIs DEF AuthRecords, Calls
<1>7. auth' = Begins(p, a)
    BY <1>5, AuthIs
<1>8. a \in [Peers -> AuthRecords] /\ a[c] = new /\ \A d \in Peers \ {c} : a[d] = auth[d]
    BY <1>6, AuthIs
<1>9. auth' \in [Peers -> AuthRecords] /\ \A d \in Peers : SameCall(auth'[d], a[d])
    BY <1>1, <1>7, <1>8, BeginsShape
<1>10. row' \in [Players -> [token : 0..MaxToken, live : BOOLEAN]] /\ row'[p] = Granted(p)
       /\ \A q \in Players \ {p} : row'[q] = row[q]
    BY <1>0, <1>1, <1>3, <1>4 DEF TypeOK
<1> HIDE DEF a, new, p
<1>11. \A d \in Peers \ {c} : SameCall(auth'[d], auth[d])
    BY <1>8, <1>9
<1>12. /\ auth'[c].at = "acquire" /\ auth'[c].player = p /\ auth'[c].call = answer
       /\ auth'[c].token = token
    BY <1>6, <1>8, <1>9 DEF SameCall
<1> QED
    BY <1>1, <1>3, <1>4, <1>9, <1>10, <1>11, <1>12, NobodyIs DEF Grants, AuthGoes, ghosts, p

LEMMA ServeAcquireCore ==
    ASSUME CoreInv, NEW c \in Peers, Grants(c)
    PROVE  CoreInv'
BY AuthGoesCore, NobodyIs DEF Grants, NoCall

LosesAcquire(c) ==
    /\ auth[c].at = "acquire" /\ auth[c].call = "posted"
    /\ auth'[c].at = "acquire" /\ auth'[c].player = auth[c].player /\ auth'[c].call = "failed"
    /\ AuthGoes(c) /\ UNCHANGED <<row, lapsed>>

LEMMA LoseAcquireShape ==
    ASSUME CoreInv, NEW c \in Peers, LoseAcquire(c)
    PROVE  LosesAcquire(c)
<1>1. [auth[c] EXCEPT !.call = "failed"] \in AuthRecords
    BY AuthIs DEF AuthRecords, Calls
<1>2. auth' = [auth EXCEPT ![c] = [auth[c] EXCEPT !.call = "failed"]]
    BY AuthIs DEF LoseAcquire
<1>3. auth' \in [Peers -> AuthRecords] /\ \A d \in Peers \ {c} : SameCall(auth'[d], auth[d])
    BY <1>1, <1>2, AuthIs
<1>4. auth'[c] = [auth[c] EXCEPT !.call = "failed"]
    BY <1>2, AuthIs
<1> QED
    BY <1>3, <1>4, AuthIs DEF LoseAcquire, LosesAcquire, AuthGoes, AuthRecords, ghosts

LEMMA LoseAcquireCore ==
    ASSUME CoreInv, NEW c \in Peers, LosesAcquire(c)
    PROVE  CoreInv'
<1>1. auth[c].player # Nobody /\ row \in [Players -> [token : 0..MaxToken, live : BOOLEAN]]
    BY CoreParts DEF LosesAcquire, Links, PeersInv, TypeOK
<1> QED
    BY <1>1, AuthGoesCore DEF LosesAcquire, NoCall

(* The player is entered with the lease, the progress is still to be read.   *)
Enters(c, p) ==
    /\ p \in Players /\ p = auth[c].player
    /\ auth[c].at = "acquire" /\ auth[c].call = "ok" /\ identities[c] = Nobody
    /\ identities' \in [Peers -> Players \cup {Nobody}] /\ identities'[c] = p
    /\ leases' \in [Peers -> Lease \cup {Nobody}] /\ leases'[c] \in Lease
    /\ leases'[c].player = p /\ leases'[c].token = auth[c].token
    /\ \A d \in Peers \ {c} : identities'[d] = identities[d] /\ leases'[d] = leases[d]
    /\ auth' \in [Peers -> AuthRecords]
    /\ \A d \in Peers \ {c} : SameCall(auth'[d], auth[d])
    /\ auth'[c].at = "reading" /\ auth'[c].player = p /\ auth'[c].call = NoCall
    /\ UNCHANGED <<conn, pending, disconnected, tokens, grace, renewal, row, renewals, restarts,
                   ghosts>>

LEMMA AcquiredShape ==
    ASSUME CoreInv, NEW c \in Peers, Acquired(c)
    PROVE  \E p \in Players : Enters(c, p)
<1> DEFINE p == auth[c].player
           lease == [player |-> p, token |-> auth[c].token]
           new == [Resting EXCEPT !.at = "reading", !.player = p]
           a == [auth EXCEPT ![c] = new]
<1>0. TypeOK /\ Links
    BY CoreParts
<1>1. p \in Players /\ auth[c].token \in 1..MaxToken /\ identities[c] = Nobody
    BY <1>0, NobodyIs DEF Acquired, Links, PeersInv, IdentitiesHoldLeases, HasEntered, TypeOK
<1>2. lease \in Lease /\ lease.player = p /\ lease.token = auth[c].token
    BY <1>1 DEF Lease
<1>3. new \in AuthRecords /\ new.at = "reading" /\ new.player = p /\ new.call = NoCall
    BY <1>1, RestingIs DEF AuthRecords
<1> HIDE DEF new
<1>4. a \in [Peers -> AuthRecords] /\ a[c] = new /\ \A d \in Peers \ {c} : a[d] = auth[d]
    BY <1>3, AuthIs
<1>5. auth' = a \/ auth' = Begins(p, a)
    BY DEF Acquired, new
<1>6. auth' \in [Peers -> AuthRecords] /\ \A d \in Peers : SameCall(auth'[d], a[d])
    <2> HIDE DEF a, p
    <2>1. \A d \in Peers : SameCall(a[d], a[d])
        BY DEF SameCall
    <2>2. CASE auth' = a
        BY <1>4, <2>1, <2>2
    <2>3. CASE auth' = Begins(p, a)
        BY <1>1, <1>4, <2>3, BeginsShape
    <2> QED
        BY <1>5, <2>2, <2>3
<1>7. \A d \in Peers \ {c} : SameCall(auth'[d], auth[d])
    BY <1>4, <1>6
<1>8. auth'[c].at = "reading" /\ auth'[c].player = p /\ auth'[c].call = NoCall
    BY <1>3, <1>4, <1>6 DEF SameCall
<1>9. /\ identities' \in [Peers -> Players \cup {Nobody}] /\ identities'[c] = p
      /\ leases' \in [Peers -> Lease \cup {Nobody}] /\ leases'[c] = lease
      /\ \A d \in Peers \ {c} : identities'[d] = identities[d] /\ leases'[d] = leases[d]
    BY <1>0, <1>1, <1>2 DEF Acquired, TypeOK
<1> HIDE DEF a
<1> QED
    BY <1>1, <1>2, <1>6, <1>7, <1>8, <1>9 DEF Enters, Acquired

LEMMA EntersCore ==
    ASSUME CoreInv, NEW c \in Peers, NEW p \in Players, Enters(c, p)
    PROVE  CoreInv'
<1>0. TypeOK /\ Links
    BY CoreParts
<1>1. TypeOK'
    BY <1>0 DEF Enters, TypeOK, ghosts, AuthRecords
<1>2. \A d \in Peers : HasEntered(d) => HasEntered(d)'
    BY DEF HasEntered, Enters, SameCall
<1>3. ~HasEntered(c) /\ HasEntered(c)'
    BY <1>0 DEF HasEntered, Enters, Links, PeersInv
<1>4. leases'[c] # Nobody /\ p # Nobody
    BY NobodyIs DEF Enters
<1>5. IdentitiesHoldLeases' /\ KeptInv'
    BY <1>0, <1>4 DEF Enters, Links, IdentitiesHoldLeases, KeptInv
<1>6. PeersInv'
    BY <1>0, <1>2, <1>3, <1>4 DEF Enters, Links, PeersInv, SameCall, NoCall
<1>7. RenewalInv'
    BY <1>0, <1>2, <1>3 DEF Enters, Links, RenewalInv
<1> QED
    BY <1>1, <1>5, <1>6, <1>7 DEF CoreInv, SessionInv

(* The token is handed out.                                                  *)
Issues(c, p) ==
    /\ p \in Players /\ p = auth[c].player /\ auth[c].at = "reading"
    /\ tokens' \in [Players -> Peers \cup {Nobody}] /\ tokens'[p] = c
    /\ \A q \in Players \ {p} : tokens'[q] = tokens[q]
    /\ auth' \in [Peers -> AuthRecords]
    /\ auth'[c].at = "done" /\ auth'[c].call = NoCall
    /\ \A d \in Peers \ {c} : auth'[d] = auth[d]
    /\ fate' \in [Peers -> {"unissued", "handed", "spent"}]
    /\ \/ fate'[c] = "handed"
       \/ conn[c] # "authing" /\ c = tokens[p] /\ fate'[c] = "spent"
       \/ conn[c] # "authing" /\ c # tokens[p] /\ fate'[c] = fate[c]
    /\ \A d \in Peers \ {c} : IF d = tokens[p] THEN fate'[d] = "spent" ELSE fate'[d] = fate[d]
    /\ UNCHANGED <<conn, pending, identities, leases, disconnected, grace, renewal, row, renewals,
                   restarts, lapsed, excused>>

LEMMA AuthenticatedShape ==
    ASSUME CoreInv, NEW c \in Peers, Authenticated(c)
    PROVE  \E p \in Players : Issues(c, p)
<1> DEFINE p == auth[c].player
           new == [Resting EXCEPT !.at = "done"]
<1>0. TypeOK /\ Links
    BY CoreParts
<1>1. p \in Players
    BY <1>0, NobodyIs DEF Authenticated, Links, PeersInv, TypeOK
<1>2. new \in AuthRecords /\ new.at = "done" /\ new.call = NoCall
    BY RestingIs DEF AuthRecords
<1>3. auth[c].at = "reading" /\ tokens' = [tokens EXCEPT ![p] = c] /\ auth' = [auth EXCEPT ![c] = new]
    BY DEF Authenticated, IssueToken
<1>4. auth' \in [Peers -> AuthRecords] /\ auth'[c] = new /\ \A d \in Peers \ {c} : auth'[d] = auth[d]
    BY <1>2, <1>3, AuthIs
<1>5. /\ tokens' \in [Players -> Peers \cup {Nobody}] /\ tokens'[p] = c
      /\ \A q \in Players \ {p} : tokens'[q] = tokens[q]
    BY <1>0, <1>1, <1>3 DEF TypeOK
<1>6. fate' = [d \in Peers |-> IF d = c /\ conn[c] = "authing" THEN "handed"
                                ELSE IF d = tokens[p] THEN "spent" ELSE fate[d]]
    BY DEF Authenticated
<1>7. /\ fate' \in [Peers -> {"unissued", "handed", "spent"}]
      /\ \/ fate'[c] = "handed"
         \/ conn[c] # "authing" /\ c = tokens[p] /\ fate'[c] = "spent"
         \/ conn[c] # "authing" /\ c # tokens[p] /\ fate'[c] = fate[c]
      /\ \A d \in Peers \ {c} : IF d = tokens[p] THEN fate'[d] = "spent" ELSE fate'[d] = fate[d]
    BY <1>0, <1>6 DEF TypeOK
<1>8. UNCHANGED <<conn, pending, identities, leases, disconnected, grace, renewal, row, renewals,
                   restarts, lapsed, excused>>
    BY DEF Authenticated, Keep
<1> HIDE DEF new
<1> QED
    BY <1>1, <1>2, <1>3, <1>4, <1>5, <1>7, <1>8 DEF Issues

LEMMA IssuesCore ==
    ASSUME CoreInv, NEW c \in Peers, NEW p \in Players, Issues(c, p)
    PROVE  CoreInv'
<1>0. TypeOK /\ Links
    BY CoreParts
<1>1. TypeOK'
    BY <1>0 DEF Issues, TypeOK, AuthRecords
<1>2. \A d \in Peers : HasEntered(d) => HasEntered(d)'
    BY DEF HasEntered, Issues
<1>3. IdentitiesHoldLeases' /\ KeptInv'
    BY <1>0 DEF Issues, Links, IdentitiesHoldLeases, KeptInv
<1>4. PeersInv'
    BY <1>0, <1>2 DEF Issues, Links, PeersInv, NoCall
<1>5. RenewalInv'
    BY <1>0, <1>2 DEF Issues, Links, RenewalInv
<1> QED
    BY <1>1, <1>3, <1>4, <1>5 DEF CoreInv, SessionInv

(* The peer is in the game.                                                  *)
Joins(c) ==
    /\ conn[c] = "authing" /\ auth[c].at = "done"
    /\ conn' \in [Peers -> Connections] /\ conn'[c] = "joined"
    /\ pending' \in [Peers -> {"no", "open", "submitted"}] /\ pending'[c] = "no"
    /\ auth' \in [Peers -> AuthRecords] /\ auth'[c] = Resting
    /\ \A d \in Peers \ {c} :
          conn'[d] = conn[d] /\ pending'[d] = pending[d] /\ auth'[d] = auth[d]
    /\ UNCHANGED <<identities, leases, disconnected, tokens, grace, renewal, row, renewals, restarts,
                   ghosts>>

LEMMA JoinShape ==
    ASSUME CoreInv, NEW c \in Peers, Join(c)
    PROVE  Joins(c)
<1>1. TypeOK
    BY CoreParts
<1>2. auth' \in [Peers -> AuthRecords] /\ auth'[c] = Resting /\ \A d \in Peers \ {c} : auth'[d] = auth[d]
    BY AuthIs, RestingIs DEF Join
<1> QED
    BY <1>1, <1>2 DEF Join, Joins, Keep, TypeOK, Connections

LEMMA JoinsCore ==
    ASSUME CoreInv, NEW c \in Peers, Joins(c)
    PROVE  CoreInv'
<1>0. TypeOK /\ Links
    BY CoreParts
<1>1. TypeOK'
    BY <1>0 DEF Joins, TypeOK, AuthRecords, Connections, ghosts
<1>2. \A d \in Peers : HasEntered(d) => HasEntered(d)'
    BY RestingIs DEF HasEntered, Joins
<1>3. identities[c] # Nobody
    BY <1>0 DEF Joins, Links, PeersInv
<1>4. IdentitiesHoldLeases' /\ KeptInv'
    BY <1>0, <1>3 DEF Joins, Links, IdentitiesHoldLeases, KeptInv
<1>5. PeersInv'
    BY <1>0, <1>2, RestingIs DEF Joins, Links, PeersInv, NoCall
<1>6. RenewalInv'
    BY <1>0, <1>2 DEF Joins, Links, RenewalInv
<1> QED
    BY <1>1, <1>4, <1>5, <1>6 DEF CoreInv, SessionInv
-----------------------------------------------------------------------------
(* The grace.                                                                *)

SameEntry(e, f) == IF f = Nobody THEN e = Nobody ELSE e \in Saved /\ e.lease = f.lease

Ends(p) ==
    /\ disconnected' \in [Players -> Saved \cup {Nobody}]
    /\ disconnected[p] # Nobody
    /\ \A q \in Players : SameEntry(disconnected'[q], disconnected[q])
    /\ renewal' \in RenewalRecords
    /\ renewal'.loop = renewal.loop /\ renewal'.left = renewal.left
    /\ renewal'.key = renewal.key /\ renewal'.call = renewal.call
    /\ SameEntry(renewal'.saved, renewal.saved)
    /\ UNCHANGED <<conn, pending, identities, leases, tokens, auth, grace, row, renewals, restarts,
                   ghosts>>

LEMMA GraceEndsShape ==
    ASSUME CoreInv, NEW c \in Peers, GraceEnds(c)
    PROVE  \E p \in Players : Ends(p)
<1>0. TypeOK
    BY CoreParts
<1>1. PICK p \in Players :
          /\ disconnected[p] # Nobody
          /\ disconnected' = [disconnected EXCEPT ![p].over = TRUE]
          /\ renewal' = IF renewal.saved = disconnected[p] THEN [renewal EXCEPT !.saved.over = TRUE]
                        ELSE renewal
    BY DEF GraceEnds
<1>2. ASSUME NEW e \in Saved
      PROVE  [e EXCEPT !.over = TRUE] \in Saved /\ [e EXCEPT !.over = TRUE].lease = e.lease
    BY DEF Saved
<1>3. disconnected[p] \in Saved /\ renewal \in RenewalRecords
    BY <1>0, <1>1 DEF TypeOK, RenewalRecords
<1>4. /\ disconnected' \in [Players -> Saved \cup {Nobody}]
      /\ disconnected'[p] = [disconnected[p] EXCEPT !.over = TRUE]
      /\ \A q \in Players \ {p} : disconnected'[q] = disconnected[q]
    <2>1. [disconnected[p] EXCEPT !.over = TRUE] \in Saved
        BY <1>2, <1>3
    <2>2. disconnected' = [disconnected EXCEPT ![p] = [disconnected[p] EXCEPT !.over = TRUE]]
        BY <1>0, <1>1 DEF TypeOK
    <2> QED
        BY <1>0, <2>1, <2>2 DEF TypeOK
<1>5. \A q \in Players : SameEntry(disconnected'[q], disconnected[q])
    <2>1. SameEntry(disconnected'[p], disconnected[p])
        BY <1>2, <1>3, <1>4, NobodyIs DEF SameEntry
    <2>2. ASSUME NEW q \in Players \ {p} PROVE SameEntry(disconnected'[q], disconnected[q])
        <3>1. disconnected[q] \in Saved \cup {Nobody} /\ disconnected'[q] = disconnected[q]
            BY <1>0, <1>4 DEF TypeOK
        <3> QED
            BY <3>1 DEF SameEntry
    <2> QED
        BY <2>1, <2>2
<1>6. /\ renewal' \in RenewalRecords
      /\ renewal'.loop = renewal.loop /\ renewal'.left = renewal.left
      /\ renewal'.key = renewal.key /\ renewal'.call = renewal.call
      /\ SameEntry(renewal'.saved, renewal.saved)
    <2>1. CASE renewal.saved = disconnected[p]
        <3>1. renewal' = [renewal EXCEPT !.saved = [renewal.saved EXCEPT !.over = TRUE]]
            BY <1>1, <2>1
        <3>2. [renewal.saved EXCEPT !.over = TRUE] \in Saved
              /\ [renewal.saved EXCEPT !.over = TRUE].lease = renewal.saved.lease
            BY <1>2, <1>3, <2>1
        <3> QED
            BY <1>1, <1>3, <2>1, <3>1, <3>2 DEF RenewalRecords, SameEntry
    <2>2. CASE renewal.saved # disconnected[p]
        BY <1>1, <1>3, <2>2 DEF RenewalRecords, SameEntry
    <2> QED
        BY <2>1, <2>2
<1>7. UNCHANGED <<conn, pending, identities, leases, tokens, auth, grace, row, renewals, restarts,
                   ghosts>>
    BY DEF GraceEnds
<1> QED
    BY <1>1, <1>4, <1>5, <1>6, <1>7 DEF Ends

LEMMA EndsCore ==
    ASSUME CoreInv, NEW p \in Players, Ends(p)
    PROVE  CoreInv'
<1>0. TypeOK /\ Links
    BY CoreParts
<1>1. TypeOK'
    BY <1>0 DEF Ends, TypeOK, RenewalRecords, ghosts
<1>2. \A d \in Peers : HasEntered(d) <=> HasEntered(d)'
    BY DEF HasEntered, Ends
<1>3. IdentitiesHoldLeases' /\ PeersInv'
    BY <1>0, <1>2 DEF Ends, Links, IdentitiesHoldLeases, PeersInv
<1>4. KeptInv'
    BY <1>0 DEF Ends, Links, KeptInv, SameEntry
<1>5. RenewalInv'
    BY <1>0, <1>2, NobodyIs DEF Ends, Links, RenewalInv, SameEntry
<1> QED
    BY <1>1, <1>3, <1>4, <1>5 DEF CoreInv, SessionInv

(* The grace timer has found an entry that is over, or has no more to do.    *)
Expires(t, p) ==
    /\ disconnected[p] \in Saved
    /\ grace' \in [Ticks -> TickRecords]
    /\ grace'[t].call = "posted" /\ grace'[t].saved = disconnected[p]
    /\ \A u \in Ticks \ {t} : grace'[u] = grace[u]
    /\ disconnected' \in [Players -> Saved \cup {Nobody}] /\ disconnected'[p] = Nobody
    /\ tokens' \in [Players -> Peers \cup {Nobody}] /\ tokens'[p] = Nobody
    /\ \A q \in Players \ {p} : disconnected'[q] = disconnected[q] /\ tokens'[q] = tokens[q]
    /\ fate' \in [Peers -> {"unissued", "handed", "spent"}]
    /\ \A c \in Peers : fate'[c] = IF c = tokens[p] THEN "spent" ELSE fate[c]
    /\ UNCHANGED <<conn, pending, identities, leases, auth, renewal, row, renewals, restarts, lapsed,
                   excused>>

TickRests(t) ==
    /\ grace' \in [Ticks -> TickRecords] /\ grace'[t].call # "posted"
    /\ \A u \in Ticks \ {t} : grace'[u] = grace[u]
    /\ UNCHANGED <<memory, auth, renewal, row, renewals, restarts, ghosts>>

LEMMA ExpireOneShape ==
    ASSUME CoreInv, NEW t \in Ticks, NEW keys \in SUBSET Players, ExpireOne(t, keys),
           UNCHANGED <<auth, renewal, row, renewals, restarts, lapsed, excused>>
    PROVE  \E p \in Players : Expires(t, p)
<1>0. TypeOK
    BY CoreParts
<1> PICK p \in keys : \E passed \in SUBSET (PassedOver(keys) \ {p}) :
        /\ disconnected[p] # Nobody
        /\ grace' = [grace EXCEPT ![t] =
                       [at |-> "release", left |-> keys \ (passed \cup {p}),
                        saved |-> disconnected[p], call |-> "posted"]]
        /\ disconnected' = [disconnected EXCEPT ![p] = Nobody]
        /\ tokens' = [tokens EXCEPT ![p] = Nobody]
        /\ fate' = [c \in Peers |-> IF c = tokens[p] THEN "spent" ELSE fate[c]]
        /\ UNCHANGED <<conn, pending, identities, leases>>
    BY DEF ExpireOne
<1>1. PICK passed \in SUBSET (PassedOver(keys) \ {p}) :
        /\ disconnected[p] # Nobody
        /\ grace' = [grace EXCEPT ![t] =
                       [at |-> "release", left |-> keys \ (passed \cup {p}),
                        saved |-> disconnected[p], call |-> "posted"]]
        /\ disconnected' = [disconnected EXCEPT ![p] = Nobody]
        /\ tokens' = [tokens EXCEPT ![p] = Nobody]
        /\ fate' = [c \in Peers |-> IF c = tokens[p] THEN "spent" ELSE fate[c]]
        /\ UNCHANGED <<conn, pending, identities, leases>>
    OBVIOUS
<1> DEFINE new == [at |-> "release", left |-> keys \ (passed \cup {p}),
                   saved |-> disconnected[p], call |-> "posted"]
<1>2. p \in Players /\ disconnected[p] \in Saved
    BY <1>0, <1>1 DEF TypeOK
<1>3. new \in TickRecords /\ new.call = "posted" /\ new.saved = disconnected[p]
    BY <1>2 DEF TickRecords, Calls
<1> HIDE DEF new
<1>4. grace' = [grace EXCEPT ![t] = new]
    BY <1>1 DEF new
<1>5. grace' \in [Ticks -> TickRecords] /\ grace'[t] = new /\ \A u \in Ticks \ {t} : grace'[u] = grace[u]
    BY <1>0, <1>3, <1>4 DEF TypeOK, TickRecords
<1>6. /\ disconnected' \in [Players -> Saved \cup {Nobody}] /\ disconnected'[p] = Nobody
      /\ tokens' \in [Players -> Peers \cup {Nobody}] /\ tokens'[p] = Nobody
      /\ \A q \in Players \ {p} : disconnected'[q] = disconnected[q] /\ tokens'[q] = tokens[q]
      /\ fate' \in [Peers -> {"unissued", "handed", "spent"}]
      /\ \A c \in Peers : fate'[c] = IF c = tokens[p] THEN "spent" ELSE fate[c]
    BY <1>0, <1>1, <1>2 DEF TypeOK
<1> QED
    BY <1>1, <1>2, <1>3, <1>5, <1>6 DEF Expires

LEMMA TickCases ==
    ASSUME CoreInv, NEW t \in Ticks, TickDisconnected(t) \/ SeatReleased(t)
    PROVE  (\E p \in Players : Expires(t, p)) \/ TickRests(t)
<1>0. TypeOK
    BY CoreParts
<1>1. CASE TickDisconnected(t)
    BY <1>1, ExpireOneShape DEF TickDisconnected
<1>2. CASE SeatReleased(t) /\ ExpireOne(t, grace[t].left)
    <2>1. grace[t].left \in SUBSET Players
        BY <1>0 DEF TypeOK
    <2> QED
        BY <1>2, <2>1, ExpireOneShape DEF SeatReleased
<1>3. CASE SeatReleased(t) /\ ~ExpireOne(t, grace[t].left)
    <2>1. \/ grace' = [grace EXCEPT ![t] = NoTick]
          \/ grace' = [grace EXCEPT ![t] = BadTick]
        BY <1>3 DEF SeatReleased, FindNone, MissKey
    <2>2. UNCHANGED <<memory, auth, renewal, row, renewals, restarts, ghosts>>
        BY <1>3 DEF SeatReleased, FindNone, MissKey, ghosts
    <2>3. grace \in [Ticks -> TickRecords]
        BY <1>0 DEF TypeOK, TickRecords
    <2>4. grace' \in [Ticks -> TickRecords] /\ grace'[t].call # "posted"
          /\ \A u \in Ticks \ {t} : grace'[u] = grace[u]
        BY <2>1, <2>3, NoTickIs DEF NoCall
    <2> QED
        BY <2>2, <2>4 DEF TickRests
<1> QED
    BY <1>1, <1>2, <1>3

LEMMA ExpiresCore ==
    ASSUME CoreInv, NEW t \in Ticks, NEW p \in Players, Expires(t, p)
    PROVE  CoreInv'
<1>0. TypeOK /\ Links
    BY CoreParts
<1>1. TypeOK'
    BY <1>0 DEF Expires, TypeOK, TickRecords
<1>2. \A d \in Peers : HasEntered(d) <=> HasEntered(d)'
    BY DEF HasEntered, Expires
<1>3. IdentitiesHoldLeases' /\ PeersInv'
    BY <1>0, <1>2 DEF Expires, Links, IdentitiesHoldLeases, PeersInv
<1>4. KeptInv'
    BY <1>0, NobodyIs DEF Expires, Links, KeptInv
<1>5. RenewalInv'
    BY <1>0, <1>2 DEF Expires, Links, RenewalInv
<1> QED
    BY <1>1, <1>3, <1>4, <1>5 DEF CoreInv, SessionInv

LEMMA TickRestsCore ==
    ASSUME CoreInv, NEW t \in Ticks, TickRests(t)
    PROVE  CoreInv'
<1>0. TypeOK /\ Links
    BY CoreParts
<1>1. TypeOK'
    BY <1>0 DEF TickRests, TypeOK, TickRecords, memory, ghosts
<1>2. Links'
    BY <1>0 DEF TickRests, Links, IdentitiesHoldLeases, PeersInv, KeptInv, RenewalInv, HasEntered,
                memory
<1> QED
    BY <1>1, <1>2 DEF CoreInv, SessionInv, Links
-----------------------------------------------------------------------------
(* The renewals.                                                             *)

(* The coroutine r has its next key, a peer or a player of these, or ends.   *)
NextKey(r, held, kept) ==
    /\ r \in RenewalRecords
    /\ r.loop = "peers" =>
          /\ r.key \in Peers /\ r.left \subseteq Peers /\ held[r.key] # Nobody
          /\ r.saved \in Saved /\ r.saved.lease = held[r.key]
    /\ r.loop = "players" =>
          /\ r.key \in Players /\ r.left \subseteq Players
          /\ r.saved = kept[r.key] /\ r.saved \in Saved
    /\ r.call # NoCall => r.loop \in {"peers", "players"}

LEMMA RestsNext ==
    ASSUME NEW held, NEW kept
    PROVE  NextKey(NoRenewal, held, kept) /\ NextKey(BadRenewal, held, kept)
BY NoRenewalIs DEF NextKey

LEMMA RenewPlayerNext ==
    ASSUME NEW held, NEW kept \in [Players -> Saved \cup {Nobody}], NEW keys \in SUBSET Players,
           NEW r \in OrDone(RenewPlayer(kept, keys))
    PROVE  NextKey(r, held, kept)
<1>1. CASE r = NoRenewal
    BY <1>1, RestsNext
<1>2. CASE r # NoRenewal
    <2>1. PICK p \in keys :
             r = IF kept[p] = Nobody THEN BadRenewal
                 ELSE [loop |-> "players", left |-> keys \ {p}, key |-> p,
                       saved |-> kept[p], call |-> "posted"]
        BY <1>2 DEF OrDone, RenewPlayer
    <2>2. CASE kept[p] = Nobody
        BY <2>1, <2>2, RestsNext
    <2>3. CASE kept[p] # Nobody
        <3>1. kept[p] \in Saved
            BY <2>3
        <3> QED
            BY <2>1, <2>3, <3>1 DEF NextKey, RenewalRecords, Calls
    <2> QED
        BY <2>2, <2>3
<1> QED
    BY <1>1, <1>2

LEMMA RenewPeerNext ==
    ASSUME NEW held \in [Peers -> Lease \cup {Nobody}],
           NEW kept \in [Players -> Saved \cup {Nobody}], NEW keys \in SUBSET Peers,
           NEW r \in NextPeer(held, kept, keys)
    PROVE  NextKey(r, held, kept)
<1>1. CASE keys # {}
    <2>1. PICK c \in keys :
             r = IF held[c] = Nobody THEN BadRenewal
                 ELSE [loop |-> "peers", left |-> keys \ {c}, key |-> c,
                       saved |-> [from |-> c, lease |-> held[c], over |-> FALSE],
                       call |-> "posted"]
        BY <1>1 DEF NextPeer, RenewPeer
    <2>2. CASE held[c] = Nobody
        BY <2>1, <2>2, RestsNext
    <2>3. CASE held[c] # Nobody
        <3>1. held[c] \in Lease /\ [from |-> c, lease |-> held[c], over |-> FALSE] \in Saved
            BY <2>3 DEF Saved
        <3> QED
            BY <2>1, <2>3, <3>1 DEF NextKey, RenewalRecords, Calls
    <2> QED
        BY <2>2, <2>3
<1>2. CASE keys = {}
    <2>1. {p \in Players : kept[p] # Nobody} \in SUBSET Players
        OBVIOUS
    <2>2. r \in OrDone(RenewPlayer(kept, {p \in Players : kept[p] # Nobody}))
        BY <1>2 DEF NextPeer
    <2> QED
        BY <2>1, <2>2, RenewPlayerNext
<1> QED
    BY <1>1, <1>2

LEMMA NextKeyCore ==
    ASSUME IdentitiesHoldLeases', PeersInv', KeptInv', NextKey(renewal', leases', disconnected')
    PROVE  RenewalInv'
BY NobodyIs DEF IdentitiesHoldLeases, PeersInv, KeptInv, NextKey, RenewalInv

(* The steps of the coroutine that change no dictionary.                     *)
RenewalRests ==
    /\ NextKey(renewal', leases, disconnected)
    /\ renewals' \in 0..MaxRenewals
    /\ UNCHANGED <<memory, auth, grace, row, restarts, ghosts>>

LEMMA RenewalRestsShape ==
    ASSUME CoreInv, RenewSessions \/ PeerNotRenewed \/ PlayerNotRenewed
    PROVE  RenewalRests
<1>0. TypeOK /\ Links
    BY CoreParts
<1>1. leases \in [Peers -> Lease \cup {Nobody}] /\ disconnected \in [Players -> Saved \cup {Nobody}]
    BY <1>0 DEF TypeOK
<1>2. CASE RenewSessions
    <2>1. {c \in Peers : leases[c] # Nobody} \in SUBSET Peers
        OBVIOUS
    <2>2. NextKey(renewal', leases, disconnected)
        BY <1>1, <1>2, <2>1, RenewPeerNext DEF RenewSessions
    <2>3. renewals' \in 0..MaxRenewals
        BY <1>0, <1>2, NobodyIs DEF RenewSessions, TypeOK
    <2> QED
        BY <1>2, <2>2, <2>3 DEF RenewSessions, RenewalRests
<1>3. CASE PeerNotRenewed
    <2>1. renewal.left \in SUBSET Peers
        BY <1>0, <1>3 DEF PeerNotRenewed, Links, RenewalInv
    <2>2. NextKey(renewal', leases, disconnected)
        BY <1>1, <1>3, <2>1, RenewPeerNext, RestsNext DEF PeerNotRenewed
    <2> QED
        BY <1>0, <1>3, <2>2 DEF PeerNotRenewed, RenewalRests, TypeOK
<1>4. CASE PlayerNotRenewed
    <2>1. renewal.left \in SUBSET Players
        BY <1>0, <1>4 DEF PlayerNotRenewed, Links, RenewalInv
    <2>2. NextKey(renewal', leases, disconnected)
        BY <1>1, <1>4, <2>1, RenewPlayerNext DEF PlayerNotRenewed
    <2> QED
        BY <1>0, <1>4, <2>2 DEF PlayerNotRenewed, RenewalRests, TypeOK
<1> QED
    BY <1>2, <1>3, <1>4

LEMMA RenewalRestsCore ==
    ASSUME CoreInv, RenewalRests
    PROVE  CoreInv'
<1>0. TypeOK /\ Links
    BY CoreParts
<1>1. TypeOK'
    BY <1>0 DEF RenewalRests, NextKey, TypeOK, RenewalRecords, memory, ghosts
<1>2. IdentitiesHoldLeases' /\ PeersInv' /\ KeptInv'
    BY <1>0 DEF RenewalRests, Links, IdentitiesHoldLeases, PeersInv, KeptInv, HasEntered, memory
<1>3. RenewalInv'
    BY <1>2, NextKeyCore DEF RenewalRests, memory
<1> QED
    BY <1>1, <1>2, <1>3 DEF CoreInv, SessionInv

(* The lease of a peer that is put back is the one it has, if it is there.   *)
PutsLeaseBack(c) ==
    /\ c \in Peers
    /\ leases' \in [Peers -> Lease \cup {Nobody}]
    /\ identities[c] # Nobody => leases'[c] = leases[c]
    /\ HasEntered(c)
    /\ \A d \in Peers \ {c} : leases'[d] = leases[d]
    /\ NextKey(renewal', leases', disconnected)
    /\ UNCHANGED <<conn, pending, identities, disconnected, tokens, auth, grace, row, renewals,
                   restarts, ghosts>>

LEMMA PeerRenewedShape ==
    ASSUME CoreInv, PeerRenewed
    PROVE  PutsLeaseBack(renewal.key)
<1> DEFINE held == [leases EXCEPT ![renewal.key] = renewal.saved.lease]
<1>0. TypeOK /\ Links
    BY CoreParts
<1>1. /\ renewal.loop = "peers" /\ renewal.key \in Peers /\ renewal.left \in SUBSET Peers
      /\ HasEntered(renewal.key) /\ renewal.saved # Nobody
      /\ identities[renewal.key] # Nobody => renewal.saved.lease = leases[renewal.key]
    BY <1>0 DEF PeerRenewed, Links, RenewalInv
<1>2. renewal.saved.lease \in Lease
    BY <1>0, <1>1 DEF TypeOK, Saved
<1>3. /\ held \in [Peers -> Lease \cup {Nobody}] /\ held[renewal.key] = renewal.saved.lease
      /\ \A d \in Peers \ {renewal.key} : held[d] = leases[d]
    BY <1>0, <1>1, <1>2 DEF TypeOK
<1>4. leases' = held /\ renewal' \in NextPeer(held, disconnected, renewal.left)
    BY DEF PeerRenewed
<1>5. disconnected \in [Players -> Saved \cup {Nobody}]
    BY <1>0 DEF TypeOK
<1> HIDE DEF held
<1>6. NextKey(renewal', held, disconnected)
    BY <1>1, <1>3, <1>4, <1>5, RenewPeerNext
<1> QED
    BY <1>1, <1>3, <1>4, <1>6 DEF PutsLeaseBack, PeerRenewed

LEMMA PutsLeaseBackCore ==
    ASSUME CoreInv, NEW c, PutsLeaseBack(c)
    PROVE  CoreInv'
<1>0. TypeOK /\ Links
    BY CoreParts
<1>1. TypeOK'
    BY <1>0 DEF PutsLeaseBack, NextKey, TypeOK, RenewalRecords, ghosts
<1>2. \A d \in Peers : HasEntered(d) <=> HasEntered(d)'
    BY DEF HasEntered, PutsLeaseBack
<1>3. IdentitiesHoldLeases' /\ PeersInv' /\ KeptInv'
    BY <1>0, <1>2 DEF PutsLeaseBack, Links, IdentitiesHoldLeases, PeersInv, KeptInv
<1>4. RenewalInv'
    BY <1>3, NextKeyCore DEF PutsLeaseBack
<1> QED
    BY <1>1, <1>3, <1>4 DEF CoreInv, SessionInv

(* The entry of a player that is put back may be another than there is.      *)
PutsEntryBack(p) ==
    /\ p \in Players
    /\ disconnected' \in [Players -> Saved \cup {Nobody}]
    /\ disconnected'[p] \in Saved /\ disconnected'[p].lease.player = p
    /\ \A q \in Players \ {p} : disconnected'[q] = disconnected[q]
    /\ \/ disconnected'[p] = disconnected[p] /\ excused' = excused
       \/ excused' = excused \cup {p}
    /\ NextKey(renewal', leases, disconnected')
    /\ UNCHANGED <<conn, pending, identities, leases, tokens, auth, grace, row, renewals, restarts,
                   fate, lapsed>>

LEMMA PlayerRenewedShape ==
    ASSUME CoreInv, PlayerRenewed
    PROVE  PutsEntryBack(renewal.key)
<1> DEFINE p == renewal.key
           kept == [disconnected EXCEPT ![p] = renewal.saved]
<1>0. TypeOK /\ Links
    BY CoreParts
<1>1. /\ p \in Players /\ renewal.left \in SUBSET Players
      /\ renewal.saved # Nobody /\ renewal.saved.lease.player = p
    BY <1>0 DEF PlayerRenewed, Links, RenewalInv
<1>2. renewal.saved \in Saved
    BY <1>0, <1>1 DEF TypeOK
<1>3. /\ kept \in [Players -> Saved \cup {Nobody}] /\ kept[p] = renewal.saved
      /\ \A q \in Players \ {p} : kept[q] = disconnected[q]
    BY <1>0, <1>1, <1>2 DEF TypeOK
<1>4. /\ disconnected' = kept /\ renewal' \in OrDone(RenewPlayer(kept, renewal.left))
      /\ excused' = IF disconnected[p] = renewal.saved THEN excused ELSE excused \cup {p}
    BY DEF PlayerRenewed
<1> HIDE DEF kept, p
<1>5. NextKey(renewal', leases, kept)
    BY <1>1, <1>3, <1>4, RenewPlayerNext
<1> QED
    BY <1>1, <1>2, <1>3, <1>4, <1>5 DEF PutsEntryBack, PlayerRenewed, p

LEMMA PutsEntryBackCore ==
    ASSUME CoreInv, NEW p, PutsEntryBack(p)
    PROVE  CoreInv'
<1>0. TypeOK /\ Links
    BY CoreParts
<1>1. TypeOK'
    BY <1>0 DEF PutsEntryBack, NextKey, TypeOK, RenewalRecords
<1>2. IdentitiesHoldLeases' /\ PeersInv' /\ KeptInv'
    BY <1>0 DEF PutsEntryBack, Links, IdentitiesHoldLeases, PeersInv, KeptInv, HasEntered
<1>3. RenewalInv'
    BY <1>2, NextKeyCore DEF PutsEntryBack
<1> QED
    BY <1>1, <1>2, <1>3 DEF CoreInv, SessionInv

(* The call of the coroutine is answered or lost; acquisitions see a lease   *)
(* begin.                                                                    *)
RenewalAnswered ==
    /\ auth' \in [Peers -> AuthRecords]
    /\ \A d \in Peers : SameCall(auth'[d], auth[d])
    /\ renewal.call = "posted"
    /\ renewal' \in RenewalRecords
    /\ renewal'.loop = renewal.loop /\ renewal'.left = renewal.left
    /\ renewal'.key = renewal.key /\ renewal'.saved = renewal.saved
    /\ UNCHANGED <<memory, grace, row, renewals, restarts, ghosts>>

LEMMA RenewalAnsweredShape ==
    ASSUME CoreInv, ServeRenewal \/ LoseRenewal
    PROVE  RenewalAnswered
<1>0. TypeOK /\ Links
    BY CoreParts
<1>1. renewal \in RenewalRecords /\ renewal.call = "posted" /\ renewal.saved \in Saved
    BY <1>0, NobodyIs DEF ServeRenewal, LoseRenewal, Links, RenewalInv, TypeOK, RenewalRecords, NoCall
<1>2. renewal.saved.lease.player \in Players
    BY <1>1 DEF Saved, Lease
<1>3. auth' \in [Peers -> AuthRecords] /\ \A d \in Peers : SameCall(auth'[d], auth[d])
    <2>1. CASE ServeRenewal
        BY <1>2, <2>1, AuthIs, BeginsShape DEF ServeRenewal
    <2>2. CASE LoseRenewal
        BY <2>2, AuthIs DEF LoseRenewal
    <2> QED
        BY <2>1, <2>2
<1>4. \E answer \in {"ok", "failed"} : renewal' = [renewal EXCEPT !.call = answer]
    BY DEF ServeRenewal, LoseRenewal
<1>5. /\ renewal' \in RenewalRecords
      /\ renewal'.loop = renewal.loop /\ renewal'.left = renewal.left
      /\ renewal'.key = renewal.key /\ renewal'.saved = renewal.saved
    BY <1>1, <1>4 DEF RenewalRecords, Calls
<1> QED
    BY <1>1, <1>3, <1>5 DEF RenewalAnswered, ServeRenewal, LoseRenewal

LEMMA RenewalAnsweredCore ==
    ASSUME CoreInv, RenewalAnswered
    PROVE  CoreInv'
<1>0. TypeOK /\ Links
    BY CoreParts
<1>1. TypeOK'
    BY <1>0 DEF RenewalAnswered, TypeOK, AuthRecords, RenewalRecords, memory, ghosts
<1>2. \A d \in Peers : HasEntered(d) <=> HasEntered(d)'
    BY DEF HasEntered, RenewalAnswered, SameCall, memory
<1>3. IdentitiesHoldLeases' /\ KeptInv'
    BY <1>0 DEF RenewalAnswered, Links, IdentitiesHoldLeases, KeptInv, memory
<1>4. PeersInv'
    BY <1>0, <1>2 DEF RenewalAnswered, Links, PeersInv, SameCall, memory
<1>5. RenewalInv'
    BY <1>0, <1>2 DEF RenewalAnswered, Links, RenewalInv, memory, NoCall
<1> QED
    BY <1>1, <1>3, <1>4, <1>5 DEF CoreInv, SessionInv
-----------------------------------------------------------------------------
(* The Backend, and the end of the process.                                  *)

(* A release ends, with or without its effect.                               *)
ReleaseEnds(t) ==
    /\ grace[t].call = "posted" /\ grace[t].saved \in Saved
    /\ grace' \in [Ticks -> TickRecords] /\ grace'[t].call # "posted"
    /\ \A u \in Ticks \ {t} : grace'[u] = grace[u]
    /\ row' \in [Players -> [token : 0..MaxToken, live : BOOLEAN]]
    /\ \A p \in Players : p # grace[t].saved.lease.player => row'[p] = row[p]
    /\ excused' \subseteq Players /\ excused \subseteq excused'
    /\ LET p == grace[t].saved.lease.player IN row'[p] = row[p] \/ (p \in lapsed => p \in excused')
    /\ UNCHANGED <<memory, auth, renewal, renewals, restarts, fate, lapsed>>

LEMMA ReleaseEndsShape ==
    ASSUME CoreInv, NEW t \in Ticks, ServeRelease(t) \/ LoseRelease(t)
    PROVE  ReleaseEnds(t)
<1>0. TypeOK /\ Links
    BY CoreParts
<1>1. grace[t].call = "posted" /\ grace[t] \in TickRecords /\ grace[t].saved \in Saved
    BY <1>0 DEF ServeRelease, LoseRelease, Links, KeptInv, TypeOK, TickRecords
<1>2. \E answer \in {"ok", "failed"} : grace' = [grace EXCEPT ![t] = [grace[t] EXCEPT !.call = answer]]
    BY <1>0 DEF ServeRelease, LoseRelease, TypeOK
<1>3. \A answer \in {"ok", "failed"} :
         [grace[t] EXCEPT !.call = answer] \in TickRecords /\ [grace[t] EXCEPT !.call = answer].call = answer
    BY <1>1 DEF TickRecords, Calls
<1>4. grace \in [Ticks -> TickRecords]
    BY <1>0 DEF TypeOK, TickRecords
<1>5. grace' \in [Ticks -> TickRecords] /\ grace'[t].call # "posted"
      /\ \A u \in Ticks \ {t} : grace'[u] = grace[u]
    BY <1>2, <1>3, <1>4
<1>6. NoRow \in [token : 0..MaxToken, live : BOOLEAN] /\ grace[t].saved.lease.player \in Players
    BY <1>1, NobodyIs DEF NoRow, Saved, Lease
<1>7. /\ row' \in [Players -> [token : 0..MaxToken, live : BOOLEAN]]
      /\ \A p \in Players : p # grace[t].saved.lease.player => row'[p] = row[p]
    BY <1>0, <1>6 DEF ServeRelease, LoseRelease, TypeOK
<1>8. /\ excused' \subseteq Players /\ excused \subseteq excused'
      /\ LET p == grace[t].saved.lease.player IN row'[p] = row[p] \/ (p \in lapsed => p \in excused')
      /\ UNCHANGED <<memory, auth, renewal, renewals, restarts, fate, lapsed>>
    BY <1>0 DEF ServeRelease, LoseRelease, TypeOK, ghosts
<1> QED
    BY <1>1, <1>5, <1>7, <1>8 DEF ReleaseEnds

LEMMA ReleaseEndsCore ==
    ASSUME CoreInv, NEW t \in Ticks, ReleaseEnds(t)
    PROVE  CoreInv'
<1>0. TypeOK /\ Links
    BY CoreParts
<1>1. TypeOK'
    BY <1>0 DEF ReleaseEnds, TypeOK, TickRecords, memory, ghosts
<1>2. Links'
    BY <1>0 DEF ReleaseEnds, Links, IdentitiesHoldLeases, PeersInv, KeptInv, RenewalInv, HasEntered,
                memory
<1> QED
    BY <1>1, <1>2 DEF CoreInv, SessionInv, Links

LEMMA LapseCore ==
    ASSUME CoreInv, NEW p \in Players, Lapse(p)
    PROVE  CoreInv'
<1>0. TypeOK /\ Links
    BY CoreParts
<1>1. [row[p] EXCEPT !.live = FALSE] \in [token : 0..MaxToken, live : BOOLEAN]
    <2>1. row[p] \in [token : 0..MaxToken, live : BOOLEAN]
        BY <1>0 DEF TypeOK
    <2> QED
        BY <2>1
<1>2. row' = [row EXCEPT ![p] = [row[p] EXCEPT !.live = FALSE]]
    BY <1>0 DEF Lapse, TypeOK
<1>3. TypeOK'
    BY <1>0, <1>1, <1>2 DEF Lapse, TypeOK, memory
<1>4. Links'
    BY <1>0 DEF Lapse, Links, IdentitiesHoldLeases, PeersInv, KeptInv, RenewalInv, HasEntered, memory
<1> QED
    BY <1>3, <1>4 DEF CoreInv, SessionInv, Links

LEMMA RestartCore ==
    ASSUME CoreInv, Restart
    PROVE  CoreInv'
<1>0. TypeOK /\ Links
    BY CoreParts
<1>1. conn' \in [Peers -> Connections] /\ fate' \in [Peers -> {"unissued", "handed", "spent"}]
    BY <1>0 DEF Restart, TypeOK, Connections
<1>2. restarts' \in 0..MaxRestarts
    BY <1>0, NobodyIs DEF Restart, TypeOK
<1>3. /\ auth' \in [Peers -> AuthRecords] /\ grace' \in [Ticks -> TickRecords]
      /\ renewal' \in RenewalRecords
    BY RestingIs, NoTickIs, NoRenewalIs DEF Restart
<1>4. TypeOK'
    BY <1>0, <1>1, <1>2, <1>3 DEF Restart, TypeOK, Connections, AuthRecords, TickRecords,
                                  RenewalRecords
<1>5. /\ \A c \in Peers : /\ identities'[c] = Nobody /\ leases'[c] = Nobody /\ pending'[c] = "no"
                          /\ conn'[c] \in {"new", "gone"} /\ auth'[c] = Resting
      /\ \A p \in Players : disconnected'[p] = Nobody
      /\ \A t \in Ticks : grace'[t] = NoTick
      /\ renewal' = NoRenewal
    BY DEF Restart
<1>6. Links'
    BY <1>5, RestingIs, NoTickIs, NoRenewalIs
       DEF Links, IdentitiesHoldLeases, PeersInv, KeptInv, RenewalInv, NoCall
<1> QED
    BY <1>4, <1>6 DEF CoreInv, SessionInv, Links

LEMMA CoreStutters == CoreInv /\ UNCHANGED vars => CoreInv'
BY DEF vars, memory, ghosts, CoreInv, SessionInv, TypeOK, IdentitiesHoldLeases, PeersInv, KeptInv,
       RenewalInv, HasEntered

(* What a step may do, whoever takes it.                                     *)
Steps ==
    \/ \E c \in Peers :
          \/ Departs(c) \/ Opens(c) \/ SubmitTicket(c) \/ Joins(c)
          \/ GivesUp(c) \/ Grants(c) \/ LosesAcquire(c)
    \/ \E c \in Peers, p \in Players : Asks(c, p) \/ Enters(c, p) \/ Issues(c, p)
    \/ \E c, t \in Peers, p \in Players : Resume(c, t, p) \/ ResumeLate(c, t, p)
    \/ \E p \in Players : Ends(p) \/ Lapse(p)
    \/ \E t \in Ticks, p \in Players : Expires(t, p)
    \/ \E t \in Ticks : TickRests(t) \/ ReleaseEnds(t)
    \/ RenewalRests \/ RenewalAnswered
    \/ \E c \in Peers : PutsLeaseBack(c)
    \/ \E p \in Players : PutsEntryBack(p)
    \/ Restart

LEMMA NextSteps ==
    ASSUME CoreInv, Next
    PROVE  Steps
<1>1. ASSUME NEW c \in Peers, PeerStep(c) PROVE Steps
    <2>1. CASE Connect(c)
        BY <2>1, ConnectCases DEF Steps
    <2>2. CASE Drop(c) \/ RefusePacket(c)
        BY <2>2, DropDeparts, RefuseDeparts DEF Steps
    <2>3. CASE SubmitTicket(c)
        BY <2>3 DEF Steps
    <2>4. ASSUME NEW t \in Peers, NEW p \in Players, Resume(c, t, p) \/ ResumeLate(c, t, p)
          PROVE  Steps
        BY <2>4 DEF Steps
    <2>5. CASE Join(c)
        BY <2>5, JoinShape DEF Steps
    <2>6. CASE GraceEnds(c)
        BY <2>6, GraceEndsShape DEF Steps
    <2> QED
        BY <1>1, <2>1, <2>2, <2>3, <2>4, <2>5, <2>6 DEF PeerStep
<1>2. ASSUME NEW c \in Peers, AuthStep(c) PROVE Steps
    <2>1. ASSUME NEW p \in Players, Redeemed(c, p) PROVE Steps
        BY <2>1, RedeemedCases DEF Steps
    <2>2. CASE Acquired(c)
        BY <2>2, AcquiredShape DEF Steps
    <2>3. CASE AuthFailed(c)
        BY <2>3, AuthFailedCases DEF Steps
    <2>4. CASE Authenticated(c)
        BY <2>4, AuthenticatedShape DEF Steps
    <2>5. CASE ServeAcquire(c) \/ LoseAcquire(c)
        BY <2>5, ServeAcquireShape, LoseAcquireShape DEF Steps
    <2> QED
        BY <1>2, <2>1, <2>2, <2>3, <2>4, <2>5 DEF AuthStep
<1>3. ASSUME NEW t \in Ticks, TickStep(t) PROVE Steps
    <2>1. CASE TickDisconnected(t) \/ SeatReleased(t)
        BY <2>1, TickCases DEF Steps
    <2>2. CASE ServeRelease(t) \/ LoseRelease(t)
        BY <2>2, ReleaseEndsShape DEF Steps
    <2> QED
        BY <1>3, <2>1, <2>2 DEF TickStep
<1>4. CASE RenewalStep
    <2>1. CASE RenewSessions \/ PeerNotRenewed \/ PlayerNotRenewed
        BY <2>1, RenewalRestsShape DEF Steps
    <2>2. CASE PeerRenewed
        BY <2>2, PeerRenewedShape DEF Steps, PutsLeaseBack
    <2>3. CASE PlayerRenewed
        BY <2>3, PlayerRenewedShape DEF Steps, PutsEntryBack
    <2>4. CASE ServeRenewal \/ LoseRenewal
        BY <2>4, RenewalAnsweredShape DEF Steps
    <2> QED
        BY <1>4, <2>1, <2>2, <2>3, <2>4 DEF RenewalStep
<1>5. CASE (\E p \in Players : Lapse(p)) \/ Restart
    BY <1>5 DEF Steps
<1> QED
    BY <1>1, <1>2, <1>3, <1>4, <1>5 DEF Next

LEMMA CoreStep == CoreInv /\ [Next]_vars => CoreInv'
<1> SUFFICES ASSUME CoreInv, Steps \/ UNCHANGED vars PROVE CoreInv'
    BY NextSteps
<1>1. ASSUME NEW c \in Peers,
             \/ Departs(c) \/ Opens(c) \/ SubmitTicket(c) \/ Joins(c)
             \/ GivesUp(c) \/ Grants(c) \/ LosesAcquire(c)
      PROVE  CoreInv'
    BY <1>1, DepartsCore, OpensCore, SubmitCore, JoinsCore, AskingCore, ServeAcquireCore,
       LoseAcquireCore
<1>2. ASSUME NEW c \in Peers, NEW p \in Players, Asks(c, p) \/ Enters(c, p) \/ Issues(c, p)
      PROVE  CoreInv'
    BY <1>2, AskingCore, EntersCore, IssuesCore
<1>3. ASSUME NEW c \in Peers, NEW t \in Peers, NEW p \in Players,
             Resume(c, t, p) \/ ResumeLate(c, t, p)
      PROVE  CoreInv'
    BY <1>3, ResumeCore, ResumeLateCore
<1>4. ASSUME NEW p \in Players, Ends(p) \/ Lapse(p) \/ PutsEntryBack(p) PROVE CoreInv'
    BY <1>4, EndsCore, LapseCore, PutsEntryBackCore
<1>5. ASSUME NEW t \in Ticks, NEW p \in Players, Expires(t, p) PROVE CoreInv'
    BY <1>5, ExpiresCore
<1>6. ASSUME NEW t \in Ticks, TickRests(t) \/ ReleaseEnds(t) PROVE CoreInv'
    BY <1>6, TickRestsCore, ReleaseEndsCore
<1>7. CASE RenewalRests \/ RenewalAnswered \/ (\E c \in Peers : PutsLeaseBack(c)) \/ Restart
    BY <1>7, RenewalRestsCore, RenewalAnsweredCore, PutsLeaseBackCore, RestartCore
<1>8. CASE UNCHANGED vars
    BY <1>8, CoreStutters
<1> QED
    BY <1>1, <1>2, <1>3, <1>4, <1>5, <1>6, <1>7, <1>8 DEF Steps

(* The dictionaries and the coroutines agree.                                *)
THEOREM SessionCore == Spec => []CoreInv
<1> QED
    BY CoreInit, CoreStep, PTL DEF Spec

(* Every player the server knows a peer for has a lease under that peer, and *)
(* every peer in the game a player (server.gd:378, 447, 475).                *)
THEOREM SessionSafe == Spec => []SessionInv
<1>1. CoreInv => SessionInv
    BY DEF CoreInv
<1> QED
    BY <1>1, SessionCore, PTL
-----------------------------------------------------------------------------
(* The reconnect tokens.                                                     *)

(* A peer that has had its token, or gets none any more.                     *)
Settled(c) == HasEntered(c) /\ auth[c].at # "reading"

LEMMA TokensKept ==
    ASSUME TokensInv, UNCHANGED <<tokens, fate>>,
           \A c \in Peers : Settled(c) => Settled(c)'
    PROVE  TokensInv'
BY DEF TokensInv, TokensUsedOnce, Settled

(* The steps that hand out no token and take none back.                      *)
LEMMA PeersSettle ==
    ASSUME CoreInv, NEW c \in Peers,
           \/ Departs(c) \/ Opens(c) \/ SubmitTicket(c) \/ Joins(c)
           \/ GivesUp(c) \/ Grants(c) \/ LosesAcquire(c)
           \/ \E p \in Players : Asks(c, p) \/ Enters(c, p)
    PROVE  UNCHANGED <<tokens, fate>> /\ \A d \in Peers : Settled(d) => Settled(d)'
<1>1. CASE Departs(c)
    BY <1>1, RestingIs DEF Departs, Settled, HasEntered, SameCall, ghosts
<1>2. CASE Opens(c)
    BY <1>2, CoreParts DEF Opens, Settled, HasEntered, ghosts, TypeOK
<1>3. CASE SubmitTicket(c)
    BY <1>3, AuthIs, CoreParts DEF SubmitTicket, Settled, HasEntered, ghosts, TypeOK
<1>4. CASE Joins(c)
    BY <1>4, RestingIs DEF Joins, Settled, HasEntered, ghosts
<1>5. CASE GivesUp(c) \/ Grants(c) \/ LosesAcquire(c) \/ (\E p \in Players : Asks(c, p))
    BY <1>5, RestingIs DEF GivesUp, Grants, LosesAcquire, Asks, AuthGoes, Settled, HasEntered, SameCall,
                           memory
<1>6. ASSUME NEW p \in Players, Enters(c, p)
      PROVE  UNCHANGED <<tokens, fate>> /\ \A d \in Peers : Settled(d) => Settled(d)'
    BY <1>6 DEF Enters, Settled, HasEntered, SameCall, ghosts
<1> QED
    BY <1>1, <1>2, <1>3, <1>4, <1>5, <1>6

LEMMA OthersSettle ==
    ASSUME \/ \E p \in Players : Ends(p) \/ Lapse(p) \/ PutsEntryBack(p)
           \/ \E t \in Ticks : TickRests(t) \/ ReleaseEnds(t)
           \/ RenewalRests \/ RenewalAnswered
           \/ \E c \in Peers : PutsLeaseBack(c)
           \/ UNCHANGED vars
    PROVE  UNCHANGED <<tokens, fate>> /\ \A d \in Peers : Settled(d) => Settled(d)'
BY DEF Ends, Lapse, PutsEntryBack, TickRests, ReleaseEnds, RenewalRests, RenewalAnswered,
       PutsLeaseBack, Settled, HasEntered, SameCall, memory, ghosts, vars

(* A token that is handed out is new; the one it replaces is spent.          *)
LEMMA IssuesTokens ==
    ASSUME CoreInv, TokensInv, NEW c \in Peers, NEW p \in Players, Issues(c, p)
    PROVE  TokensInv'
<1>1. \A q \in Players : tokens[q] # c
    BY DEF TokensInv, Issues
<1>2. fate[c] = "unissued" /\ fate'[c] # "spent"
    BY <1>1, CoreParts DEF TokensInv, Issues, TypeOK
<1>3. \A d \in Peers : Settled(d) => Settled(d)'
    BY DEF Issues, Settled, HasEntered
<1>4. Settled(c)'
    <2>1. HasEntered(c)
        <3>1. pending[c] # "open" /\ conn[c] # "new" /\ auth[c].at = "reading"
            BY CoreParts DEF Issues, Links, PeersInv
        <3> QED
            BY <3>1 DEF HasEntered
    <2> QED
        BY <2>1 DEF Issues, Settled, HasEntered
<1>5. \A q, r \in Players : q # r /\ tokens'[q] # Nobody => tokens'[q] # tokens'[r]
    BY <1>1 DEF TokensInv, Issues
<1>6. ASSUME NEW d \in Peers, fate'[d] # "unissued" \/ (\E q \in Players : tokens'[q] = d)
      PROVE  Settled(d)'
    <2>1. d = c \/ fate[d] # "unissued" \/ (\E q \in Players : tokens[q] = d)
        BY <1>6 DEF Issues
    <2>2. d = c \/ Settled(d)
        BY <2>1 DEF TokensInv, Settled
    <2> QED
        BY <1>3, <1>4, <2>2
<1>7. TokensUsedOnce'
    <2>1. ASSUME NEW q \in Players \ {p}, tokens[q] # Nobody
          PROVE  tokens[q] # tokens[p] /\ tokens[q] # c /\ fate[tokens[q]] # "spent" /\ tokens[q] \in Peers
        BY <1>1, <2>1, CoreParts DEF TokensInv, TokensUsedOnce, TypeOK
    <2> QED
        BY <1>2, <2>1 DEF TokensUsedOnce, Issues
<1> QED
    BY <1>5, <1>6, <1>7 DEF TokensInv, Settled

LEMMA ResumeTokens ==
    ASSUME CoreInv, TokensInv, NEW c \in Peers, NEW t \in Peers, NEW p \in Players, Resume(c, t, p)
    PROVE  TokensInv'
<1>1. /\ pending[c] = "open" /\ tokens[p] = t /\ fate[t] # "unissued"
      /\ tokens'[p] = c /\ \A q \in Players \ {p} : tokens'[q] = tokens[q]
    BY ResumeShape
<1>2. ~Settled(c)
    BY <1>1 DEF Settled, HasEntered
<1>3. \A q \in Players : tokens[q] # c
    BY <1>2 DEF TokensInv, Settled
<1>4. /\ fate'[c] = "handed"
      /\ c # t /\ fate'[t] = "spent" /\ \A d \in Peers \ {c, t} : fate'[d] = fate[d]
    <2>1. c # t
        BY <1>1, <1>3
    <2>2. fate' = [fate EXCEPT ![t] = "spent", ![c] = "handed"]
        BY DEF Resume
    <2> QED
        BY <2>1, <2>2, CoreParts DEF TypeOK
<1>5. (\A d \in Peers : Settled(d) => Settled(d)') /\ Settled(c)'
    BY <1>2, ResumeShape DEF Settled, HasEntered
<1>6. \A q, r \in Players : q # r /\ tokens'[q] # Nobody => tokens'[q] # tokens'[r]
    BY <1>1, <1>3 DEF TokensInv
<1>7. ASSUME NEW d \in Peers, fate'[d] # "unissued" \/ (\E q \in Players : tokens'[q] = d)
      PROVE  Settled(d)'
    <2>1. d = c \/ fate[d] # "unissued" \/ (\E q \in Players : tokens[q] = d)
        BY <1>1, <1>4, <1>7
    <2>2. d = c \/ Settled(d)
        BY <2>1 DEF TokensInv, Settled
    <2> QED
        BY <1>5, <2>2
<1>8. TokensUsedOnce'
    <2>1. ASSUME NEW q \in Players \ {p}, tokens[q] # Nobody
          PROVE  tokens[q] \in Peers \ {c, t} /\ fate[tokens[q]] # "spent"
        BY <1>1, <1>3, <2>1, CoreParts DEF TokensInv, TokensUsedOnce, TypeOK
    <2> QED
        BY <1>1, <1>4, <2>1 DEF TokensUsedOnce
<1> QED
    BY <1>6, <1>7, <1>8 DEF TokensInv, Settled

(* The token of an entry that ends is spent, and no other one is.            *)
LEMMA TokenTaken ==
    ASSUME CoreInv, TokensInv, NEW p \in Players,
           tokens'[p] = Nobody, \A q \in Players \ {p} : tokens'[q] = tokens[q],
           \A d \in Peers : fate'[d] = IF d = tokens[p] THEN "spent" ELSE fate[d],
           \A d \in Peers : Settled(d) => Settled(d)'
    PROVE  TokensInv'
<1>1. \A q, r \in Players : q # r /\ tokens'[q] # Nobody => tokens'[q] # tokens'[r]
    BY DEF TokensInv
<1>2. ASSUME NEW d \in Peers, fate'[d] # "unissued" \/ (\E q \in Players : tokens'[q] = d)
      PROVE  Settled(d)'
    <2>1. fate[d] # "unissued" \/ (\E q \in Players : tokens[q] = d)
        BY <1>2, NobodyIs
    <2> QED
        BY <2>1 DEF TokensInv, Settled
<1>3. TokensUsedOnce'
    <2>1. ASSUME NEW q \in Players \ {p}, tokens[q] # Nobody
          PROVE  tokens[q] \in Peers /\ tokens[q] # tokens[p] /\ fate[tokens[q]] # "spent"
        BY <2>1, CoreParts DEF TokensInv, TokensUsedOnce, TypeOK
    <2> QED
        BY <2>1 DEF TokensUsedOnce
<1> QED
    BY <1>1, <1>2, <1>3 DEF TokensInv, Settled

LEMMA TokensStep ==
    ASSUME CoreInv, TokensInv, [Next]_vars
    PROVE  TokensInv'
<1>0. Steps \/ UNCHANGED vars
    BY NextSteps
<1>1. ASSUME NEW c \in Peers,
             \/ Departs(c) \/ Opens(c) \/ SubmitTicket(c) \/ Joins(c)
             \/ GivesUp(c) \/ Grants(c) \/ LosesAcquire(c)
             \/ \E p \in Players : Asks(c, p) \/ Enters(c, p)
      PROVE  TokensInv'
    BY <1>1, PeersSettle, TokensKept
<1>2. ASSUME NEW c \in Peers, NEW p \in Players, Issues(c, p) PROVE TokensInv'
    BY <1>2, IssuesTokens
<1>3. ASSUME NEW c \in Peers, NEW t \in Peers, NEW p \in Players, Resume(c, t, p) PROVE TokensInv'
    BY <1>3, ResumeTokens
<1>4. ASSUME NEW c \in Peers, NEW t \in Peers, NEW p \in Players, ResumeLate(c, t, p)
      PROVE  TokensInv'
    <2>1. \A d \in Peers : fate'[d] = IF d = tokens[p] THEN "spent" ELSE fate[d]
        BY <1>4, CoreParts DEF ResumeLate, TypeOK
    <2>2. \A d \in Peers : Settled(d) => Settled(d)'
        BY <1>4, ResumeLateShape DEF Settled, HasEntered
    <2>3. tokens'[p] = Nobody /\ \A q \in Players \ {p} : tokens'[q] = tokens[q]
        BY <1>4, ResumeLateShape
    <2> QED
        BY <2>1, <2>2, <2>3, TokenTaken
<1>5. ASSUME NEW t \in Ticks, NEW p \in Players, Expires(t, p) PROVE TokensInv'
    BY <1>5, TokenTaken DEF Expires, Settled, HasEntered
<1>6. CASE Restart
    <2>1. \A c \in Peers : fate[c] # "unissued" => conn[c] # "new"
        BY DEF TokensInv, HasEntered
    <2>2. /\ \A p \in Players : tokens'[p] = Nobody
          /\ \A c \in Peers : /\ pending'[c] = "no" /\ auth'[c] = Resting
                              /\ conn'[c] = (IF conn[c] = "new" THEN "new" ELSE "gone")
                              /\ fate'[c] = (IF fate[c] = "unissued" THEN "unissued" ELSE "spent")
        BY <1>6 DEF Restart
    <2> QED
        BY <2>1, <2>2, RestingIs, NobodyIs DEF TokensInv, TokensUsedOnce, HasEntered
<1>7. CASE \/ \E p \in Players : Ends(p) \/ Lapse(p) \/ PutsEntryBack(p)
           \/ \E t \in Ticks : TickRests(t) \/ ReleaseEnds(t)
           \/ RenewalRests \/ RenewalAnswered
           \/ \E c \in Peers : PutsLeaseBack(c)
           \/ UNCHANGED vars
    BY <1>7, OthersSettle, TokensKept
<1> QED
    BY <1>0, <1>1, <1>2, <1>3, <1>4, <1>5, <1>6, <1>7 DEF Steps

LEMMA TokensInit == Init => TokensInv
BY NobodyIs DEF Init, TokensInv, TokensUsedOnce

THEOREM TokensCore == Spec => []TokensInv
<1>1. CoreInv /\ TokensInv /\ [Next]_vars => TokensInv'
    BY TokensStep
<1> QED
    BY <1>1, TokensInit, SessionCore, PTL DEF Spec

(* A reconnect token that was used, that was superseded or that another      *)
(* process handed out lets nobody in (server.gd:227-261, 278).               *)
THEOREM SpentTokensAreDead == Spec => []TokensUsedOnce
<1>1. TokensInv => TokensUsedOnce
    BY DEF TokensInv
<1> QED
    BY <1>1, TokensCore, PTL
-----------------------------------------------------------------------------
(* The lease of a player.                                                    *)

(* Nobody new has a hand on the lease of p.                                  *)
HoldersStay(p) ==
    /\ \A c \in Peers : Holds(c, p)' => Holds(c, p) /\ HeldToken(c)' = HeldToken(c)
    /\ disconnected'[p] = Nobody \/ SameEntry(disconnected'[p], disconnected[p])

HandsStay(p) ==
    /\ HoldersStay(p) /\ row'[p] = row[p]
    /\ \A t \in Ticks : Releases(t, p)' => Releases(t, p) /\ grace'[t].saved = grace[t].saved

LEMMA HandsKept ==
    ASSUME NEW p \in Players, InOneHand(p), HandsStay(p)
    PROVE  InOneHand(p)'
BY DEF InOneHand, Valid, SameEntry, HandsStay, HoldersStay

LEMMA FencesKept ==
    ASSUME NEW p \in Players, Fenced(p), HoldersStay(p), row'[p].token = row[p].token
    PROVE  Fenced(p)'
BY NobodyIs DEF Fenced, SameEntry, HoldersStay

(* A peer that still waits for its lease is nobody yet.                      *)
LEMMA NotYet ==
    ASSUME CoreInv, NEW c \in Peers, auth[c].at \in {"redeem", "acquire"}
    PROVE  identities[c] = Nobody
BY CoreParts DEF Links, IdentitiesHoldLeases, PeersInv, HasEntered

LEMMA EntryIs ==
    ASSUME CoreInv, NEW p \in Players
    PROVE  SameEntry(disconnected[p], disconnected[p])
BY CoreParts DEF SameEntry, TypeOK

LEMMA DepartsHolds ==
    ASSUME CoreInv, NEW p \in Players, NEW c \in Peers, Departs(c)
    PROVE  /\ row'[p] = row[p] /\ grace' = grace
           /\ \A d \in Peers : Holds(d, p)' =>
                 /\ Holds(d, p) /\ HeldToken(d)' = HeldToken(d)
                 /\ d # c \/ identities[c] = Nobody
<1>1. /\ row'[p] = row[p] /\ grace' = grace /\ identities'[c] = Nobody
      /\ \A d \in Peers \ {c} : identities'[d] = identities[d] /\ leases'[d] = leases[d]
      /\ \A d \in Peers : SameCall(auth'[d], auth[d]) \/ (d = c /\ SameCall(auth'[d], Resting))
    BY DEF Departs
<1>2. ASSUME NEW d \in Peers \ {c}, Holds(d, p)'
      PROVE  Holds(d, p) /\ HeldToken(d)' = HeldToken(d)
    BY <1>1, <1>2 DEF Holds, HeldToken, SameCall
<1>3. ASSUME Holds(c, p)'
      PROVE  Holds(c, p) /\ HeldToken(c)' = HeldToken(c) /\ identities[c] = Nobody
    <2>1. auth[c].at = "acquire" /\ auth[c].call = "ok" /\ auth[c].player = p
          /\ auth'[c].token = auth[c].token
        BY <1>1, <1>3, RestingIs, NobodyIs DEF Holds, SameCall
    <2> QED
        BY <1>1, <2>1, NotYet DEF Holds, HeldToken
<1> QED
    BY <1>1, <1>2, <1>3

LEMMA DepartsStay ==
    ASSUME CoreInv, NEW p \in Players, NEW c \in Peers, Departs(c), identities[c] # p
    PROVE  HandsStay(p)
<1>1. disconnected'[p] = disconnected[p]
    BY DEF Departs
<1>2. \A t \in Ticks : Releases(t, p)' => Releases(t, p) /\ grace'[t].saved = grace[t].saved
    BY DepartsHolds DEF Releases
<1>3. SameEntry(disconnected'[p], disconnected[p])
    BY <1>1, EntryIs
<1> QED
    BY <1>2, <1>3, DepartsHolds DEF HandsStay, HoldersStay

LEMMA DepartsHands ==
    ASSUME CoreInv, NEW p \in Players, InOneHand(p), NEW c \in Peers, Departs(c)
    PROVE  InOneHand(p)'
<1>4. CASE identities[c] = p
    <2>1. disconnected'[p] = [from |-> c, lease |-> leases[c], over |-> FALSE]
        BY <1>4 DEF Departs
    <2>2. Holds(c, p) /\ HeldToken(c) = leases[c].token
        BY <1>4, NobodyIs DEF Holds, HeldToken
    <2>3. \A d \in Peers : ~Holds(d, p)'
        BY <1>4, <2>2, DepartsHolds, NobodyIs DEF InOneHand
    <2>4. \A t \in Ticks : ~Releases(t, p)'
        BY <2>2, DepartsHolds DEF InOneHand, Releases
    <2>5. Valid(p, disconnected[p].lease.token)'
        BY <2>1, <2>2, DepartsHolds DEF InOneHand, Valid
    <2> QED
        BY <2>3, <2>4, <2>5 DEF InOneHand
<1>5. CASE identities[c] # p
    BY <1>5, DepartsStay, HandsKept
<1> QED
    BY <1>4, <1>5

(* The steps that give nobody a hand on a lease.                             *)
LEMMA CallsStay ==
    ASSUME CoreInv, NEW p \in Players, NEW c \in Peers,
           \/ Opens(c) \/ SubmitTicket(c) \/ Joins(c) \/ GivesUp(c) \/ LosesAcquire(c)
           \/ \E q \in Players : Asks(c, q) \/ Issues(c, q)
    PROVE  HandsStay(p)
<1>1. UNCHANGED <<identities, leases, disconnected, grace, row>>
    BY DEF Opens, SubmitTicket, Joins, GivesUp, LosesAcquire, Asks, Issues, AuthGoes, memory, Keep
<1>2. /\ \A d \in Peers \ {c} : SameCall(auth'[d], auth[d])
      /\ SameCall(auth'[c], auth[c]) \/ auth'[c].call # "ok" \/ auth'[c].at # "acquire"
    <2>1. CASE Opens(c) \/ SubmitTicket(c)
        BY <2>1, AuthIs DEF Opens, SubmitTicket, SameCall, AuthRecords
    <2>2. CASE Joins(c) \/ (\E q \in Players : Issues(c, q))
        BY <2>2, AuthIs, RestingIs DEF Joins, Issues
    <2>3. CASE GivesUp(c) \/ LosesAcquire(c) \/ (\E q \in Players : Asks(c, q))
        BY <2>3, RestingIs DEF GivesUp, LosesAcquire, Asks, AuthGoes, SameCall
    <2> QED
        BY <2>1, <2>2, <2>3
<1>3. \A d \in Peers : Holds(d, p)' => Holds(d, p) /\ HeldToken(d)' = HeldToken(d)
    <2>1. ASSUME NEW d \in Peers, Holds(d, p)', SameCall(auth'[d], auth[d])
          PROVE  Holds(d, p) /\ HeldToken(d)' = HeldToken(d)
        BY <1>1, <2>1 DEF Holds, HeldToken, SameCall
    <2>2. ASSUME Holds(c, p)', auth'[c].call # "ok" \/ auth'[c].at # "acquire"
          PROVE  Holds(c, p) /\ HeldToken(c)' = HeldToken(c)
        BY <1>1, <2>2, NobodyIs DEF Holds, HeldToken
    <2> QED
        BY <1>2, <2>1, <2>2
<1>4. \A t \in Ticks : Releases(t, p)' => Releases(t, p) /\ grace'[t].saved = grace[t].saved
    BY <1>1 DEF Releases
<1> QED
    BY <1>1, <1>3, <1>4, EntryIs DEF HandsStay, HoldersStay

(* A lease is granted where nobody has one.                                  *)
LEMMA GrantsHolds ==
    ASSUME CoreInv, NEW c \in Peers, NEW p \in Players, Grants(c)
    PROVE  /\ UNCHANGED <<identities, leases, disconnected, grace>>
           /\ \A d \in Peers \ {c} : Holds(d, p)' => Holds(d, p) /\ HeldToken(d)' = HeldToken(d)
           /\ Holds(c, p)' => /\ auth[c].player = p /\ HeldToken(c)' = row'[p].token
                              /\ disconnected'[p] = disconnected[p]
<1>1. UNCHANGED <<identities, leases, disconnected, grace>>
    BY DEF Grants, AuthGoes, memory
<1>2. /\ identities[c] = Nobody
      /\ \A d \in Peers \ {c} : SameCall(auth'[d], auth[d])
      /\ auth'[c].player = auth[c].player
    BY NotYet DEF Grants, AuthGoes
<1>3. \A d \in Peers \ {c} : Holds(d, p)' => Holds(d, p) /\ HeldToken(d)' = HeldToken(d)
    BY <1>1, <1>2 DEF Holds, HeldToken, SameCall
<1>4. Holds(c, p)' => auth[c].player = p /\ HeldToken(c)' = row'[p].token
    BY <1>1, <1>2, NobodyIs DEF Grants, Holds, HeldToken
<1> QED
    BY <1>1, <1>3, <1>4

LEMMA GrantsStay ==
    ASSUME CoreInv, NEW c \in Peers, NEW p \in Players, Grants(c), auth[c].player # p
    PROVE  HandsStay(p)
<1>1. row'[p] = row[p]
    BY DEF Grants
<1>2. \A t \in Ticks : Releases(t, p)' => Releases(t, p) /\ grace'[t].saved = grace[t].saved
    BY GrantsHolds DEF Releases
<1> QED
    BY <1>1, <1>2, GrantsHolds, EntryIs DEF HandsStay, HoldersStay

LEMMA GrantsHands ==
    ASSUME CoreInv, NEW p \in Players, InOneHand(p), NEW c \in Peers, Grants(c)
    PROVE  InOneHand(p)'
<1>1. CASE auth[c].player = p
    <2>1. ~row[p].live /\ row'[p].live
        BY <1>1 DEF Grants
    <2>2. disconnected[p] = Nobody /\ (\A d \in Peers : ~Holds(d, p)) /\ \A t \in Ticks : ~Releases(t, p)
        BY <2>1 DEF InOneHand, Valid
    <2>3. Holds(c, p)' => Valid(p, HeldToken(c))'
        BY <2>1, GrantsHolds DEF Valid
    <2>4. \A t \in Ticks : ~Releases(t, p)'
        BY <2>2, GrantsHolds DEF Releases
    <2> QED
        BY <2>2, <2>3, <2>4, GrantsHolds DEF InOneHand
<1>2. CASE auth[c].player # p
    BY <1>2, GrantsStay, HandsKept
<1> QED
    BY <1>1, <1>2

(* The coroutine that was granted the lease gives it to its peer.            *)
LEMMA EntersStay ==
    ASSUME CoreInv, NEW p \in Players, NEW c \in Peers, NEW q \in Players, Enters(c, q)
    PROVE  HandsStay(p)
<1>1. UNCHANGED <<disconnected, grace, row>>
    BY DEF Enters
<1>2. ASSUME NEW d \in Peers \ {c}, Holds(d, p)'
      PROVE  Holds(d, p) /\ HeldToken(d)' = HeldToken(d)
    BY <1>2 DEF Enters, Holds, HeldToken, SameCall
<1>3. ASSUME Holds(c, p)' PROVE Holds(c, p) /\ HeldToken(c)' = HeldToken(c)
    BY <1>3, NobodyIs DEF Enters, Holds, HeldToken
<1>4. \A t \in Ticks : Releases(t, p)' => Releases(t, p) /\ grace'[t].saved = grace[t].saved
    BY <1>1 DEF Releases
<1> QED
    BY <1>1, <1>2, <1>3, <1>4, EntryIs DEF HandsStay, HoldersStay

(* The grace hands its lease back to the player.                             *)
LEMMA ResumeHolds ==
    ASSUME CoreInv, NEW p \in Players, NEW c \in Peers, NEW t \in Peers, NEW q \in Players,
           Resume(c, t, q)
    PROVE  /\ UNCHANGED <<grace, row>> /\ disconnected[q] # Nobody /\ disconnected'[q] = Nobody
           /\ p # q => disconnected'[p] = disconnected[p]
           /\ \A d \in Peers \ {c} : Holds(d, p)' => Holds(d, p) /\ HeldToken(d)' = HeldToken(d)
           /\ Holds(c, p)' <=> p = q
           /\ HeldToken(c)' = disconnected[q].lease.token
<1>1. /\ UNCHANGED <<grace, row>>
      /\ identities'[c] = q /\ leases'[c] = disconnected[q].lease /\ auth'[c].at = "done"
      /\ \A d \in Peers \ {c} : identities'[d] = identities[d] /\ leases'[d] = leases[d]
                                /\ auth'[d] = auth[d]
      /\ disconnected[q] \in Saved /\ disconnected'[q] = Nobody
      /\ \A r \in Players \ {q} : disconnected'[r] = disconnected[r]
    BY ResumeShape
<1>2. ASSUME NEW d \in Peers \ {c}, Holds(d, p)'
      PROVE  Holds(d, p) /\ HeldToken(d)' = HeldToken(d)
    BY <1>1, <1>2 DEF Holds, HeldToken
<1>3. (Holds(c, p)' <=> p = q) /\ HeldToken(c)' = disconnected[q].lease.token
    BY <1>1, NobodyIs DEF Holds, HeldToken
<1> QED
    BY <1>1, <1>2, <1>3, NobodyIs

LEMMA ResumeStay ==
    ASSUME CoreInv, NEW p \in Players, NEW c \in Peers, NEW t \in Peers, NEW q \in Players,
           Resume(c, t, q), q # p
    PROVE  HandsStay(p)
<1>1. \A u \in Ticks : Releases(u, p)' => Releases(u, p) /\ grace'[u].saved = grace[u].saved
    BY ResumeHolds DEF Releases
<1>2. disconnected'[p] = disconnected[p] /\ row'[p] = row[p] /\ ~Holds(c, p)'
    BY ResumeHolds
<1>3. \A d \in Peers \ {c} : Holds(d, p)' => Holds(d, p) /\ HeldToken(d)' = HeldToken(d)
    BY ResumeHolds
<1> QED
    BY <1>1, <1>2, <1>3, EntryIs DEF HandsStay, HoldersStay

LEMMA ResumeHands ==
    ASSUME CoreInv, NEW p \in Players, InOneHand(p), NEW c \in Peers, NEW t \in Peers,
           NEW q \in Players, Resume(c, t, q)
    PROVE  InOneHand(p)'
<1>1. CASE q = p
    <2>1. disconnected[p] # Nobody
        BY <1>1, ResumeHolds
    <2>2. /\ Valid(p, disconnected[p].lease.token)
          /\ (\A d \in Peers : ~Holds(d, p)) /\ \A u \in Ticks : ~Releases(u, p)
        BY <2>1 DEF InOneHand
    <2>3. Valid(p, HeldToken(c))'
        BY <1>1, <2>2, ResumeHolds DEF Valid
    <2>4. \A u \in Ticks : ~Releases(u, p)'
        BY <2>2, ResumeHolds DEF Releases
    <2>5. disconnected'[p] = Nobody /\ \A d \in Peers \ {c} : ~Holds(d, p)'
        BY <1>1, <2>2, ResumeHolds
    <2> QED
        BY <2>3, <2>4, <2>5 DEF InOneHand
<1>2. CASE q # p
    BY <1>2, ResumeStay, HandsKept
<1> QED
    BY <1>1, <1>2

(* The end of the grace takes the lease to give it back.                     *)
LEMMA ExpiresHolds ==
    ASSUME CoreInv, NEW p \in Players, NEW t \in Ticks, NEW q \in Players, Expires(t, q)
    PROVE  /\ UNCHANGED <<identities, leases, auth, row>>
           /\ \A d \in Peers : (Holds(d, p)' <=> Holds(d, p)) /\ HeldToken(d)' = HeldToken(d)
           /\ HoldersStay(p)
<1>1. UNCHANGED <<identities, leases, auth, row>>
    BY DEF Expires
<1>2. \A d \in Peers : (Holds(d, p)' <=> Holds(d, p)) /\ HeldToken(d)' = HeldToken(d)
    BY <1>1 DEF Holds, HeldToken
<1>3. disconnected'[p] = Nobody \/ disconnected'[p] = disconnected[p]
    BY DEF Expires
<1> QED
    BY <1>1, <1>2, <1>3, EntryIs DEF HoldersStay

LEMMA ExpiresHands ==
    ASSUME CoreInv, NEW p \in Players, InOneHand(p), NEW t \in Ticks, NEW q \in Players,
           Expires(t, q)
    PROVE  InOneHand(p)'
<1>1. row' = row
    BY ExpiresHolds
<1>2. \A d \in Peers : (Holds(d, p)' <=> Holds(d, p)) /\ HeldToken(d)' = HeldToken(d)
    BY ExpiresHolds
<1>3. \A u \in Ticks \ {t} : Releases(u, p)' => Releases(u, p) /\ grace'[u].saved = grace[u].saved
    BY DEF Releases, Expires
<1>4. disconnected[q] # Nobody /\ disconnected[q].lease.player = q
    BY NobodyIs, CoreParts DEF Expires, Links, KeptInv
<1>5. CASE q = p
    <2>1. /\ Valid(p, disconnected[p].lease.token)
          /\ (\A d \in Peers : ~Holds(d, p)) /\ \A u \in Ticks : ~Releases(u, p)
        BY <1>4, <1>5 DEF InOneHand
    <2>2. disconnected'[p] = Nobody /\ grace'[t].saved = disconnected[p]
        BY <1>5 DEF Expires
    <2>3. Valid(p, grace[t].saved.lease.token)'
        BY <1>1, <2>1, <2>2 DEF Valid
    <2> QED
        BY <1>2, <1>3, <2>1, <2>2, <2>3 DEF InOneHand
<1>6. CASE q # p
    <2>1. ~Releases(t, p)'
        BY <1>4, <1>6 DEF Releases, Expires
    <2> QED
        BY <1>1, <1>3, <2>1, ExpiresHolds, HandsKept DEF HandsStay
<1> QED
    BY <1>5, <1>6

LEMMA ReleaseHolds ==
    ASSUME CoreInv, NEW p \in Players, NEW t \in Ticks, ReleaseEnds(t)
    PROVE  /\ disconnected' = disconnected
           /\ \A d \in Peers : (Holds(d, p)' <=> Holds(d, p)) /\ HeldToken(d)' = HeldToken(d)
           /\ HoldersStay(p)
<1>1. UNCHANGED <<identities, leases, auth, disconnected>>
    BY DEF ReleaseEnds, memory
<1>2. \A d \in Peers : (Holds(d, p)' <=> Holds(d, p)) /\ HeldToken(d)' = HeldToken(d)
    BY <1>1 DEF Holds, HeldToken
<1> QED
    BY <1>1, <1>2, EntryIs DEF HoldersStay

LEMMA ReleaseHands ==
    ASSUME CoreInv, NEW p \in Players, InOneHand(p), NEW t \in Ticks, ReleaseEnds(t)
    PROVE  InOneHand(p)'
<1>1. \A u \in Ticks : Releases(u, p)' =>
         u # t /\ Releases(u, p) /\ grace'[u].saved = grace[u].saved
    BY DEF Releases, ReleaseEnds
<1>2. CASE grace[t].saved.lease.player = p
    <2>1. Releases(t, p)
        BY <1>2 DEF Releases, ReleaseEnds
    <2>2. /\ disconnected[p] = Nobody /\ (\A d \in Peers : ~Holds(d, p))
          /\ \A u \in Ticks \ {t} : ~Releases(u, p)
        BY <2>1 DEF InOneHand
    <2> QED
        BY <1>1, <2>2, ReleaseHolds DEF InOneHand
<1>3. CASE grace[t].saved.lease.player # p
    <2>1. row'[p] = row[p]
        BY <1>3 DEF ReleaseEnds
    <2> QED
        BY <1>1, <2>1, ReleaseHolds, HandsKept DEF HandsStay
<1> QED
    BY <1>2, <1>3

(* The other steps leave the lease of p where it is.                         *)
LEMMA OthersStay ==
    ASSUME CoreInv, NEW p \in Players,
           \/ \E c, t \in Peers, q \in Players : ResumeLate(c, t, q)
           \/ \E q \in Players : Ends(q) \/ (Lapse(q) /\ q # p)
                                 \/ (PutsEntryBack(q) /\ (q # p \/ p \notin excused'))
           \/ \E t \in Ticks : TickRests(t)
           \/ RenewalRests \/ RenewalAnswered
           \/ \E c \in Peers : PutsLeaseBack(c)
           \/ UNCHANGED vars
    PROVE  HandsStay(p)
<1> DEFINE Kept ==
        /\ row'[p] = row[p]
        /\ \A c \in Peers : Holds(c, p)' => Holds(c, p) /\ HeldToken(c)' = HeldToken(c)
        /\ disconnected'[p] = Nobody \/ SameEntry(disconnected'[p], disconnected[p])
        /\ \A t \in Ticks : Releases(t, p)' => Releases(t, p) /\ grace'[t].saved = grace[t].saved
<1> SUFFICES Kept
    BY DEF HandsStay, HoldersStay
<1>0. TypeOK /\ SameEntry(disconnected[p], disconnected[p])
    BY CoreParts, EntryIs
<1>1. ASSUME NEW c \in Peers, NEW t \in Peers, NEW q \in Players, ResumeLate(c, t, q)
      PROVE  Kept
    <2>1. disconnected'[p] = Nobody \/ disconnected'[p] = disconnected[p]
        BY <1>1, ResumeLateShape
    <2>2. UNCHANGED <<identities, leases, auth, grace, row>>
        BY <1>1, ResumeLateShape
    <2> QED
        BY <1>0, <2>1, <2>2 DEF Holds, HeldToken, Releases
<1>2. ASSUME NEW q \in Players, Ends(q) PROVE Kept
    BY <1>2 DEF Ends, Holds, HeldToken, Releases
<1>3. ASSUME NEW q \in Players, Lapse(q), q # p PROVE Kept
    <2>1. row'[p] = row[p] /\ UNCHANGED <<identities, leases, auth, grace, disconnected>>
        BY <1>0, <1>3 DEF Lapse, TypeOK, memory
    <2> QED
        BY <1>0, <2>1 DEF Holds, HeldToken, Releases
<1>4. ASSUME NEW q \in Players, PutsEntryBack(q), q # p \/ p \notin excused' PROVE Kept
    <2>1. disconnected'[p] = disconnected[p] /\ UNCHANGED <<identities, leases, auth, grace, row>>
        BY <1>4 DEF PutsEntryBack
    <2> QED
        BY <1>0, <2>1 DEF Holds, HeldToken, Releases
<1>5. ASSUME NEW t \in Ticks, TickRests(t) PROVE Kept
    BY <1>0, <1>5 DEF TickRests, memory, Holds, HeldToken, Releases
<1>6. CASE RenewalRests
    BY <1>0, <1>6 DEF RenewalRests, memory, Holds, HeldToken, Releases
<1>7. CASE RenewalAnswered
    BY <1>0, <1>7 DEF RenewalAnswered, memory, Holds, HeldToken, Releases, SameCall
<1>8. ASSUME NEW c \in Peers, PutsLeaseBack(c) PROVE Kept
    BY <1>0, <1>8 DEF PutsLeaseBack, Holds, HeldToken, Releases
<1>9. CASE UNCHANGED vars
    BY <1>0, <1>9 DEF vars, memory, Holds, HeldToken, Releases
<1> HIDE DEF Kept
<1> QED
    BY <1>1, <1>2, <1>3, <1>4, <1>5, <1>6, <1>7, <1>8, <1>9

(* What was lost once, or put back once, stays so.                           *)
LEMMA GhostsGrow ==
    ASSUME CoreInv, Steps \/ UNCHANGED vars
    PROVE  lapsed \subseteq lapsed' /\ excused \subseteq excused'
<1>1. ASSUME NEW c \in Peers,
             \/ Departs(c) \/ Opens(c) \/ SubmitTicket(c) \/ Joins(c)
             \/ GivesUp(c) \/ Grants(c) \/ LosesAcquire(c)
      PROVE  UNCHANGED <<lapsed, excused>>
    BY <1>1 DEF Departs, Opens, SubmitTicket, Joins, GivesUp, Grants, LosesAcquire, AuthGoes, ghosts
<1>2. ASSUME NEW c \in Peers, NEW p \in Players, Asks(c, p) \/ Enters(c, p) \/ Issues(c, p)
      PROVE  UNCHANGED <<lapsed, excused>>
    BY <1>2 DEF Asks, Enters, Issues, AuthGoes, ghosts
<1>3. ASSUME NEW c \in Peers, NEW t \in Peers, NEW p \in Players,
             Resume(c, t, p) \/ ResumeLate(c, t, p)
      PROVE  UNCHANGED <<lapsed, excused>>
    BY <1>3 DEF Resume, ResumeLate
<1>4. ASSUME NEW p \in Players,
             \/ Ends(p) \/ Lapse(p) \/ PutsEntryBack(p)
             \/ \E t \in Ticks : Expires(t, p)
      PROVE  lapsed \subseteq lapsed' /\ excused \subseteq excused'
    BY <1>4 DEF Ends, Lapse, PutsEntryBack, Expires, ghosts
<1>5. CASE \/ \E t \in Ticks : TickRests(t) \/ ReleaseEnds(t)
           \/ RenewalRests \/ RenewalAnswered \/ (\E c \in Peers : PutsLeaseBack(c)) \/ Restart
           \/ UNCHANGED vars
    BY <1>5 DEF TickRests, ReleaseEnds, RenewalRests, RenewalAnswered, PutsLeaseBack, Restart, vars,
                ghosts
<1> QED
    BY <1>1, <1>2, <1>3, <1>4, <1>5 DEF Steps

LEMMA HandsStep ==
    ASSUME CoreInv, HandsInv, [Next]_vars
    PROVE  HandsInv'
<1> SUFFICES ASSUME NEW p \in Players, p \notin lapsed', p \notin excused' PROVE InOneHand(p)'
    BY DEF HandsInv
<1>0. Steps \/ UNCHANGED vars
    BY NextSteps
<1>1. InOneHand(p)
    <2>1. lapsed \subseteq lapsed' /\ excused \subseteq excused'
        BY <1>0, GhostsGrow
    <2> QED
        BY <2>1 DEF HandsInv
<1>2. ASSUME NEW c \in Peers,
             \/ Opens(c) \/ SubmitTicket(c) \/ Joins(c) \/ GivesUp(c) \/ LosesAcquire(c)
             \/ \E q \in Players : Asks(c, q) \/ Issues(c, q)
      PROVE  InOneHand(p)'
    BY <1>1, <1>2, CallsStay, HandsKept
<1>3. ASSUME NEW c \in Peers, Departs(c) \/ Grants(c) PROVE InOneHand(p)'
    BY <1>1, <1>3, DepartsHands, GrantsHands
<1>4. ASSUME NEW c \in Peers, NEW q \in Players, Enters(c, q) PROVE InOneHand(p)'
    BY <1>1, <1>4, EntersStay, HandsKept
<1>5. ASSUME NEW c \in Peers, NEW t \in Peers, NEW q \in Players, Resume(c, t, q)
      PROVE  InOneHand(p)'
    BY <1>1, <1>5, ResumeHands
<1>6. ASSUME NEW t \in Ticks, NEW q \in Players, Expires(t, q) PROVE InOneHand(p)'
    BY <1>1, <1>6, ExpiresHands
<1>7. ASSUME NEW t \in Ticks, ReleaseEnds(t) PROVE InOneHand(p)'
    BY <1>1, <1>7, ReleaseHands
<1>8. CASE Restart
    <2>1. /\ \A c \in Peers : identities'[c] = Nobody /\ auth'[c] = Resting
          /\ disconnected'[p] = Nobody /\ \A t \in Ticks : grace'[t] = NoTick
        BY <1>8 DEF Restart
    <2> QED
        BY <2>1, RestingIs, NoTickIs, NobodyIs DEF InOneHand, Holds, Releases, NoCall
<1>9. CASE \/ \E c, t \in Peers, q \in Players : ResumeLate(c, t, q)
           \/ \E q \in Players : Ends(q) \/ PutsEntryBack(q)
           \/ \E t \in Ticks : TickRests(t)
           \/ RenewalRests \/ RenewalAnswered
           \/ \E c \in Peers : PutsLeaseBack(c)
           \/ UNCHANGED vars
    BY <1>1, <1>9, OthersStay, HandsKept
<1>10. ASSUME NEW q \in Players, Lapse(q) PROVE InOneHand(p)'
    <2>1. q # p
        BY <1>10 DEF Lapse
    <2> QED
        BY <1>1, <1>10, <2>1, OthersStay, HandsKept
<1> QED
    BY <1>0, <1>2, <1>3, <1>4, <1>5, <1>6, <1>7, <1>8, <1>9, <1>10 DEF Steps

LEMMA HandsInit == Init => HandsInv
BY RestingIs, NoTickIs, NobodyIs DEF Init, HandsInv, InOneHand, Holds, Releases, NoCall

(* A lease that never lapsed, of a player whom no renewal put back, is in one *)
(* hand.                                                                     *)
THEOREM LeaseInOneHand == Spec => []HandsInv
<1>1. CoreInv /\ HandsInv /\ [Next]_vars => HandsInv'
    BY HandsStep
<1> QED
    BY <1>1, HandsInit, SessionCore, PTL DEF Spec

(* A player is in the game or in grace, never both, unless the lease lapsed  *)
(* or a renewal put the entry back (server.gd:251, 338, 459).                *)
THEOREM InGameOrKept == Spec => []InGameOrInGrace
<1>1. HandsInv => InGameOrInGrace
    BY NobodyIs DEF HandsInv, InOneHand, InGameOrInGrace, Present, Holds
<1> QED
    BY <1>1, LeaseInOneHand, PTL
-----------------------------------------------------------------------------
(* The fencing tokens of a player.                                           *)
LEMMA TokensAreNumbers ==
    ASSUME CoreInv, NEW p \in Players
    PROVE  /\ row[p].token \in Nat
           /\ disconnected[p] # Nobody => disconnected[p].lease.token \in Nat \ {0}
           /\ \A c \in Peers : Holds(c, p) => HeldToken(c) \in Nat \ {0}
<1>0. TypeOK /\ Links
    BY CoreParts
<1>1. row[p].token \in Nat
    BY <1>0, NobodyIs DEF TypeOK
<1>2. ASSUME disconnected[p] # Nobody PROVE disconnected[p].lease.token \in Nat \ {0}
    BY <1>0, <1>2, NobodyIs DEF TypeOK, Saved, Lease
<1>3. ASSUME NEW c \in Peers, Holds(c, p) PROVE HeldToken(c) \in Nat \ {0}
    <2>1. CASE identities[c] # Nobody
        <3>1. leases[c] \in Lease
            BY <1>0, <2>1 DEF TypeOK, Links, IdentitiesHoldLeases
        <3> QED
            BY <2>1, <3>1, NobodyIs DEF HeldToken, Lease
    <2>2. CASE identities[c] = Nobody
        <3>1. auth[c].call = "ok"
            BY <1>3, <2>2, NobodyIs DEF Holds
        <3>2. auth[c].token \in 0..MaxToken /\ auth[c].token # 0
            BY <1>0, <3>1 DEF TypeOK, Links, PeersInv
        <3> QED
            BY <2>2, <3>2, NobodyIs DEF HeldToken
    <2> QED
        BY <2>1, <2>2
<1> QED
    BY <1>1, <1>2, <1>3

LEMMA DepartsFences ==
    ASSUME CoreInv, NEW p \in Players, Fenced(p), NEW c \in Peers, Departs(c)
    PROVE  Fenced(p)'
<1>1. CASE identities[c] = p
    <2>1. disconnected'[p] = [from |-> c, lease |-> leases[c], over |-> FALSE]
        BY <1>1 DEF Departs
    <2>2. Holds(c, p) /\ disconnected'[p].lease.token = HeldToken(c)
        BY <1>1, <2>1, NobodyIs DEF Holds, HeldToken
    <2>3. row'[p] = row[p]
        BY DepartsHolds
    <2>4. \A d \in Peers : Holds(d, p)' =>
             d # c /\ Holds(d, p) /\ HeldToken(d)' = HeldToken(d)
        BY <1>1, DepartsHolds, NobodyIs
    <2> QED
        BY <2>2, <2>3, <2>4 DEF Fenced
<1>2. CASE identities[c] # p
    BY <1>2, DepartsStay, FencesKept DEF HandsStay
<1> QED
    BY <1>1, <1>2

(* A lease is granted under a token that nobody holds yet.                   *)
LEMMA GrantsFences ==
    ASSUME CoreInv, NEW p \in Players, Fenced(p), NEW c \in Peers, Grants(c)
    PROVE  Fenced(p)'
<1>1. CASE auth[c].player = p
    <2>1. row'[p].token = row[p].token + 1
        BY <1>1 DEF Grants
    <2>2. /\ row[p].token \in Nat
          /\ disconnected[p] # Nobody =>
                /\ disconnected[p].lease.token \in Nat
                /\ disconnected[p].lease.token <= row[p].token
          /\ \A d \in Peers : Holds(d, p) => HeldToken(d) \in Nat /\ HeldToken(d) <= row[p].token
        BY TokensAreNumbers DEF Fenced
    <2>3. \A d \in Peers \ {c} : Holds(d, p)' =>
             HeldToken(d)' <= row'[p].token /\ HeldToken(d)' # row'[p].token
        BY <2>1, <2>2, GrantsHolds
    <2>4. Holds(c, p)' => HeldToken(c)' <= row'[p].token
        BY <2>1, <2>2, GrantsHolds
    <2>5. disconnected'[p] # Nobody =>
             /\ disconnected'[p].lease.token <= row'[p].token
             /\ disconnected'[p].lease.token # row'[p].token
        BY <2>1, <2>2, GrantsHolds
    <2> QED
        BY <2>3, <2>4, <2>5 DEF Fenced
<1>2. CASE auth[c].player # p
    BY <1>2, GrantsStay, FencesKept DEF HandsStay
<1> QED
    BY <1>1, <1>2

LEMMA ResumeFences ==
    ASSUME CoreInv, NEW p \in Players, Fenced(p), NEW c \in Peers, NEW t \in Peers,
           NEW q \in Players, Resume(c, t, q)
    PROVE  Fenced(p)'
<1>1. CASE q = p
    <2>1. /\ disconnected[p] # Nobody /\ disconnected'[p] = Nobody /\ row'[p] = row[p]
          /\ HeldToken(c)' = disconnected[p].lease.token
          /\ \A d \in Peers \ {c} : Holds(d, p)' => Holds(d, p) /\ HeldToken(d)' = HeldToken(d)
        BY <1>1, ResumeHolds
    <2> QED
        BY <2>1 DEF Fenced
<1>2. CASE q # p
    BY <1>2, ResumeStay, FencesKept DEF HandsStay
<1> QED
    BY <1>1, <1>2

(* The tokens begin again when the lease is given back, which no hand holds  *)
(* any more: it had never lapsed.                                            *)
LEMMA ReleaseFences ==
    ASSUME CoreInv, HandsInv, NEW p \in Players, Fenced(p), p \notin excused', NEW t \in Ticks,
           ReleaseEnds(t)
    PROVE  Fenced(p)'
<1>1. CASE row'[p] = row[p]
    BY <1>1, ReleaseHolds, FencesKept
<1>2. CASE row'[p] # row[p]
    <2>1. grace[t].saved.lease.player = p /\ Releases(t, p)
        BY <1>2 DEF ReleaseEnds, Releases
    <2>2. p \notin lapsed /\ p \notin excused
        BY <1>2, <2>1 DEF ReleaseEnds
    <2>3. disconnected[p] = Nobody /\ \A d \in Peers : ~Holds(d, p)
        BY <2>1, <2>2 DEF HandsInv, InOneHand
    <2> QED
        BY <2>3, ReleaseHolds DEF Fenced
<1> QED
    BY <1>1, <1>2

LEMMA FencesStep ==
    ASSUME CoreInv, HandsInv, FencesInv, [Next]_vars
    PROVE  FencesInv'
<1> SUFFICES ASSUME NEW p \in Players, p \notin excused' PROVE Fenced(p)'
    BY DEF FencesInv
<1>0. Steps \/ UNCHANGED vars
    BY NextSteps
<1>1. Fenced(p)
    <2>1. excused \subseteq excused'
        BY <1>0, GhostsGrow
    <2> QED
        BY <2>1 DEF FencesInv
<1> USE <1>1
<1>2. ASSUME HandsStay(p) PROVE Fenced(p)'
    BY <1>2, FencesKept DEF HandsStay
<1>3. ASSUME NEW c \in Peers,
             \/ Opens(c) \/ SubmitTicket(c) \/ Joins(c) \/ GivesUp(c) \/ LosesAcquire(c)
             \/ \E q \in Players : Asks(c, q) \/ Issues(c, q)
      PROVE  Fenced(p)'
    BY <1>2, <1>3, CallsStay
<1>4. ASSUME NEW c \in Peers, Departs(c) \/ Grants(c) PROVE Fenced(p)'
    BY <1>4, DepartsFences, GrantsFences
<1>5. ASSUME NEW c \in Peers, NEW q \in Players, Enters(c, q) PROVE Fenced(p)'
    BY <1>2, <1>5, EntersStay
<1>6. ASSUME NEW c \in Peers, NEW t \in Peers, NEW q \in Players, Resume(c, t, q)
      PROVE  Fenced(p)'
    BY <1>6, ResumeFences
<1>7. ASSUME NEW t \in Ticks, NEW q \in Players, Expires(t, q) PROVE Fenced(p)'
    BY <1>7, ExpiresHolds, FencesKept
<1>8. ASSUME NEW t \in Ticks, ReleaseEnds(t) PROVE Fenced(p)'
    BY <1>8, ReleaseFences
<1>9. CASE Restart
    <2>1. /\ \A c \in Peers : identities'[c] = Nobody /\ auth'[c] = Resting
          /\ disconnected'[p] = Nobody
        BY <1>9 DEF Restart
    <2> QED
        BY <2>1, RestingIs, NobodyIs DEF Fenced, Holds
<1>10. CASE \/ \E c, t \in Peers, q \in Players : ResumeLate(c, t, q)
            \/ \E q \in Players : Ends(q) \/ PutsEntryBack(q)
            \/ \E t \in Ticks : TickRests(t)
            \/ RenewalRests \/ RenewalAnswered
            \/ \E c \in Peers : PutsLeaseBack(c)
            \/ UNCHANGED vars
    BY <1>2, <1>10, OthersStay
<1>11. ASSUME NEW q \in Players, Lapse(q) PROVE Fenced(p)'
    <2>1. /\ UNCHANGED <<identities, leases, auth, disconnected>>
          /\ row'[p].token = row[p].token
        BY <1>11, CoreParts DEF Lapse, memory, TypeOK
    <2>2. HoldersStay(p)
        BY <2>1, EntryIs DEF HoldersStay, Holds, HeldToken
    <2> QED
        BY <2>1, <2>2, FencesKept
<1> QED
    BY <1>0, <1>3, <1>4, <1>5, <1>6, <1>7, <1>8, <1>9, <1>10, <1>11 DEF Steps

LEMMA FencesInit == Init => FencesInv
BY RestingIs, NobodyIs DEF Init, FencesInv, Fenced, Holds, NoCall

(* Two peers never both commit for one player, unless a renewal put an entry *)
(* back or the tokens began again after a lapse (server.gd:331-344).         *)
THEOREM OneHandCommits == Spec => []OneCommitter
<1>1. CoreInv /\ HandsInv /\ FencesInv /\ [Next]_vars => FencesInv'
    BY FencesStep
<1>2. CoreInv /\ FencesInv => OneCommitter
    <2> SUFFICES ASSUME CoreInv, FencesInv, NEW c \in Peers, NEW d \in Peers, c # d,
                        identities[c] # Nobody, identities[d] = identities[c],
                        identities[c] \notin excused
                 PROVE  ~(Matches(leases[c]) /\ Matches(leases[d]))
        BY DEF OneCommitter
    <2> DEFINE p == identities[c]
    <2>1. p \in Players /\ leases[c].player = p /\ leases[d].player = p
        BY CoreParts DEF Links, IdentitiesHoldLeases, TypeOK
    <2>2. Holds(c, p) /\ Holds(d, p) /\ HeldToken(c) = leases[c].token /\ HeldToken(d) = leases[d].token
        BY DEF Holds, HeldToken
    <2>3. Fenced(p)
        BY <2>1 DEF FencesInv
    <2> QED
        BY <2>1, <2>2, <2>3 DEF Fenced, Matches
<1> QED
    BY <1>1, <1>2, FencesInit, SessionCore, LeaseInOneHand, PTL DEF Spec
=============================================================================
