---------------------------- MODULE GameSession ----------------------------
(***************************************************************************)
(* GameServer/Server/server.gd, the connections of one GameServer process: *)
(* admission, authentication by ticket or by reconnect token, the 30 s of  *)
(* grace after a connection is lost, and the renewal of the Backend's      *)
(* leases.                                                                 *)
(*                                                                         *)
(* The script is single-threaded, but a coroutine gives way at each await  *)
(* of an HTTP call.  One coroutine runs per connection (_authenticate),    *)
(* one per firing of the grace timer (_tick_disconnected, every second,    *)
(* while an earlier one may still wait for its calls) and one per firing   *)
(* of the lease timer (_renew_sessions).  An action runs from one await to *)
(* the next.  A call that changes the Backend takes effect in an action of *)
(* its own; it may be lost with or without its effect, and its effect, if  *)
(* any, comes before the caller resumes: the Backend gives a call 3 s, the *)
(* GameServer 4 s.                                                         *)
(*                                                                         *)
(* Keys of a dictionary are visited in any order.  A connection id is used *)
(* once, which makes the auth generation of _authenticate redundant here.  *)
(***************************************************************************)
EXTENDS Naturals, FiniteSets

CONSTANTS
    Peers,        \* connection ids
    Players,      \* player ids
    MaxPending,   \* 16, connections that authenticate at a time
    Capacity,     \* 8, players of a room
    Ticks,        \* firings of the grace timer that may overlap
    Nobody,       \* "no value" of every dictionary below
    MaxToken,     \* bound: the fencing tokens of one behaviour
    MaxRenewals,  \* bound: firings of the lease timer in one behaviour
    MaxRestarts   \* bound: restarts of the process in one behaviour

ASSUME SessionAssumption ==
    /\ Nobody \notin Peers /\ Nobody \notin Players
    /\ MaxPending \in Nat \ {0} /\ Capacity \in Nat \ {0}
    /\ MaxToken \in Nat \ {0} /\ MaxRenewals \in Nat /\ MaxRestarts \in Nat

VARIABLES
    conn,          \* the transport's view of a connection
    pending,       \* pending[id]: "no", "open" or "submitted"
    identities,    \* identities[id]: the player of an authenticated peer
    leases,        \* leases[id]
    disconnected,  \* disconnected[player_id]: the state kept for the grace
    tokens,        \* reconnect_tokens[player_id], named by the peer it went to
    auth,          \* the coroutine of _authenticate, by connection
    grace,         \* the coroutines of _tick_disconnected
    renewal,       \* the coroutine of _renew_sessions
    row,           \* Backend: active_player_session, token 0 when there is none
    renewals,      \* firings of the lease timer so far
    restarts,      \* restarts so far
    fate,          \* ghost: what became of the reconnect token of a peer
    lapsed,        \* ghost: players whose lease lapsed
    excused        \* ghost: players whose disconnected entry a renewal put back, or
                   \* whose lapsed lease was released: their tokens begin again

memory == <<conn, pending, identities, leases, disconnected, tokens>>
ghosts == <<fate, lapsed, excused>>
vars   == <<memory, auth, grace, renewal, row, renewals, restarts, ghosts>>

Lease == [player : Players, token : 1..MaxToken]
Saved == [from : Peers, lease : Lease, over : BOOLEAN]

ASSUME NobodyIsNoEntry == Nobody \notin Lease \cup Saved

NoCall == "none"
Calls  == {NoCall, "posted", "ok", "failed"}

Resting   == [at |-> "idle", player |-> Nobody, call |-> NoCall, token |-> 0, saw |-> {}]
NoTick    == [at |-> "idle", left |-> {}, saved |-> Nobody, call |-> NoCall]
BadTick   == [NoTick EXCEPT !.at = "aborted"]
NoRenewal == [loop |-> "idle", left |-> {}, key |-> Nobody, saved |-> Nobody, call |-> NoCall]
BadRenewal == [NoRenewal EXCEPT !.loop = "aborted"]
NoRow     == [token |-> 0, live |-> FALSE]

TypeOK ==
    /\ conn \in [Peers -> {"new", "authing", "joined", "closing", "gone"}]
    /\ pending \in [Peers -> {"no", "open", "submitted"}]
    /\ identities \in [Peers -> Players \cup {Nobody}]
    /\ leases \in [Peers -> Lease \cup {Nobody}]
    /\ disconnected \in [Players -> Saved \cup {Nobody}]
    /\ tokens \in [Players -> Peers \cup {Nobody}]
    /\ auth \in [Peers -> [at : {"idle", "redeem", "acquire", "reading", "done"},
                           player : Players \cup {Nobody}, call : Calls, token : 0..MaxToken,
                           saw : SUBSET (Peers \cup Players)]]
    /\ grace \in [Ticks -> [at : {"idle", "aborted", "release"}, left : SUBSET Players,
                            saved : Saved \cup {Nobody}, call : Calls]]
    /\ renewal \in [loop : {"idle", "aborted", "peers", "players"},
                    left : SUBSET (Peers \cup Players), key : Peers \cup Players \cup {Nobody},
                    saved : Saved \cup {Nobody}, call : Calls]
    /\ row \in [Players -> [token : 0..MaxToken, live : BOOLEAN]]
    /\ renewals \in 0..MaxRenewals
    /\ restarts \in 0..MaxRestarts
    /\ fate \in [Peers -> {"unissued", "handed", "spent"}]
    /\ lapsed \subseteq Players
    /\ excused \subseteq Players

Init ==
    /\ conn = [c \in Peers |-> "new"]
    /\ pending = [c \in Peers |-> "no"]
    /\ identities = [c \in Peers |-> Nobody]
    /\ leases = [c \in Peers |-> Nobody]
    /\ disconnected = [p \in Players |-> Nobody]
    /\ tokens = [p \in Players |-> Nobody]
    /\ auth = [c \in Peers |-> Resting]
    /\ grace = [t \in Ticks |-> NoTick]
    /\ renewal = NoRenewal
    /\ row = [p \in Players |-> NoRow]
    /\ renewals = 0
    /\ restarts = 0
    /\ fate = [c \in Peers |-> "unissued"]
    /\ lapsed = {}
    /\ excused = {}
-----------------------------------------------------------------------------
Present == {identities[c] : c \in Peers} \ {Nobody}
Pending == {c \in Peers : pending[c] # "no"}

(* Acquisitions under way end within seconds: the lease of p granted or       *)
(* renewed now lapses, and the grace of c that begins now ends, after they    *)
(* have.  Each of them has seen x = p or c begin.                             *)
Begins(x, a) ==
    [d \in Peers |-> IF a[d].at = "acquire" THEN [a[d] EXCEPT !.saw = @ \cup {x}] ELSE a[d]]

Outlasted(x) == \A d \in Peers : x \notin auth[d].saw

(* _remove_peer: what the script forgets and what it keeps for the grace;   *)
(* the coroutines are a, or have seen the grace begin.                      *)
Remove(c, a) ==
    /\ pending' = [pending EXCEPT ![c] = "no"]
    /\ identities' = [identities EXCEPT ![c] = Nobody]
    /\ leases' = [leases EXCEPT ![c] = Nobody]
    /\ \/ identities[c] = Nobody /\ auth' = a /\ UNCHANGED disconnected
       \/ /\ identities[c] # Nobody
          /\ auth' = Begins(c, a)
          /\ disconnected' = [disconnected EXCEPT ![identities[c]] =
                                 [from |-> c, lease |-> leases[c], over |-> FALSE]]

(* _reject: the transport reports the loss of the peer later on.            *)
Reject(c, a) ==
    /\ Remove(c, a)
    /\ conn' = [conn EXCEPT ![c] = IF @ = "gone" THEN @ ELSE "closing"]

Keep == UNCHANGED <<identities, leases, disconnected>>

(* _pending_peer                                                            *)
Connect(c) ==
    /\ conn[c] = "new"
    /\ IF Cardinality(Pending) >= MaxPending \/ Cardinality({d \in Peers : identities[d] # Nobody}) >= Capacity
       THEN Reject(c, auth)
       ELSE /\ pending' = [pending EXCEPT ![c] = "open"]
            /\ conn' = [conn EXCEPT ![c] = "authing"]
            /\ Keep /\ UNCHANGED auth
    /\ UNCHANGED <<tokens, grace, renewal, row, renewals, restarts, ghosts>>

(* The transport loses a peer, times its authentication out, or finishes   *)
(* the disconnection _reject asked for.                                     *)
Drop(c) ==
    /\ conn[c] \in {"authing", "joined", "closing"}
    /\ Remove(c, IF auth[c].at = "done" THEN [auth EXCEPT ![c] = Resting] ELSE auth)
    /\ conn' = [conn EXCEPT ![c] = "gone"]
    /\ UNCHANGED <<tokens, grace, renewal, row, renewals, restarts, ghosts>>

(* _authenticate, a packet it does not accept: malformed, for another room *)
(* or version, carrying a reconnect token that matches nothing, or second. *)
RefusePacket(c) ==
    /\ conn[c] = "authing"
    /\ Reject(c, auth)
    /\ UNCHANGED <<tokens, grace, renewal, row, renewals, restarts, ghosts>>

(* _authenticate, up to the call that redeems the ticket.                   *)
SubmitTicket(c) ==
    /\ conn[c] = "authing" /\ pending[c] = "open"
    /\ pending' = [pending EXCEPT ![c] = "submitted"]
    /\ auth' = [auth EXCEPT ![c].at = "redeem"]
    /\ Keep /\ UNCHANGED <<conn, tokens, grace, renewal, row, renewals, restarts, ghosts>>

(* A slip: the token the player came with stays valid.                      *)
KeepToken(p, c) ==
    /\ tokens' = IF tokens[p] = Nobody THEN [tokens EXCEPT ![p] = c] ELSE tokens
    /\ auth' = [auth EXCEPT ![c] = [Resting EXCEPT !.at = "done"]]

(* _issue_reconnect_token for the peer c, which hears of it if it is there. *)
IssueToken(p, c) ==
    /\ tokens' = [tokens EXCEPT ![p] = c]
    /\ auth' = [auth EXCEPT ![c] = [Resting EXCEPT !.at = "done"]]

(* Time.get_ticks_msec() > saved.expires_at                                 *)
Expired(saved) == saved.over

(* A slip: the entry is read but not erased.                                *)
ResumeKeepsEntry(c, t, p) ==
    /\ conn[c] = "authing" /\ pending[c] = "open"
    /\ fate[t] # "unissued" /\ tokens[p] = t
    /\ disconnected[p] # Nobody /\ p \notin Present /\ ~Expired(disconnected[p])
    /\ pending' = [pending EXCEPT ![c] = "submitted"]
    /\ identities' = [identities EXCEPT ![c] = p]
    /\ leases' = [leases EXCEPT ![c] = disconnected[p].lease]
    /\ IssueToken(p, c)
    /\ fate' = [fate EXCEPT ![t] = "spent", ![c] = "handed"]
    /\ UNCHANGED <<disconnected, conn, grace, renewal, row, renewals, restarts, lapsed, excused>>

(* _reconnect with the token that went to the peer t, accepted.             *)
Resume(c, t, p) ==
    /\ conn[c] = "authing" /\ pending[c] = "open"
    /\ fate[t] # "unissued" /\ tokens[p] = t
    /\ disconnected[p] # Nobody /\ p \notin Present /\ ~Expired(disconnected[p])
    /\ pending' = [pending EXCEPT ![c] = "submitted"]
    /\ disconnected' = [disconnected EXCEPT ![p] = Nobody]
    /\ identities' = [identities EXCEPT ![c] = p]
    /\ leases' = [leases EXCEPT ![c] = disconnected[p].lease]
    /\ IssueToken(p, c)
    /\ fate' = [fate EXCEPT ![t] = "spent", ![c] = "handed"]
    /\ UNCHANGED <<conn, grace, renewal, row, renewals, restarts, lapsed, excused>>

(* _reconnect after the grace: the entry and the token go, and the peer.    *)
ResumeLate(c, t, p) ==
    /\ conn[c] = "authing" /\ pending[c] = "open"
    /\ fate[t] # "unissued" /\ tokens[p] = t
    /\ disconnected[p] # Nobody /\ p \notin Present /\ Expired(disconnected[p])
    /\ pending' = [pending EXCEPT ![c] = "no"]
    /\ disconnected' = [disconnected EXCEPT ![p] = Nobody]
    /\ tokens' = [tokens EXCEPT ![p] = Nobody]
    /\ conn' = [conn EXCEPT ![c] = "closing"]
    /\ fate' = [fate EXCEPT ![t] = "spent"]
    /\ UNCHANGED <<identities, leases, auth, grace, renewal, row, renewals, restarts, lapsed, excused>>

(* _authenticate resumes from the redemption of a ticket of player p.       *)
Redeemed(c, p) ==
    /\ auth[c].at = "redeem" /\ pending[c] # "no"
    /\ IF p \in Present
       THEN Reject(c, [auth EXCEPT ![c] = Resting])
       ELSE /\ auth' = [auth EXCEPT ![c] = [Resting EXCEPT !.at = "acquire", !.player = p,
                                                           !.call = "posted"]]
            /\ Keep /\ UNCHANGED <<conn, pending>>
    /\ UNCHANGED <<tokens, grace, renewal, row, renewals, restarts, ghosts>>

(* ... from a call that failed, the ticket, the lease or the progress        *)
(* snapshot; after the ticket it first looks whether the peer is still there.*)
AuthFailed(c) ==
    /\ auth[c].at \in {"redeem", "reading"} \/ auth[c].call = "failed"
    /\ LET a == [auth EXCEPT ![c] = Resting] IN
       IF auth[c].at = "redeem" /\ pending[c] = "no"
       THEN auth' = a /\ Keep /\ UNCHANGED <<conn, pending>>
       ELSE Reject(c, a)
    /\ UNCHANGED <<tokens, grace, renewal, row, renewals, restarts, ghosts>>

(* A slip: the player is entered before the lease.                          *)
AcquiredWithoutLease(c) ==
    /\ auth[c].at = "acquire" /\ auth[c].call = "ok"
    /\ identities' = [identities EXCEPT ![c] = auth[c].player]
    /\ auth' = [auth EXCEPT ![c] = [Resting EXCEPT !.at = "reading", !.player = auth[c].player]]
    /\ UNCHANGED <<conn, pending, leases, disconnected, tokens, grace, renewal, row, renewals, restarts, ghosts>>

(* _authenticate resumes from the acquisition of the lease.  Nothing looks  *)
(* at pending again: the peer may have gone while it waited.                *)
Acquired(c) ==
    LET p == auth[c].player IN
    /\ auth[c].at = "acquire" /\ auth[c].call = "ok"
    /\ identities' = [identities EXCEPT ![c] = p]
    /\ leases' = [leases EXCEPT ![c] = [player |-> p, token |-> auth[c].token]]
    /\ LET a == [auth EXCEPT ![c] = [Resting EXCEPT !.at = "reading", !.player = p]] IN
       auth' = IF row[p].live /\ row[p].token = auth[c].token THEN Begins(p, a) ELSE a
    /\ UNCHANGED <<conn, pending, disconnected, tokens, grace, renewal, row, renewals, restarts, ghosts>>

(* ... from the progress snapshot and the quests, whose failure it ignores. *)
Authenticated(c) ==
    /\ auth[c].at = "reading"
    /\ IssueToken(auth[c].player, c)
    /\ fate' = [d \in Peers |-> IF d = c /\ conn[c] = "authing" THEN "handed"
                                ELSE IF d = tokens[auth[c].player] THEN "spent" ELSE fate[d]]
    /\ Keep /\ UNCHANGED <<conn, pending, grace, renewal, row, renewals, restarts, lapsed, excused>>

(* The transport admits the peer: peer_connected.                           *)
Join(c) ==
    /\ conn[c] = "authing" /\ auth[c].at = "done"
    /\ conn' = [conn EXCEPT ![c] = "joined"]
    /\ pending' = [pending EXCEPT ![c] = "no"]
    /\ auth' = [auth EXCEPT ![c] = Resting]
    /\ Keep /\ UNCHANGED <<tokens, grace, renewal, row, renewals, restarts, ghosts>>
-----------------------------------------------------------------------------
(* The grace of the entry that c left behind ends; the lease timer may have  *)
(* the entry in hand.                                                       *)
GraceEnds(c) ==
    /\ \E p \in Players :
         /\ disconnected[p] # Nobody /\ disconnected[p].from = c /\ ~Expired(disconnected[p])
         /\ Outlasted(c)
         /\ disconnected' = [disconnected EXCEPT ![p].over = TRUE]
         /\ renewal' = IF renewal.saved = disconnected[p] THEN [renewal EXCEPT !.saved.over = TRUE]
                       ELSE renewal
    /\ UNCHANGED <<conn, pending, identities, leases, tokens, auth, grace, row, renewals, restarts, ghosts>>

(* The loop of _tick_disconnected, over the keys it has left, up to its     *)
(* next await: entries in grace are passed, an expired one is erased  *)
(* and its lease released, and a key that has gone ends the coroutine in a  *)
(* script error.                                                            *)
PassedOver(keys) == {p \in keys : disconnected[p] # Nobody /\ ~Expired(disconnected[p])}

(* A slip: the entry is not erased.                                         *)
ExpireAndKeep(t, keys) ==
    \E p \in keys : \E passed \in SUBSET (PassedOver(keys) \ {p}) :
        /\ disconnected[p] # Nobody /\ Expired(disconnected[p])
        /\ grace' = [grace EXCEPT ![t] =
                       [at |-> "release", left |-> keys \ (passed \cup {p}),
                        saved |-> disconnected[p], call |-> "posted"]]
        /\ tokens' = [tokens EXCEPT ![p] = Nobody]
        /\ fate' = [c \in Peers |-> IF c = tokens[p] THEN "spent" ELSE fate[c]]
        /\ UNCHANGED <<conn, pending, identities, leases, disconnected>>

(* Each key is visited in turn; the coroutine stops at the first expired.   *)
ExpireOne(t, keys) ==
    \E p \in keys : \E passed \in SUBSET (PassedOver(keys) \ {p}) :
        /\ disconnected[p] # Nobody /\ Expired(disconnected[p])
        /\ grace' = [grace EXCEPT ![t] =
                       [at |-> "release", left |-> keys \ (passed \cup {p}),
                        saved |-> disconnected[p], call |-> "posted"]]
        /\ disconnected' = [disconnected EXCEPT ![p] = Nobody]
        /\ tokens' = [tokens EXCEPT ![p] = Nobody]
        /\ fate' = [c \in Peers |-> IF c = tokens[p] THEN "spent" ELSE fate[c]]
        /\ UNCHANGED <<conn, pending, identities, leases>>

FindNone(t, keys) ==
    /\ PassedOver(keys) = keys
    /\ grace' = [grace EXCEPT ![t] = NoTick]
    /\ UNCHANGED <<memory, fate>>

MissKey(t, keys) ==
    /\ \E p \in keys : disconnected[p] = Nobody
    /\ grace' = [grace EXCEPT ![t] = BadTick]
    /\ UNCHANGED <<memory, fate>>

(* The grace timer fires.                                                   *)
TickDisconnected(t) ==
    /\ grace[t].at \in {"idle", "aborted"}
    /\ ExpireOne(t, {p \in Players : disconnected[p] # Nobody})
    /\ UNCHANGED <<auth, renewal, row, renewals, restarts, lapsed, excused>>

(* ... the lease and then the reservation are released, whatever the       *)
(* answers: the coroutine reads nothing between the two awaits.             *)
SeatReleased(t) ==
    /\ grace[t].at = "release" /\ grace[t].call # "posted"
    /\ \/ ExpireOne(t, grace[t].left)
       \/ FindNone(t, grace[t].left)
       \/ MissKey(t, grace[t].left)
    /\ UNCHANGED <<auth, renewal, row, renewals, restarts, lapsed, excused>>
-----------------------------------------------------------------------------
(* _renew_sessions: the coroutine after it has looked for its next key.     *)
RenewPeer(held, keys) ==
    {IF held[c] = Nobody THEN BadRenewal
     ELSE [loop |-> "peers", left |-> keys \ {c}, key |-> c,
           saved |-> [from |-> c, lease |-> held[c], over |-> FALSE], call |-> "posted"] : c \in keys}

RenewPlayer(kept, keys) ==
    {IF kept[p] = Nobody THEN BadRenewal
     ELSE [loop |-> "players", left |-> keys \ {p}, key |-> p,
           saved |-> kept[p], call |-> "posted"] : p \in keys}

OrDone(steps) == IF steps = {} THEN {NoRenewal} ELSE steps

(* The second loop takes its keys when the first one ends.                  *)
NextPeer(held, kept, keys) ==
    IF keys # {} THEN RenewPeer(held, keys)
    ELSE OrDone(RenewPlayer(kept, {p \in Players : kept[p] # Nobody}))

(* The lease timer fires.                                                   *)
RenewSessions ==
    /\ renewal.loop \in {"idle", "aborted"}
    /\ renewal' \in NextPeer(leases, disconnected, {c \in Peers : leases[c] # Nobody})
    /\ renewal' # renewal
    /\ renewals < MaxRenewals /\ renewals' = renewals + 1
    /\ UNCHANGED <<memory, auth, grace, row, restarts, ghosts>>

(* leases[id] = out, even if the peer has gone meanwhile.                   *)
PeerRenewed ==
    LET held == [leases EXCEPT ![renewal.key] = renewal.saved.lease] IN
    /\ renewal.loop = "peers" /\ renewal.call = "ok"
    /\ leases' = held
    /\ renewal' \in NextPeer(held, disconnected, renewal.left)
    /\ UNCHANGED <<conn, pending, identities, disconnected, tokens, auth, grace, row, renewals, restarts, ghosts>>

(* leases[id]["uncertain"] = true, a script error if the peer has gone.     *)
PeerNotRenewed ==
    /\ renewal.loop = "peers" /\ renewal.call = "failed"
    /\ renewal' \in IF leases[renewal.key] = Nobody THEN {BadRenewal}
                    ELSE NextPeer(leases, disconnected, renewal.left)
    /\ UNCHANGED <<memory, auth, grace, row, renewals, restarts, ghosts>>

(* disconnected[player_id] = saved, even if the player is back or out.      *)
PlayerRenewed ==
    LET p    == renewal.key
        kept == [disconnected EXCEPT ![p] = renewal.saved] IN
    /\ renewal.loop = "players" /\ renewal.call = "ok"
    /\ disconnected' = kept
    /\ excused' = IF disconnected[p] = renewal.saved THEN excused ELSE excused \cup {p}
    /\ renewal' \in OrDone(RenewPlayer(kept, renewal.left))
    /\ UNCHANGED <<conn, pending, identities, leases, tokens, auth, grace, row, renewals, restarts, fate, lapsed>>

PlayerNotRenewed ==
    /\ renewal.loop = "players" /\ renewal.call = "failed"
    /\ renewal' \in OrDone(RenewPlayer(disconnected, renewal.left))
    /\ UNCHANGED <<memory, auth, grace, row, renewals, restarts, ghosts>>
-----------------------------------------------------------------------------
(* The Backend's side of the calls: AcquireSession, RenewSession and       *)
(* ReleaseSession on the row of one player.                                 *)

(* A slip: a lapsed lease is taken over under its old token.                *)
GrantedSame(p)  == [token |-> IF row[p].token = 0 THEN 1 ELSE row[p].token,
                    live |-> TRUE]
Granted(p)      == [token |-> row[p].token + 1, live |-> TRUE]
Matches(lease)  == row[lease.player].token = lease.token

ServeAcquire(c) ==
    LET p == auth[c].player IN
    /\ auth[c].at = "acquire" /\ auth[c].call = "posted"
    /\ ~row[p].live /\ row[p].token < MaxToken
    /\ row' = [row EXCEPT ![p] = Granted(p)]
    /\ \E answer \in {"ok", "failed"} :
         auth' = Begins(p, [auth EXCEPT ![c].call = answer,
                                        ![c].token = IF answer = "ok" THEN Granted(p).token ELSE 0])
    /\ UNCHANGED <<memory, grace, renewal, renewals, restarts, ghosts>>

LoseAcquire(c) ==
    /\ auth[c].at = "acquire" /\ auth[c].call = "posted"
    /\ auth' = [auth EXCEPT ![c].call = "failed"]
    /\ UNCHANGED <<memory, grace, renewal, row, renewals, restarts, ghosts>>

ServeRenewal ==
    LET lease == renewal.saved.lease IN
    /\ renewal.call = "posted"
    /\ Matches(lease) /\ row[lease.player].live
    /\ auth' = Begins(lease.player, auth)
    /\ \E answer \in {"ok", "failed"} : renewal' = [renewal EXCEPT !.call = answer]
    /\ UNCHANGED <<memory, grace, row, renewals, restarts, ghosts>>

LoseRenewal ==
    /\ renewal.call = "posted"
    /\ renewal' = [renewal EXCEPT !.call = "failed"]
    /\ UNCHANGED <<memory, auth, grace, row, renewals, restarts, ghosts>>

ServeRelease(t) ==
    LET lease == grace[t].saved.lease IN
    /\ grace[t].call = "posted"
    /\ Matches(lease)
    /\ row' = [row EXCEPT ![lease.player] = NoRow]
    /\ excused' = excused \cup ({lease.player} \cap lapsed)
    /\ grace' = [grace EXCEPT ![t].call = "ok"]
    /\ UNCHANGED <<memory, auth, renewal, renewals, restarts, fate, lapsed>>

LoseRelease(t) ==
    /\ grace[t].call = "posted"
    /\ grace' = [grace EXCEPT ![t].call = "failed"]
    /\ UNCHANGED <<memory, auth, renewal, row, renewals, restarts, ghosts>>

(* 30 s without a renewal.                                                  *)
Lapse(p) ==
    /\ row[p].live /\ Outlasted(p)
    /\ row' = [row EXCEPT ![p].live = FALSE]
    /\ lapsed' = lapsed \cup {p}
    /\ UNCHANGED <<memory, auth, grace, renewal, renewals, restarts, fate, excused>>

(* The process stops and another one takes its place: nothing is kept.      *)
Restart ==
    /\ restarts < MaxRestarts
    /\ restarts' = restarts + 1
    /\ conn' = [c \in Peers |-> IF conn[c] = "new" THEN "new" ELSE "gone"]
    /\ fate' = [c \in Peers |-> IF fate[c] = "unissued" THEN "unissued" ELSE "spent"]
    /\ pending' = [c \in Peers |-> "no"]
    /\ identities' = [c \in Peers |-> Nobody]
    /\ leases' = [c \in Peers |-> Nobody]
    /\ disconnected' = [p \in Players |-> Nobody]
    /\ tokens' = [p \in Players |-> Nobody]
    /\ auth' = [c \in Peers |-> Resting]
    /\ grace' = [t \in Ticks |-> NoTick]
    /\ renewal' = NoRenewal
    /\ UNCHANGED <<row, renewals, lapsed, excused>>
-----------------------------------------------------------------------------
PeerStep(c) ==
    \/ Connect(c) \/ Drop(c) \/ RefusePacket(c) \/ SubmitTicket(c)
    \/ \E t \in Peers, p \in Players : Resume(c, t, p) \/ ResumeLate(c, t, p)
    \/ Join(c)
    \/ GraceEnds(c)

AuthStep(c) ==
    \/ \E p \in Players : Redeemed(c, p)
    \/ Acquired(c) \/ AuthFailed(c) \/ Authenticated(c)
    \/ ServeAcquire(c) \/ LoseAcquire(c)

TickStep(t) ==
    TickDisconnected(t) \/ SeatReleased(t) \/ ServeRelease(t) \/ LoseRelease(t)

RenewalStep ==
    \/ RenewSessions \/ PeerRenewed \/ PeerNotRenewed \/ PlayerRenewed \/ PlayerNotRenewed
    \/ ServeRenewal \/ LoseRenewal

Next ==
    \/ \E c \in Peers : PeerStep(c) \/ AuthStep(c)
    \/ \E t \in Ticks : TickStep(t)
    \/ RenewalStep
    \/ \E p \in Players : Lapse(p)
    \/ Restart

Spec == Init /\ [][Next]_vars

(* The clock goes on, the grace timer fires, and every call is answered or  *)
(* given up after 4 s.                                                      *)
FairSpec ==
    /\ Spec
    /\ \A c \in Peers : WF_vars(GraceEnds(c)) /\ WF_vars(AuthStep(c))
    /\ \A t \in Ticks : WF_vars(TickStep(t))
-----------------------------------------------------------------------------
(* A peer the server knows a player for, and every peer in the game, holds  *)
(* a lease of that player: what _renew_sessions, _try_pickup and the other  *)
(* RPCs of a player index leases with (server.gd:378, 447, 475).            *)
IdentitiesHoldLeases ==
    \A c \in Peers :
        /\ identities[c] # Nobody => leases[c] # Nobody /\ leases[c].player = identities[c]
        /\ conn[c] = "joined" => identities[c] # Nobody

(* What the script's dictionaries hold, and that they hold it together       *)
(* (server.gd:10-36).                                                        *)
SessionInv == TypeOK /\ IdentitiesHoldLeases

(* Two peers never both commit for one player: _authenticate looks for the  *)
(* player before it awaits the lease, and _reconnect may let the player in  *)
(* meanwhile; the fencing token then tells them apart (server.gd:331-338),  *)
(* as long as it does not begin again: a release deletes the row of the     *)
(* player, and with a lapse before it a second peer may hold an old token.  *)
OneCommitter ==
    \A c, d \in Peers :
        /\ c # d
        /\ identities[c] # Nobody /\ identities[d] = identities[c]
        /\ identities[c] \notin excused
        => ~(Matches(leases[c]) /\ Matches(leases[d]))

(* A reconnect token that was used, that was superseded, that outlived the  *)
(* grace or that another process handed out lets nobody in                  *)
(* (server.gd:227-261, 276).                                                *)
TokensUsedOnce ==
    \A p \in Players : tokens[p] # Nobody => fate[tokens[p]] # "spent"

(* A player is in the game or in grace, never both, or the end of the grace *)
(* would give up the lease and the seat of a player who plays.  It takes a  *)
(* lapsed lease, or a renewal that was under way when the player came back, *)
(* to break this (server.gd:251, 338, 459).                                 *)
InGameOrInGrace ==
    \A p \in Players : disconnected[p] # Nobody /\ p \in Present => p \in lapsed \cup excused

(* No coroutine reads a key that went away while it waited: the integration *)
(* test fails on a log with "ERROR:" (Backend/cmd/g1integration/main.go:477).*)
NoScriptError ==
    /\ renewal.loop # "aborted"
    /\ \A t \in Ticks : grace[t].at # "aborted"

(* A player who does not come back does not stay in grace, whatever becomes *)
(* of the timers' coroutines (server.gd:269-284).                           *)
GraceEntriesEnd ==
    \A p \in Players : disconnected[p] # Nobody ~> disconnected[p] = Nobody
-----------------------------------------------------------------------------
(* The inductive invariants of SessionInv, TokensUsedOnce, InGameOrInGrace   *)
(* and OneCommitter.                                                         *)

(* A peer lets a player in once: it submits one packet, and what has begun to *)
(* run or was given a lease does not begin again.                            *)
HasEntered(c) ==
    conn[c] # "new" /\ pending[c] # "open" /\ auth[c].at \notin {"redeem", "acquire"}

PeersInv ==
    \A c \in Peers :
        /\ conn[c] = "new" \/ pending[c] = "open" => auth[c].at = "idle"
        /\ conn[c] = "authing" /\ auth[c].at \in {"reading", "done"} => identities[c] # Nobody
        /\ auth[c].at \in {"acquire", "reading"} => auth[c].player # Nobody
        /\ auth[c].call # NoCall => auth[c].at = "acquire"
        /\ auth[c].call = "ok" => auth[c].token # 0
        /\ leases[c] # Nobody => HasEntered(c)

KeptInv ==
    /\ \A p \in Players : disconnected[p] # Nobody => disconnected[p].lease.player = p
    /\ \A t \in Ticks : grace[t].call = "posted" => grace[t].saved # Nobody

RenewalInv ==
    /\ renewal.call # NoCall => renewal.loop \in {"peers", "players"}
    /\ renewal.loop \in {"peers", "players"} => renewal.saved # Nobody
    /\ renewal.loop = "peers" =>
          /\ renewal.key \in Peers /\ renewal.left \subseteq Peers
          /\ HasEntered(renewal.key)
          /\ identities[renewal.key] # Nobody => renewal.saved.lease = leases[renewal.key]
    /\ renewal.loop = "players" =>
          /\ renewal.key \in Players /\ renewal.left \subseteq Players
          /\ renewal.saved.lease.player = renewal.key

CoreInv == SessionInv /\ PeersInv /\ KeptInv /\ RenewalInv

(* A peer is given a token once, and no two players have the same one.       *)
TokensInv ==
    /\ \A p, q \in Players : p # q /\ tokens[p] # Nobody => tokens[p] # tokens[q]
    /\ \A c \in Peers :
          fate[c] # "unissued" \/ (\E p \in Players : tokens[p] = c) =>
              HasEntered(c) /\ auth[c].at # "reading"
    /\ TokensUsedOnce

(* The lease of a player who never lost it and whom no renewal put back is in *)
(* one hand: that of a peer, of the grace or of a release under way.         *)
Holds(c, p) ==
    \/ identities[c] = p
    \/ auth[c].at = "acquire" /\ auth[c].call = "ok" /\ auth[c].player = p

HeldToken(c) == IF identities[c] # Nobody THEN leases[c].token ELSE auth[c].token

Releases(t, p) == grace[t].call = "posted" /\ grace[t].saved.lease.player = p

Valid(p, token) == row[p].live /\ row[p].token = token

InOneHand(p) ==
    /\ \A c \in Peers : Holds(c, p) => Valid(p, HeldToken(c)) /\ disconnected[p] = Nobody
    /\ \A c, d \in Peers : Holds(c, p) /\ Holds(d, p) => c = d
    /\ disconnected[p] # Nobody => Valid(p, disconnected[p].lease.token)
    /\ \A t \in Ticks : Releases(t, p) =>
          /\ Valid(p, grace[t].saved.lease.token) /\ disconnected[p] = Nobody
          /\ \A c \in Peers : ~Holds(c, p)
    /\ \A t, u \in Ticks : Releases(t, p) /\ Releases(u, p) => t = u

HandsInv == \A p \in Players \ (lapsed \cup excused) : InOneHand(p)

(* No hand holds a token that is still to be granted, and one hand at most    *)
(* holds the last one.                                                       *)
Fenced(p) ==
    /\ \A c \in Peers : Holds(c, p) => HeldToken(c) <= row[p].token
    /\ disconnected[p] # Nobody => disconnected[p].lease.token <= row[p].token
    /\ \A c, d \in Peers :
          Holds(c, p) /\ Holds(d, p) /\ HeldToken(c) = row[p].token /\ HeldToken(d) = row[p].token
          => c = d
    /\ \A c \in Peers :
          Holds(c, p) /\ disconnected[p] # Nobody /\ HeldToken(c) = row[p].token
          => disconnected[p].lease.token # row[p].token

FencesInv == \A p \in Players \ excused : Fenced(p)
=============================================================================
