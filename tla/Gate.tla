-------------------------------- MODULE Gate --------------------------------
(* The HTTP layer of the Backend: how a request is checked, step by step,     *)
(* before it reaches the service, and the rate limiter.                       *)
(*                                                                           *)
(* The limiter keeps the times of the admitted requests of each key, a path   *)
(* and a client address, in a table of at most MaxWindows keys.  One mutex    *)
(* covers slot(), and the time is read under it, so that a call of slot() is  *)
(* one step; nothing else of a request is shared, so that a request is one    *)
(* step as well.  What the service makes of a request is modelled elsewhere:  *)
(* here it is any of the outcomes that the routes tell apart.  Texts, field    *)
(* names and lengths are left out: a request is valid or is not.              *)
EXTENDS Integers, Sequences, FiniteSets

CONSTANTS
    Paths,       \* URLs
    Route,       \* for each path, the part of ServeHTTP that serves it
    Limit,       \* for each path, requests per minute and address, 0 for any
    Addresses,   \* client addresses
    Wrong,       \* the sets of things that can be wrong with a request
    Minute,      \* ticks in a minute
    MaxWindows,  \* keys in the table (2048)
    MaxClock     \* bound: time ends

Routes == {"live", "ready", "maps", "login", "redeem", "progress", "quest",
           "rooms", "logout", "ticket", "allocate", "none"}

(* What can be wrong with a request, and what the service can make of it.    *)
(* "credentials" stands for a session that is not there as well; "none" is no *)
(* row, "failed" any other error, among them a commit of unknown outcome.     *)
Flaws    == {"transport", "length", "body", "method", "credentials", "content",
             "version"}
Outcomes == {"ok", "none", "unauthorized", "conflict", "rejected", "failed"}

Keys == {k \in Paths \X Addresses : Limit[k[1]] > 0}

ASSUME GateAssumption ==
    /\ Route \in [Paths -> Routes]
    /\ Limit \in [Paths -> Nat]
    /\ \A p \in Paths : Limit[p] = 0 <=> Route[p] \in {"live", "ready", "maps", "none"}
    /\ Wrong \subseteq SUBSET Flaws
    /\ Minute \in Nat \ {0}
    /\ MaxWindows \in Nat \ {0}
    /\ MaxClock \in Nat

VARIABLES
    clock,    \* time.Now()
    windows,  \* the table: times of admissions of the keys it holds
    answer,   \* the last response, and what the service did for it
    log       \* ghost: all times of admissions of each key by this process

vars == <<clock, windows, answer, log>>

Unasked  == "unasked"

TypeOK ==
    /\ clock \in 0..MaxClock
    /\ DOMAIN windows \subseteq Keys
    /\ windows \in [DOMAIN windows -> Seq(Nat)]
    /\ answer.status \in {0, 200, 400, 401, 404, 405, 409, 413, 422, 429, 503}
    /\ answer.outcome \in Outcomes \cup {Unasked}
    /\ log \in [Keys -> Seq(Nat)]

EmptyLog == [k \in Keys |-> <<>>]

NoAnswer == [status |-> 0, outcome |-> Unasked]

Init == clock = 0 /\ windows = <<>> /\ answer = NoAnswer /\ log = EmptyLog
-----------------------------------------------------------------------------
(* slot(): keys whose newest admission is a minute old leave the table, then  *)
(* the key's own window loses its old head.                                   *)
Old(t) == clock - t >= Minute

Swept ==
    LET live == {k \in DOMAIN windows : ~Old(windows[k][Len(windows[k])])}
    IN  [k \in live |-> windows[k]]

Trimmed(v) ==
    LET n == CHOOSE i \in 0..Len(v) :
                 /\ \A j \in 1..i : Old(v[j])
                 /\ i < Len(v) => ~Old(v[i + 1])
    IN  SubSeq(v, n + 1, Len(v))

Window(k) == IF k \in DOMAIN Swept THEN Trimmed(Swept[k]) ELSE <<>>

TableFull(k) == k \notin DOMAIN Swept /\ Cardinality(DOMAIN Swept) >= MaxWindows

(* A slip: one request too many.                                              *)
GrantedOneMore(k) == ~TableFull(k) /\ Len(Window(k)) <= Limit[k[1]]

Granted(k) == ~TableFull(k) /\ Len(Window(k)) < Limit[k[1]]

Grant(k) ==
    /\ Granted(k)
    /\ windows' = [j \in DOMAIN Swept \cup {k} |->
                      IF j = k THEN Append(Window(k), clock) ELSE Swept[j]]
    /\ log' = [log EXCEPT ![k] = Append(@, clock)]

(* A slip: the refused request is recorded as well.                           *)
DenyAndExtend(k) ==
    /\ ~Granted(k)
    /\ windows' = IF k \in DOMAIN Swept
                  THEN [Swept EXCEPT ![k] = Append(Window(k), clock)] ELSE Swept
    /\ UNCHANGED log

Deny(k) ==
    /\ ~Granted(k)
    /\ windows' = Swept
    /\ UNCHANGED log
-----------------------------------------------------------------------------
(* Each route is a list of refusals <<condition, status>>, in the code's      *)
(* order; the first that applies is the answer.  A request that passes them   *)
(* all reaches the service.                                                   *)
Bad(r, flaw, status) == <<flaw \in r.wrong, status>>

Common(r) == <<Bad(r, "length", 413), Bad(r, "body", 400)>>

ServiceRoute(r) == <<Bad(r, "method", 405), Bad(r, "credentials", 401),
                     Bad(r, "content", 422)>>

SessionRoute(r) == <<Bad(r, "method", 405), Bad(r, "credentials", 401)>> \o
    IF Route[r.path] \in {"ticket", "allocate"}
    THEN <<Bad(r, "content", 422), Bad(r, "version", 409)>> ELSE <<>>

Refusals(r) == Common(r) \o
    CASE Route[r.path] \in {"live", "ready"} -> <<Bad(r, "method", 405)>>
      [] Route[r.path] = "none" -> << <<TRUE, 404>> >>
      [] Route[r.path] = "login" -> <<Bad(r, "method", 405), Bad(r, "content", 422)>>
      [] Route[r.path] \in {"redeem", "progress", "quest", "rooms"} -> ServiceRoute(r)
      [] Route[r.path] \in {"maps", "logout", "ticket", "allocate"} -> SessionRoute(r)

(* dbError, and the two routes that look at the error first.                  *)
DbError(outcome) ==
    CASE outcome = "ok" -> 200
      [] outcome \in {"none", "unauthorized"} -> 401
      [] outcome = "conflict" -> 409
      [] outcome \in {"rejected", "failed"} -> 503

Status(path, outcome) ==
    CASE Route[path] = "quest" /\ outcome = "rejected" -> 422
      [] Route[path] = "allocate" /\ outcome = "none" -> 409
      [] Route[path] = "ready" /\ outcome # "ok" -> 503
      [] OTHER -> DbError(outcome)

(* What the service can return on a path.                                     *)
Possible(path) ==
    CASE Route[path] = "live" -> {"ok"}
      [] Route[path] = "ready" -> {"ok", "failed"}
      [] Route[path] \in {"maps", "logout"} -> {"ok", "failed"}
      [] Route[path] \in {"rooms", "ticket", "allocate"} -> {"ok", "none", "failed"}
      [] Route[path] \in {"login", "redeem"} -> {"ok", "none", "unauthorized", "failed"}
      [] Route[path] = "progress" -> {"ok", "none", "conflict", "failed"}
      [] Route[path] = "quest" -> {"ok", "none", "rejected", "failed"}
      [] OTHER -> {}

Answer(r) ==
    LET list == Refusals(r)
        hits == {i \in DOMAIN list : list[i][1]}
    IN  IF hits # {}
        THEN answer' = [status |-> list[CHOOSE i \in hits : \A j \in hits : i <= j][2],
                        outcome |-> Unasked]
        ELSE \E outcome \in Possible(r.path) :
                 answer' = [status |-> Status(r.path, outcome), outcome |-> outcome]

Refuse(status) == answer' = [status |-> status, outcome |-> Unasked]

Requests == [path : Paths, ip : Addresses, wrong : Wrong]

(* ServeHTTP: the transport, then the limiter, then the rest.                 *)
Insecure(r) ==
    /\ "transport" \in r.wrong
    /\ Refuse(400)
    /\ UNCHANGED <<clock, windows, log>>

Unlimited(r) ==
    /\ "transport" \notin r.wrong
    /\ <<r.path, r.ip>> \notin Keys
    /\ Answer(r)
    /\ UNCHANGED <<clock, windows, log>>

Admitted(r) ==
    /\ "transport" \notin r.wrong
    /\ <<r.path, r.ip>> \in Keys
    /\ Grant(<<r.path, r.ip>>)
    /\ Answer(r)
    /\ UNCHANGED clock

RateLimited(r) ==
    /\ "transport" \notin r.wrong
    /\ <<r.path, r.ip>> \in Keys
    /\ Deny(<<r.path, r.ip>>)
    /\ Refuse(429)
    /\ UNCHANGED clock

(* A new process (New) starts with an empty table.                            *)
Restart == /\ windows' = <<>> /\ answer' = NoAnswer /\ log' = EmptyLog
           /\ UNCHANGED clock

Tick == clock < MaxClock /\ clock' = clock + 1 /\ UNCHANGED <<windows, answer, log>>

Next ==
    \/ \E r \in Requests : Insecure(r) \/ Unlimited(r) \/ Admitted(r) \/ RateLimited(r)
    \/ Restart
    \/ Tick

Spec == Init /\ [][Next]_vars
-----------------------------------------------------------------------------
(* In any minute a key is admitted no more often than its limit: Limit + 1    *)
(* admissions in a row span at least a minute, whatever the table forgets.    *)
SlidingLimit ==
    \A k \in Keys : \A i \in DOMAIN log[k] :
        i > Limit[k[1]] => log[k][i] - log[k][i - Limit[k[1]]] >= Minute

(* What the table holds of a key is the end of its log, never empty (slot()   *)
(* reads its last element), and all that it has dropped is a minute old.      *)
Kept(k) == IF k \in DOMAIN windows THEN windows[k] ELSE <<>>

WindowsAreTails ==
    /\ Cardinality(DOMAIN windows) <= MaxWindows
    /\ \A k \in DOMAIN windows : windows[k] # <<>>
    /\ \A k \in Keys :
          LET dropped == Len(log[k]) - Len(Kept(k))
          IN  /\ dropped >= 0
              /\ \A i \in 1..Len(Kept(k)) : Kept(k)[i] = log[k][dropped + i]
              /\ \A i \in 1..dropped : Old(log[k][i])

(* The GameServer takes 409 and 422 for refusals and all else for unknown: a   *)
(* change that may have been made is never answered with them.                *)
UnsureIsUnavailable == answer.outcome = "failed" => answer.status = 503

(* The limiter turns away only what AdmissionBook lets it.                    *)
KeyLimit == [k \in Keys |-> Limit[k[1]]]

Book == INSTANCE AdmissionBook WITH Limit <- KeyLimit, turned <- answer.status = 429

ImplementsAdmissionBook == Book!Spec
=============================================================================
