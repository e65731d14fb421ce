--------------------------- MODULE ProgressStore ---------------------------
(***************************************************************************)
(* Backend/infra/postgres.go, the progress and lease tables, for ONE       *)
(* player: every statement of these transactions is keyed by player_id.    *)
(*                                                                         *)
(* A GameServer room takes a lease on the player (AcquireSession), renews  *)
(* it, and commits pickups, equipment changes and quest steps under it.    *)
(* Several HTTP calls are in flight at once; a commit travels, becomes a   *)
(* transaction (which fixes now()), takes the row lock and writes, commits *)
(* and answers; it may be lost or fail between any two of these steps.     *)
(*                                                                         *)
(* Time.  Only differences matter, so the lease is a count-down and a call *)
(* has an age.  PostgreSQL's now() is the start of the transaction: seen   *)
(* from a transaction of age a, a lease with ttl t left still has t + a.   *)
(*                                                                         *)
(* Ghost state: the epoch of a lease (how many were ever granted) is       *)
(* carried along and read by no guard.                                     *)
(***************************************************************************)
EXTENDS ProgressRules

CONSTANTS
    Rooms,                  \* room identifiers of the GameServers
    Calls,                  \* HTTP calls that may be in flight together
    Operations,             \* operation identifiers
    Requests,               \* [op, payload] pairs the rooms send
    NoRequest,              \* what an idle call carries
    LeaseTTL,               \* 30 s
    CtxTimeout,             \* 3 s, the deadline of a call
    ProgressSchemaVersion,  \* the version this server supports
    MaxSessions             \* bound: leases granted in one behaviour

ASSUME StoreAssumption ==
    /\ Rooms # {}
    /\ Requests \subseteq [op : Operations, payload : Payload]
    /\ LeaseTTL \in Nat /\ CtxTimeout \in Nat \ {0} /\ LeaseTTL > CtxTimeout
    /\ ProgressSchemaVersion \in Nat \ {0}
    /\ MaxSessions \in Nat

VARIABLES
    version,   \* player_progress.schema_version, 0 when there is no row
    rev,       \* player_progress.revision
    progress,  \* player_progress.inventory, equipment, quests
    ops,       \* the rows of progress_operation
    lease,     \* the row of active_player_session, token 0 when there is none
    epoch,     \* ghost: leases granted so far
    held,      \* the leases the running GameServers know, renew and use
    stage,     \* call -> where its handler stands
    age,       \* call -> time since it began
    sent,      \* call -> what it asks for
    image,     \* call -> the row version its open transaction has written
    acked      \* the commits some room was told have succeeded

table == <<version, rev, progress, ops>>
calls == <<stage, age, sent, image>>
vars  == <<table, lease, epoch, held, calls, acked>>

Grant    == [room : Rooms, token : Nat, epoch : Nat]
Request  == [grant : Grant, op : Operations, payload : Payload, expected : Nat]
OpRow    == [op : Operations, payload : Payload, rev : Nat, epoch : Nat]
LeaseRow == [room : Rooms, token : Nat, ttl : Int, epoch : Nat]
RowImage == [rev : Nat, progress : Progress]

NoLease == [room |-> CHOOSE r \in Rooms : TRUE, token |-> 0, ttl |-> 0, epoch |-> 0]
NoImage == [rev |-> 0, progress |-> NewProgress]

(* The operation a commit in flight asks for.                              *)
Asked(c) == [op |-> sent[c].op, payload |-> sent[c].payload]

TypeOK ==
    /\ version \in Nat
    /\ rev \in Nat
    /\ progress \in Progress
    /\ ops \subseteq OpRow
    /\ lease \in LeaseRow
    /\ epoch \in Nat
    /\ held \subseteq Grant
    /\ stage \in [Calls -> {"idle", "acquiring", "sent", "begun", "staged", "answering"}]
    /\ age \in [Calls -> 0..CtxTimeout]
    /\ image \in [Calls -> RowImage]
    /\ acked \subseteq Requests
    /\ DOMAIN sent = Calls
    /\ \A c \in Calls :
        /\ stage[c] = "acquiring" => sent[c] \in Rooms
        /\ stage[c] \in {"sent", "begun", "staged", "answering"} =>
              sent[c] \in Request /\ Asked(c) \in Requests /\ Valid(sent[c].payload)

Init ==
    /\ version \in 0..ProgressSchemaVersion
    /\ rev = 0
    /\ progress = NewProgress
    /\ ops = {}
    /\ lease = NoLease
    /\ epoch = 0
    /\ held = {}
    /\ stage = [c \in Calls |-> "idle"]
    /\ age = [c \in Calls |-> 0]
    /\ sent = [c \in Calls |-> NoRequest]
    /\ image = [c \in Calls |-> NoImage]
    /\ acked = {}

-----------------------------------------------------------------------------
(* Calls.                                                                  *)

Start(c, first, request) ==
    /\ stage[c] = "idle"
    /\ stage' = [stage EXCEPT ![c] = first]
    /\ sent' = [sent EXCEPT ![c] = request]
    /\ UNCHANGED <<age, image>>

End(c) ==
    /\ stage' = [stage EXCEPT ![c] = "idle"]
    /\ age' = [age EXCEPT ![c] = 0]
    /\ sent' = [sent EXCEPT ![c] = NoRequest]
    /\ image' = [image EXCEPT ![c] = NoImage]

(* The request is lost, or the 3 s deadline, a lost connection or a crash  *)
(* of the Backend ends it: an open transaction rolls back, a committed one *)
(* loses its answer.                                                       *)
Abort(c) ==
    /\ stage[c] # "idle"
    /\ End(c)
    /\ UNCHANGED <<table, lease, epoch, held, acked>>

-----------------------------------------------------------------------------
(* Leases.                                                                 *)

(* lease_expires_at > now(), evaluated by a transaction of that age.       *)
Live(a) == lease.token > 0 /\ lease.ttl + a > 0

LeaseOf(g) == lease.token > 0 /\ lease.room = g.room /\ lease.token = g.token

(* A slip: the token is not incremented when the lease changes hands.      *)
NextTokenSame == 1

(* The insert starts at 1, the update of an expired row adds 1.            *)
NextToken == IF lease.token = 0 THEN 1 ELSE lease.token + 1

BeginAcquire(c, r) ==
    /\ Start(c, "acquiring", r)
    /\ UNCHANGED <<table, lease, epoch, held, acked>>

(* AcquireSession: creates the progress row if there is none, and takes    *)
(* the lease unless a live one exists.                                     *)
Acquire(c) ==
    /\ stage[c] = "acquiring"
    /\ ~Live(age[c])
    /\ epoch < MaxSessions
    /\ LET g == [room |-> sent[c], token |-> NextToken, epoch |-> epoch + 1]
       IN  /\ lease' = [room |-> g.room, token |-> g.token,
                        ttl |-> LeaseTTL - age[c], epoch |-> g.epoch]
           /\ held' = {h \in held : h.room # g.room} \cup {g}
    /\ epoch' = epoch + 1
    /\ version' = IF version = 0 THEN ProgressSchemaVersion ELSE version
    /\ End(c)
    /\ UNCHANGED <<rev, progress, ops, acked>>

AcquireRefused(c) ==
    /\ stage[c] = "acquiring"
    /\ Live(age[c])
    /\ End(c)
    /\ UNCHANGED <<table, lease, epoch, held, acked>>

(* One statement, so now() is the present.                                 *)
Renew(g) ==
    /\ LeaseOf(g) /\ Live(0)
    /\ lease' = [lease EXCEPT !.ttl = LeaseTTL]
    /\ UNCHANGED <<table, epoch, held, calls, acked>>

(* Deletes the row, and with it the token counter.                         *)
Release(g) ==
    /\ LeaseOf(g)
    /\ lease' = NoLease
    /\ held' = held \ {g}
    /\ UNCHANGED <<table, epoch, calls, acked>>

(* A GameServer stops: nobody renews its leases any more.  Requests it     *)
(* already sent may still arrive.                                          *)
Crash(r) ==
    /\ held' = {g \in held : g.room # r}
    /\ UNCHANGED <<table, lease, epoch, calls, acked>>

-----------------------------------------------------------------------------
(* Commits: CommitProgress, CommitEquipment and CommitQuest.               *)

(* A slip: no "for update".                                                *)
RowFreeUnlocked == TRUE

(* Nobody holds the progress row lock, which an open transaction keeps     *)
(* from its "for update" to its end.                                       *)
RowFree == \A c \in Calls : stage[c] # "staged"

(* lockProgressVersion.                                                    *)
VersionReadable == version \in 1..ProgressSchemaVersion

OpRows(o) == {x \in ops : x.op = o}

Applied(q) == \E x \in ops : x.op = q.op /\ x.payload = q.payload

(* The revisions a room may expect: the present one, or one it learnt      *)
(* before.  All of those are refused alike, so one stands for them.        *)
Known == {rev, rev - 1} \cap Nat

(* A room sends a commit under the lease it knows.                         *)
SendCommit(c, g, q, expected) ==
    /\ Valid(q.payload)
    /\ Start(c, "sent", [grant |-> g, op |-> q.op, payload |-> q.payload,
                         expected |-> expected])
    /\ UNCHANGED <<table, lease, epoch, held, acked>>

(* It reaches the Backend, which begins the transaction.                   *)
Begin(c) ==
    /\ stage[c] = "sent"
    /\ stage' = [stage EXCEPT ![c] = "begun"]
    /\ UNCHANGED <<table, lease, epoch, held, age, sent, image, acked>>

(* The operation was applied before, with the same payload: answer from    *)
(* its row, whatever lease and revision the request carries.               *)
Replayable(c) ==
    /\ VersionReadable
    /\ Applied(Asked(c))

(* Slips: no lease in the where clause; no look-up of the operation.       *)
WritableUnfenced(c) ==
    /\ VersionReadable
    /\ OpRows(sent[c].op) = {}
    /\ Owned(progress, sent[c].payload)
    /\ rev = sent[c].expected

WritableTwice(c) ==
    /\ VersionReadable
    /\ Owned(progress, sent[c].payload)
    /\ LeaseOf(sent[c].grant) /\ Live(age[c])
    /\ rev = sent[c].expected

(* The where clause of the guarded update, after the ownership query.      *)
Writable(c) ==
    /\ VersionReadable
    /\ OpRows(sent[c].op) = {}
    /\ Owned(progress, sent[c].payload)
    /\ LeaseOf(sent[c].grant) /\ Live(age[c])
    /\ rev = sent[c].expected

Replay(c) ==
    /\ stage[c] = "begun" /\ RowFree
    /\ Replayable(c)
    /\ stage' = [stage EXCEPT ![c] = "answering"]
    /\ UNCHANGED <<table, lease, epoch, held, age, sent, image, acked>>

Refuse(c) ==
    /\ stage[c] = "begun" /\ RowFree
    /\ ~Replayable(c) /\ ~Writable(c)
    /\ End(c)
    /\ UNCHANGED <<table, lease, epoch, held, acked>>

(* The guarded update: a new row version, invisible until the commit.      *)
Write(c) ==
    /\ stage[c] = "begun" /\ RowFree
    /\ Writable(c)
    /\ stage' = [stage EXCEPT ![c] = "staged"]
    /\ image' = [image EXCEPT ![c] =
                   [rev |-> rev + 1, progress |-> Effect(progress, sent[c].payload)]]
    /\ UNCHANGED <<table, lease, epoch, held, age, sent, acked>>

(* The insert into progress_operation and the commit.                      *)
Commit(c) ==
    /\ stage[c] = "staged"
    /\ rev' = image[c].rev
    /\ progress' = image[c].progress
    /\ ops' = ops \cup {[op |-> sent[c].op, payload |-> sent[c].payload,
                         rev |-> image[c].rev, epoch |-> sent[c].grant.epoch]}
    /\ stage' = [stage EXCEPT ![c] = "answering"]
    /\ image' = [image EXCEPT ![c] = NoImage]
    /\ UNCHANGED <<version, lease, epoch, held, age, sent, acked>>

Answer(c) ==
    /\ stage[c] = "answering"
    /\ acked' = acked \cup {Asked(c)}
    /\ End(c)
    /\ UNCHANGED <<table, lease, epoch, held>>

-----------------------------------------------------------------------------
(* MigrateProgressSchema marks older rows; a newer server (not this code)  *)
(* marks them with a version this one does not support.                    *)
Mark(v) ==
    /\ RowFree
    /\ version' = v
    /\ UNCHANGED <<rev, progress, ops, lease, epoch, held, calls, acked>>

MigrateProgressSchema ==
    version \in 1..(ProgressSchemaVersion - 1) /\ Mark(ProgressSchemaVersion)

NewerServerMigrates == version > 0 /\ Mark(ProgressSchemaVersion + 1)

(* Time passes, but not beyond the deadline of a call in flight.  A lease  *)
(* that ended CtxTimeout ago is expired for every transaction.             *)
Tick ==
    /\ \A c \in Calls : age[c] < CtxTimeout
    /\ age' = [c \in Calls |-> IF stage[c] \in {"idle", "sent"} THEN 0 ELSE age[c] + 1]
    /\ lease' = IF lease.token > 0 /\ lease.ttl > -CtxTimeout
                THEN [lease EXCEPT !.ttl = @ - 1] ELSE lease
    /\ UNCHANGED <<table, epoch, held, stage, sent, image, acked>>

-----------------------------------------------------------------------------
Proceed(c) ==
    Acquire(c) \/ AcquireRefused(c) \/ Begin(c) \/ Replay(c) \/ Refuse(c)
        \/ Write(c) \/ Commit(c) \/ Answer(c) \/ Abort(c)

Ask(c) ==
    \/ \E r \in Rooms : BeginAcquire(c, r)
    \/ \E g \in held, q \in Requests, n \in Known : SendCommit(c, g, q, n)

(* Every step but ReleaseSession.                                          *)
NextNoRelease ==
    \/ \E c \in Calls : Ask(c) \/ Proceed(c)
    \/ \E g \in held : Renew(g)
    \/ \E r \in Rooms : Crash(r)
    \/ MigrateProgressSchema
    \/ NewerServerMigrates
    \/ Tick

Next == NextNoRelease \/ \E g \in held : Release(g)

Spec == Init /\ [][Next]_vars

(* Sessions that end by expiry only, as after a crash of their room.       *)
ExpirySpec == Init /\ [][NextNoRelease]_vars
-----------------------------------------------------------------------------
(* Properties.                                                             *)

(* Every revision the row went through was written by exactly one recorded *)
(* operation, and every operation was applied once: no update is lost, no  *)
(* retry is applied twice (the row lock, the operation table and the       *)
(* revision of the guarded update, together).                              *)
DenseRevisions ==
    /\ {x.rev : x \in ops} = 1..rev
    /\ \A x, y \in ops : x.rev = y.rev \/ x.op = y.op => x = y

(* A room that was told of a success, first hand or by a replay, was told  *)
(* of a row that is there: answers follow the commit and rows stay.        *)
AckedIsApplied == \A q \in acked : Applied(q)

(* The inventory is what was picked up plus one reward for every completed *)
(* quest: "the reward is granted in the same transaction, only once"       *)
(* (postgres.go, CommitQuest).  Rewards are counted piece by piece.        *)
PickedUp(i) == Cardinality({x \in ops : x.payload.kind = "pickup" /\ x.payload.item = i})

Pieces(q, i) == {q} \X (1..Reward[q][i])

Paid(quests, i) == UNION {Pieces(q, i) : q \in {q \in Quests : Completed(quests, q)}}

Rewarded(i) == Cardinality(Paid(progress.quests, i))

InventoryAccounted == \A i \in Items : progress.inv[i] = PickedUp(i) + Rewarded(i)

(* What a player wears is in the inventory, although ownership is checked  *)
(* by a query before the guarded update.                                   *)
EquippedIsOwned ==
    \A s \in Slots : progress.equip[s] # NoItem => progress.inv[progress.equip[s]] > 0

(* "Lock before checking so a concurrent version change cannot race a      *)
(* write" (postgres.go, lockProgressVersion): a row marked by a newer      *)
(* server is never changed by this one, not even by a transaction that     *)
(* read the version before the mark.                                       *)
NewerDataUntouched ==
    [][version > ProgressSchemaVersion => UNCHANGED <<rev, progress, ops>>]_vars

(* "stale fencing token must be rejected" (g3_progress_test.go): the       *)
(* guarded update accepts requests of the current session only.            *)
StaleTokenRejected ==
    [][\A c \in Calls : stage[c] = "begun" /\ stage'[c] = "staged"
                        => sent[c].grant.epoch = lease.epoch]_vars

(* Fencing: once an operation of a later session is applied, none of an    *)
(* earlier session is.  A transaction of the earlier session may still     *)
(* commit after the later lease was granted, if it wrote before.           *)
SessionsDoNotInterleave == \A x, y \in ops : x.rev < y.rev => x.epoch <= y.epoch

(* The inductive invariant behind the properties of the tables.  One open  *)
(* transaction has written the row; what it is about to commit is the      *)
(* effect of its request on the row as it still is; and the facts its      *)
(* guards established still hold.  A call about to answer has its row.     *)
OneWriter == \A c, d \in Calls : stage[c] = "staged" /\ stage[d] = "staged" => c = d

StagedIsCurrent ==
    \A c \in Calls : stage[c] = "staged" =>
        /\ VersionReadable
        /\ OpRows(sent[c].op) = {}
        /\ Owned(progress, sent[c].payload)
        /\ image[c] = [rev |-> rev + 1, progress |-> Effect(progress, sent[c].payload)]

AnsweringIsApplied == \A c \in Calls : stage[c] = "answering" => Applied(Asked(c))

TableInv ==
    /\ TypeOK
    /\ OneWriter
    /\ StagedIsCurrent
    /\ AnsweringIsApplied
    /\ DenseRevisions
    /\ AckedIsApplied
    /\ EquippedIsOwned

(* With it, the inductive invariant behind the inventory.                  *)
InventoryInv == IsFiniteSet(ops) /\ InventoryAccounted

(* The inductive invariant behind fencing, when no lease row is deleted:   *)
(* the token counts the sessions, so it names the session it was granted   *)
(* to; and no operation belongs to a session later than one that is        *)
(* writing.                                                                *)
TokenIsEpoch ==
    /\ lease.token = epoch /\ lease.epoch = epoch
    /\ \A g \in held : g.token = g.epoch
    /\ \A c \in Calls : stage[c] \in {"sent", "begun", "staged"} =>
            sent[c].grant.token = sent[c].grant.epoch

WritersAreLatest ==
    /\ \A x \in ops : x.epoch <= epoch
    /\ \A c \in Calls : stage[c] = "staged" =>
            sent[c].grant.epoch <= epoch /\ \A x \in ops : x.epoch <= sent[c].grant.epoch

(* The tables implement the ledger: the log is the operation table in the  *)
(* order of its revisions.                                                 *)
Entry(n) == LET x == CHOOSE x \in ops : x.rev = n
            IN  [op |-> x.op, payload |-> x.payload]

Ledger == INSTANCE ProgressLedger WITH log   <- [n \in 1..rev |-> Entry(n)],
                                       state <- progress,
                                       told  <- acked

ImplementsLedger == Ledger!Spec
=============================================================================
