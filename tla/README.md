# Verification of G_Server

TLA+ specifications, TLC model checking and TLAPS proofs for G_Server: a Go
*Backend* over PostgreSQL (`Backend/`) and Godot *GameServers*
(`GameServer/Server/`). The code is the reference: every definition is
translated from it, and `PROJECT.json` ("map") names the lines each one stands
for.

## 1. The system

| Part | State | Operations | Talks to |
|---|---|---|---|
| Identity (`usecase/service.go`, `infra/postgres.go`) | tables `player`, `session`, `ticket` | login, logout, issue a ticket, redeem it | HTTP; GameServer redeems |
| Room directory (`infra/postgres.go`, `usecase/service.go`) | tables `room`, `room_reservation` | register, heartbeat, allocate, release | GameServer, clients |
| Player leases (`infra/postgres.go`) | table `active_player_session` | acquire, renew, release | GameServer |
| Progress transactions (`infra/postgres.go`) | tables `player_progress`, `progress_operation` | commit a pickup, an equipment change, a quest step; queries; version migration | GameServer |
| Schema migrations (`infra/postgres.go`) | `schema_migrations` and the files in `migrations/` | migrate, roll back | command line, tests |
| HTTP layer (`transport/http.go`) | rate-limit windows | routing, validation, 3 s deadline, error mapping | all of the above |
| Map catalogue (`usecase/map_catalog.go`, `map_authority.gd`) | static data, a map's navigation and blockers | admission by map, queries of geometry | tickets, movement |
| GameServer sessions (`server.gd`) | `pending`, `identities`, `leases`, `disconnected`, `reconnect_tokens` | authenticate, reconnect, remove, renew, grace timer | Backend by HTTP, with awaits |
| Pickups and cached progress (`server.gd`, `world_items.gd`) | `pickup_entities`, `progress_snapshots` | pick up, change equipment, advance a quest | Backend by HTTP, with awaits |
| Combat (`server.gd`, `enemies.gd`, `abilities.gd`) | enemies, cooldowns, player health | attack, ability, enemy attacks, respawn | clients |
| Movement (`movement.gd`) | input queue, position | enqueue, step | clients, map authority |

Interaction: a client logs in, is allocated a room, receives a ticket and
connects to the GameServer, which redeems the ticket, acquires the player's
lease, loads the progress and then commits changes under the lease. Each
GameServer calls the Backend by HTTP with a 4 s timeout; each handler has a 3 s
deadline and works in one PostgreSQL transaction. A GameServer is single
threaded, but every `await` lets other callbacks run.

Hard behaviours: overlapping transactions on the rows of one player; leases that
expire while a commit is under way; answers lost after a commit, and retries;
rooms that crash; row locks taken in different orders; GameServer state read
before an await and used after it.

Modules: section 2. What each component has to guarantee:

- Identity: a ticket lets in one bearer once, in time, and never after the
  logout of its session.
- Room directory: `used_players` is the number of open reservations, a player
  has one seat, a seat is taken only in a live room with room in it.
- Player leases and progress: one room at a time changes a player; revisions
  are dense; an acknowledged operation is applied exactly once; items are
  neither lost nor invented; data of a newer server is not touched.
- GameServer sessions: a player is in the game or in its grace period as long
  as its lease lives, one connection at a time commits for it, and reconnect
  tokens are used once.
- Pickups: an entity is given once, and an unknown outcome is not taken for a
  refusal.
- Migrations: the record and the schema agree whatever fails.
- Admission, the way of a player through all of these: one room plays a player
  at a time, and a seat is not lost to somebody else's release.
- HTTP layer: no client gets more than its limit in any minute, and nobody is
  turned away without one of the two reasons there are.
- Combat and movement: clients know what the enemies are, a repeated request
  takes no effect, leaving and coming back neither heals a player nor undoes its inputs,
  and no entity is freed under a player.

`PROJECT.json` ("hazards") lists, line by line, what is hard to test and which
property is about it.

## 2. The modules

| Module | Models | Role |
|---|---|---|
| `ProgressRules` | domain rules of pickup, equipment, quest step | operators shared by the next two |
| `ProgressLedger` | what the progress service promises | abstract specification |
| `ProgressStore` | leases and progress transactions, statement by statement | refines `ProgressLedger` |
| `ProgressStoreProofs` | | proofs |
| `SeatBook` | what the directory promises about seats | abstract specification |
| `RoomDirectory` | rooms and reservations, with row locks | refines `SeatBook` |
| `RoomDirectoryProofs` | | proofs |
| `GameSession` | connections, reconnection, leases in one GameServer process | |
| `GameSessionProofs` | | proofs |
| `TicketBook` | what tickets promise | abstract specification |
| `Tickets` | sessions and tickets in the Backend | refines `TicketBook` |
| `Admission` | a player's way through tickets, seats, leases and the rooms' processes | composes `Tickets` and `SeatBook` |
| `AdmissionProofs` | | proofs, those of `Tickets` too |
| `Pickups` | world items and cached snapshots across awaits | |
| `PickupsProofs` | | proofs |
| `Migrations` | schema migrations and their rollback | |
| `MigrationsProofs` | | proofs |
| `AdmissionBook` | what the rate limiter promises | abstract specification |
| `Gate` | the rate limiter and the checks of each route | refines `AdmissionBook` |
| `GateProofs` | | proofs |
| `Arena` | combat and the input queue of a room, across reconnections | |
| `ArenaProofs` | | proofs |
| `MC...` | | small instances for TLC |

### ProgressStore

One player's rows. `version`, `rev`, `progress` and `ops` are the player's rows
of `player_progress` and `progress_operation`; `lease` is the row of
`active_player_session` with its remaining time; each call has a `stage`, an
`age`, what it `sent`, the row it `held` locked and the row `image` it computed.
`BeginAcquire`/`Acquire`/`AcquireRefused`, `Renew` and `Release` are
`AcquireSession`, `RenewSession`, `ReleaseSession`. A commit runs `SendCommit`,
`Begin` (lockProgressVersion), `Replay` (the operation is known), `Refuse`, `Write` (the
guarded update), `Commit`, `Answer` (or the answer is lost), `Abort`.
`MigrateProgressSchema` and `NewerServerMigrates` change the version; `Tick` is
time. PostgreSQL's `now()` is the start of the transaction, so a transaction of
age *a* judges a lease by what it was *a* ticks ago: this is where fencing is hard.

### RoomDirectory

`generation`, `status`, `used`, `silence` and `active` are the columns of `room`
and `room_reservation`; each call has a stage, and the row locks it holds follow from
the stage. `AllocateRoom` is `PickRoom`, `ReadSeat`, `TakeSeat`, `Vacate`,
`Reserve`, `CommitAllocate`, then `IssueTicket` or `UndoAllocation` (the
compensation in `service.go`); `ReleaseReservation` is `BeginRelease`,
`ReleaseSeat`, `CommitRelease`. `Abort` is any error, `Expire` the 3 s deadline,
which also ends the deadlocks that the lock orders of the two operations allow.

### GameSession

One server process, atomic between awaits. `conn`, `pending`, `identities`,
`leases`, `disconnected` and `tokens` are the dictionaries of `server.gd`; `auth`,
the grace coroutines and the renewal coroutine are the handlers that wait. The
two halves of a handler are two actions (`SubmitTicket` ... `Redeemed` ... `Acquired` ...
`Authenticated`; `RenewSessions`, `PeerRenewed`, ...). `row` is the Backend's lease
row. `Serve...` and `Lose...` are a call reaching the Backend or not; an answer may
be lost either way. Keys of a dictionary are visited in any order, consecutive
awaits between which nothing is read are one, and one firing of the lease timer runs at
a time. Time is not counted: a lease that was granted or renewed, and a grace that
began, while an acquisition was under way do not end before it has (30 s against 4 s),
which `saw` of each acquisition records; this is the default configuration, and a process
with a `G1_GRACE_MS` of less than 4 s (`server.gd:263-267`, for tests) is not
covered. An entry of `disconnected` says itself whether it is `over`, because the lease timer
may write an old copy of it back. Two ghosts name players: `lapsed`, whose lease ended without
a release, and `excused`, of whom a renewal put an entry back or whose lapsed lease was released, so that their tokens begin again.

### Tickets

`opened`, `revoked` and `sessionLeft` are the rows of `session`; `issued`,
`ticketLeft` and `redeemed` those of `ticket`. A handler is `Enter` (Auth), then
`BeginIssue`, `LockIssuer`, `CommitIssue`, or `Logout`; a redemption is
`BeginRedeem`, `LockBearer`, `WriteRedemption`, `CommitRedeem`. Both transactions
lock the session's row; `Logout` is one update of it. `Fail` is every way to end
without effect.

### Admission

`Tickets`, statement by statement, with the seats of `SeatBook` and with what the rooms'
processes do: `AllocateRoom` and `Issue` are `AllocateForMap` (`goal` is the room and the
map of a ticket), `GiveUp` and `Compensate` its failure and the release that follows;
`Redeem`, `Accept` and `Redeemed` are a redemption seen from the room, whose `place` has
to fit the ticket; `Acquire` (its answer may be lost), `Refuse`, `Leave`, `Return`,
`GraceEnds` and `ReleaseSeat` are the room's side, `Lapse` and `Crash` the faults. A
room's call is one step here: what happens between call and answer is in `GameSession`.
`joining` has an element for each ticket, so that two connections of one player may wait in
one room. A stay is a room, a player and a fencing token. `lapsed` are the stays whose lease has
expired since they began, `overtaken` the players who came in while a release of their
seat was still to come.

### Pickups

`entity` is `pickup_entities`, `seen` is `progress_snapshots`, `at` is
`identities`, `row`, `ops` and `lease` are the Backend's. `TryPickup` and
`ChangeProgress` are the handlers up to the await; `Replay`, `Commit`, `ReadBack`
and `Fail` are the Backend; `PickupAnswered` and `ChangeAnswered` are the rest of
the handlers, which look again at who is connected, or (the pickup) fail with a
script error when nobody is. A change brings the items of `Won`: one for a pickup, none for
equipment, and none or one for a quest step, whose reward is paid when the quest is complete
(which, is in `ProgressRules`). The answer of an equipment change or a quest step replaces
the cached snapshot as a whole, that of a pickup its revision and inventory (`Advanced`).
`Versions` is all that tells of a player's progress: the row, the cache and the answers under
way. A player has one connection at a time here; two of them are in `GameSession` and `Arena`.

### Migrations

`file` and `down` are the directory, `recorded` is `schema_migration`, `schema` the
objects that exist. A job is a transaction with its own view: `Begin` (list the
directory), `Lock`, then `Pass`/`Apply` or `Revert` for each name, `Commit`, or
`Fail`. `Release`, `Edit` and `LoseDown` change the directory meanwhile.

### Gate

A request is one step: `slot()` holds one mutex and reads the time under it, and
nothing else of `ServeHTTP` is shared. `windows` is the table; `Swept`, `Trimmed`,
`TableFull` and `Granted` are the statements of `slot()`. `Refusals` lists the checks of
each route in the order of the code, `Status` is what becomes of the service's outcome
(`dbError`, and the two routes that look first). `log` remembers all admissions of the
process, which the table does not: what the limiter promises is about them.

### Arena

The handlers of the fight and the inputs do not wait, so that each is a step, and `Frame` is
one call of `_physics_process`: respawns, the enemies' attacks, then the inputs. Cooldowns are
kept as frames until the next use in place of the time of the last one; `told` is what each client
has made of the messages it got. Who is in range is open.

A body is what `player_health` and `entities` refer to, named by the connection it was made for:
`has` is the body of a connection, `saved` the one in the player's entry of `disconnected`.
`_authenticate` is cut at its awaits: `Identify` (the look for the player, then the wait for
the lease), `Acquired` or `Refused`, `Embody` or `Reject`. Nothing looks again after the
first wait, so two connections of one player, with two bodies, are in the model, as is a client that
has gone meanwhile. The end of the grace is `GraceEnds` and, after the two releases,
`FreeEntity`; `RenewEntry` and `EntryRenewed` are the lease timer's pass over an entry, which
may write back one that is no longer there. Such a body is in `revived`, a ghost, as is
`landed`: how often a request took effect. A freed entity in the loop of `_physics_process`
ends the loop with a script error: who comes before it is open (`Broken`, `Stepping`).

## 3. The runs

| Run | Instance | Shows |
|---|---|---|
| `progress_rules` | 2 calls, 1 room, quest steps and an item put on, sessions end by release or expiry | revisions and operations correspond, rewards are paid once, what is worn is owned; refines `ProgressLedger` |
| `progress_fencing` | 2 rooms, 2 calls, leases expire, none is released | sessions do not interleave; a stale token changes nothing; data of a newer server stays |
| `stale_token` | with releases | **violated**: see findings |
| `rooms` | a room of 2 seats and one of 1, 2 players, 2 calls, fairness | seats are counted, one per player, only in live rooms; refines `SeatBook`; every call ends, deadlocks included |
| `session` | 3 peers, 2 of them at a time, 1 player, a firing of the lease timer | dictionaries agree, one committer, tokens used once, in the game or in grace |
| `session_liveness` | 2 peers, 2 players, 2 firings of the grace timer, a restart | every grace entry ends; no token of an earlier process is good |
| `session_script_error` | as above, no restart | **violated**: see findings |
| `admission` | 2 rooms, 1 player with a session and 2 tickets, 2 calls, 2 entries at a time | a ticket admits once, in time, for an open session (refines `TicketBook`); one room plays; a seat is lost to the player's own doings only |
| `pickups` | 2 players, 2 connections, 2 entities, 2 calls | an entity is given once and is not on offer afterwards; what is consumed was given; late answers do not undo a login, and take items back only with the revision |
| `migrations` | the repository's 3 files, 2 jobs, 2 contents | record and schema agree, nothing stands on a dropped object, records are final |
| `gate` | 3 addresses, a path with a limit of 2, a table of 2, 2 minutes | the limit holds in every minute; refines `AdmissionBook` |
| `arena` | 1 player, 3 connections, 2 of them at a time, 1 enemy, 1 request id, inputs 1 to 3 with a window of 2 | clients agree, requests land once, inputs stay in the window and are processed, a stay continues over two bodies, no entity is freed in use unless a late renewal revived it |

Runs check what a reader wants to know. The invariants that make it inductive
(`TableInv`, `InventoryInv`, `FencingInv`, `DirectoryInv`, `TicketInv`, `AdmissionInv`,
`PickupInv`, `OneHistory`, `CoreInv`, `TokensInv`, `HandsInv`, `FencesInv`, `SchemaInv`, and those of `Gate`
and `Arena`) and the type invariants are left to the proofs (section 5), except in
`GameSession` and `Migrations`, whose runs check `SessionInv` and `MigrationInv`. Proofs
alone also state `AckedIsApplied` (`Durability`), `WindowsAreTails`, `UnsureIsUnavailable` and
`RequestsAreNew`.

### Bounds

Two calls are enough for every race of a pair of transactions on one player's
rows, because the row lock admits one and the other either waits or follows. The room of one
seat is the last place that two calls want; the room of two is counted by two calls
at a time.
`MaxSessions`, `MaxToken` and `MaxRevision` bound how often a token or a revision
is raised: two are enough for a stale one and a fresh one. Time is counted in
ticks: `LeaseTTL` 2 and `CtxTimeout` 1 keep the order of the code's 30 s and 3 s, so
that a transaction that outlives a lease by its age exists; `SessionTTL` 2 and
`TicketTTL` 1 likewise. Remaining times stop at minus `CtxTimeout`, past which no
statement tells them apart. `progress_rules` puts an item on
under an identifier that a quest step uses as well; taking it off is one more request of
the same kind. `pickups` runs with
`ReuseRequests` FALSE, under which `ConsumedIsGranted`, `NotBeforeLogin` and
`ItemsLeaveWithRevision` hold; the other theorems of `PickupsProofs` hold for either value. Its
constraint `DoubtAtRest` leaves a lease in doubt, which only keeps pickups from starting, while
one call at most is under way. In `GameSession`, connections are finite,
and restarts (`MaxRestarts`), renewals (`MaxRenewals`), tokens (`MaxToken`) and timer firings
(`Ticks`) are counted: one overlap of each is what the handlers can get wrong. `session` follows
states (`Bounded`) in which two connections at most are open or awaited for (`TwoOpen`: a
third comes when one has gone) and in which no player has had both faults that the
properties exempt, a lapsed lease and an excuse (`OneMishap`). `TwoEntries` bounds
`admission` to two entries, stays or releases to be made at a time, and to three of them and the
calls under way together. The theorems need none
of these bounds. `admission` has one player, since players meet only in
the seats, which `rooms` has, and two tickets, for a second way in while the first
one lasts; its time limits are one tick each. `gate` runs for two windows, so that
one expires while the other fills, with fewer windows in the table than addresses.
`arena` has an enemy of two hits and a player of two, so that a hit and a death are
different steps, one request id, to be repeated, and inputs that reach past the window: 3 is
too far ahead until 1 has been processed. Its constraint (`Bounded`) leaves two connections open
or awaited for at a time, of three (`TwoOpen`: two bodies and one to come back, or a revived
entry and two players in its place), one revival of an entry (`OneRevival`), one death and
respawn of the enemy (`OneLife`), and four connections and inputs together; while anybody is
wounded, two of them. `CHECK_DEADLOCK FALSE` stands where the finite
connections or revisions let the instance stop.

Symmetry sets are used in runs without liveness only.

### Fairness

`RoomDirectory!FairSpec`: a call that can take a step does, and the deadline of 3 s fires
(`Expire`), past which the driver fails the statement. `GameSession!FairSpec`: timers fire
(`GraceEnds`) and a coroutine whose answer has come resumes (`AuthStep`, `TickStep`); calls
answer or time out after 4 s. `Arena!FairSpec`: the engine calls `_physics_process`; only frames
that run to their end (`WholeFrame`) are counted on, since a broken one may break at the same
place each time.
No fairness is assumed of clients, of crashes, or of who gets a lock.

## 4. Findings

- `stale_token`: `ReleaseSession` deletes the lease row, so the next session gets token
  1 again, and a delayed request of the earlier session with the same token is
  accepted; `g3_progress_test.go:52` expects a stale token to be refused.
- `session_script_error`: two firings of the grace timer overlap across the awaits
  of `_tick_disconnected`, and the second indexes an entry that is gone
  (`server.gd:272`); the integration driver (`cmd/g1integration/main.go:477-478`)
  treats script errors as failures.

Observed while modelling, and not the subject of a run:

- `Acquired` for a peer that has left gives it an identity nobody removes
  (`server.gd:337`): the room renews the lease of a player who is not there, and refuses
  the player from then on.
- A renewal that writes back an entry of `disconnected` (`server.gd:459`) can revive a player that
  is in the game, whose lease is then released (a reason to be `excused` from `OneCommitter`).
  The end of that grace also frees the entity the player has (`server.gd:281-283`), after
  which each frame's loop ends there with a script error (`server.gd:533-536`), and inputs of
  players behind it are never processed. `EntitiesLive` and `InputsAreProcessed` exempt this
  case and no other.
- The look for the player at `server.gd:331` is not repeated after the wait for the lease
  (`server.gd:334-338`). When a reconnection comes between, or the lease of the first connection
  lapses, a player has two connections with a body each, of different health; the one that
  leaves last decides what the grace keeps.
- `_reconnect` of a player whose grace has run out (`server.gd:246-250`) erases the entry and
  leaves its entity, which nobody frees any more.
- When the answers to two calls of a player arrive out of order, the cached snapshot goes
  back to the earlier revision (`server.gd:391`, `server.gd:412`), without the items that the
  later one brought, a quest's reward included, until the next answer or login.
- Tokens begin again at 1 after a release (`postgres.go:144`, `postgres.go:156`). After a lapse,
  a release and a new session, two connections of one player can hold the current token at
  once. It takes four connections, and turned up when TLC checked the invariant of
  the proof; players whose lapsed lease is released are `excused` too. `stale_token` shows
  the same flaw in the Backend.
- A pickup expects revision 0, so a player with any progress cannot pick up and takes
  the entity out of the world by trying.
- The comment at `server.gd:492` says inventory and equipment share one revision after
  a pickup; when the answer to a later change of equipment overtakes the pickup's, the
  snapshot keeps the later equipment under the earlier revision.
- The comment on `Rollback` (`postgres.go:593-595`) promises the most recently applied
  migrations and the names that were rolled back; the code takes the last names
  (which differ when 002_map_identity is released after 002_quest_progress) and on an
  error returns names whose rollback was itself rolled back. `migration_test.go:51`
  expects two names where three migrations ship.
- A player who holds a seat in a full room and asks again is refused there
  (`used_players<capacity`, `postgres.go:485`), although its own seat would be freed.
- A room that crashes leaves its reservations open and re-registers with
  `used_players` kept: seats come back when their players are allocated or released.
- `AllocateRoom` looks for a free place whatever map the room runs, and the ticket is then
  issued for the map of the request: a ticket for the wrong room is refused at the
  redemption, while the seat stays taken. `POST /v1/tickets` issues for `g0-room` without a
  seat.
- The release of a reservation names room and player. The compensation of a failed
  allocation, or the release that an earlier stay has yet to make, may drop the seat of a
  player who plays (`owed` and `overtaken` in `SeatsStayWithPlayers`).
- Because fencing tokens start again at 1 after a release, a stay under a reused token can
  lose its lease to the release of an older one; `OneRoomPlays` exempts stays whose lease
  has expired.
- A logout ends neither play nor the chance to reconnect: only tickets look at the session.
- A heartbeat counts only while the last one is less than 15 s old (`HeartbeatRoom` in
  `postgres.go`): a room that was silent for longer can renew nothing until it
  registers anew.
- `dbError` answers 503 to errors of known outcome too (a refused insert, a missing row of a
  foreign key), which the GameServer takes for an unknown outcome. The rate limiter counts
  per path and address, so that clients behind one address share a limit.
- Players with no health left can attack; queued inputs survive a reconnection; the ids of
  attacks seen are kept for the life of the process while those of abilities go with the
  connection, so that an ability may be repeated under its id after a reconnection.
- A quest is completed over the objectives its row lists (`postgres.go:289`): correct for
  the catalogue, which has one objective per quest, and assumed (`CatalogAssumption`).

## 5. Proofs

Proved by TLAPS for every value of the constants under the named assumptions.

| Module | Theorems | Argument |
|---|---|---|
| `ProgressStoreProofs` | `TypeCorrect`, `TablesSafe`, `ExactlyOnce`, `Durability`, `Ownership`, `InventoryCounted`, `NewerDataSafe`, `Fencing`, `StaleTokensRejected`, `StoreImplementsLedger` | the invariant adds to `TableInv` what a transaction that holds the row knows: its image is computed from the row as it is, its operation is new, its version check still holds. What is owned is counted piece by piece: a reward is the set of its pieces, an applied operation adds at most its own, and finite cardinalities add up. Fencing rests on a second invariant about ages and remaining time, under `ExpirySpec` |
| `RoomDirectoryProofs` | `DirectorySafe`, `UsedPlayersCounted`, `OneSeatEach`, `LiveSeats`, `DirectoryImplementsSeatBook` | `DirectoryInv`: a call's view of the rows it has locked is the rows, so that its count is right at the commit |
| `GameSessionProofs` | `SessionCore`, `SessionSafe`, `TokensCore`, `SpentTokensAreDead`, `LeaseInOneHand`, `InGameOrKept`, `OneHandCommits` | four invariants, see below |
| `PickupsProofs` | `PickupsSafe`, `EntitiesGrantedOnce`, `AvailableEntitiesAreFree`, `SeenSinceLogin`, `ConsumedWasGranted`, `ProgressIsOneHistory`, `ItemsStay` | `PickupInv`: a pickup under way is the only one that has its entity, reserved, and given to nobody until the Backend commits. The last four need requests with identifiers of their own (`RequestsAreNew`): an answer then tells of this request, not of an old one. `OneHistory`, inductive over both: a step adds no version but the new row, so of two versions the later has no fewer items, and an answer that takes items away has an earlier revision |
| `MigrationsProofs` | `SchemaAsRecorded`, `NeedsMet`, `FinalRecords`, `MigrationsAdd` | `SchemaInv`: the job that has the lock sees a view in which record and schema agree, and which nobody else can change until it commits |
| `AdmissionProofs` | `TicketsSafe`, `TicketsAdmitOnce`, `TimelyAdmissions`, `TicketsImplementTicketBook` | of `Tickets`, by `TicketInv`: the lock of the session's row keeps a logout and other redemptions out, so what was checked under it holds at the commit; tokens of tickets being issued are fresh |
| `AdmissionProofs` | `AdmissionIsTickets`, `AdmissionSafe`, `OneRoom`, `SeatsStay` | every step of the composition is a step of `Tickets` or leaves its variables alone, so `TicketInv` holds in it; `AdmissionInv` adds that a stay has the player's lease until that expires, and that stays of a player in a room overlap only where one was overtaken |
| `GateProofs` | `GateTyped`, `LimitSlides`, `WindowsTail`, `UnsureIsAnswered503`, `GateImplementsBook` | logs are ordered and the windows are their tails, so that a full window is the last `Limit` admissions; a key is in the swept table exactly when its last admission is recent |
| `ArenaProofs` | `ArenaTyped`, `ArenaSafe`, `ClientsAreTold`, `RequestsLandOnce`, `InputsAreAhead`, `EntitiesStayAlive`, `StaysContinue` | five invariants: who is connected as whom; what bodies hold; where bodies are (a body is in one place, with a connection, in an entry or doomed, unless a renewal has revived it, and a body not yet made is nowhere), from which the last two follow; enemies with what was told of them; and the requests seen |

The inductive invariants are needed because the safety properties speak of the
committed tables (or of the grants) only: without what the transactions under way
know, a commit could do anything. Fencing has a second one, `FencingInv`, about the ages
of transactions and the time that leases have left.

The invariants of `GameSession` stand on each other. `CoreInv` says what the dictionaries
and the suspended coroutines know of each other: an entered peer has the lease it is
renewed under, a saved entry is of its player. `TokensInv`: a peer is given a reconnect token once
and only peers that have entered hold one. `HandsInv`: the lease of a player without lapse or
excuse is in one hand, that of a peer, of the entry in `disconnected`, or of a release under way. `FencesInv`:
lapse or not, no hand holds a token yet to be granted, and one at most holds the last one,
from which `OneCommitter` follows. The proof first says of each action what shape its step
has (a peer departs, enters, is renewed, ...), which is all that the invariants look at, and then
shows once per shape that each invariant survives.

That a nonempty set of numbers within `1..n` has a least element is a lemma of
`GateProofs`, `ArenaProofs` and `MigrationsProofs` (the first recent time of a window, the first
input of a queue, the next migration): among its initial parts, one is minimal under strict
inclusion, which the library shows well-founded on finite sets.

Assumptions: `CatalogAssumption` (one objective per quest, as the catalogue in
`service.go` has; two would complete a quest early; and finitely many quests), `StoreAssumption`,
`DirectoryAssumption`, `SessionAssumption`, `NobodyIsNoEntry`, `TicketAssumption`,
`PickupAssumption`, `MigrationAssumption`,
`AdmissionAssumption`, `GateAssumption`, `ArenaAssumption`: kinds of the constants, distinct null
values, time limits that are natural numbers or positive, and in `Arena` finitely many
connections and enemies. TLC evaluates them on each run.
Two hypotheses are not assumptions of a module: `~ReuseRequests` in `ConsumedWasGranted`,
`SeenSinceLogin`, `ProgressIsOneHistory` and `ItemsStay`, and the specification `ExpirySpec`, in which no session is released, in `Fencing`
and `StaleTokensRejected` (`stale_token` shows what a release does).

Checked by TLC only: liveness (`EveryCallEnds`, `GraceEntriesEnd`,
`InputsAreProcessed`), which rests on fairness and is out of the prover's reach.

## 6. Not modelled

Passwords and hashing, TLS, JSON and HTTP details (external or without state);
map geometry and the movement step (floating point, pure); static catalogues, of maps
too, but for the map of a ticket and of a room (`Admission`); process start; test tooling
and containers. PostgreSQL is modelled as the code uses it:
read committed, row locks, transactional DDL, `now()` at the start of a transaction;
the GameServer's engine as: one thread, coroutines resumed by signals.

## 7. Plan

The order was: the progress of a player (the data that must not be lost), the room
directory (most contended), the sessions of the GameServer (most interleavings),
tickets, pickups, migrations, and then their composition (`Admission`), the HTTP layer
(`Gate`) and the simulation (`Arena`). Next:

1. Proofs: an abstract specification of a player's lease (who may commit, under which
   token) that both `GameSession` and the leases of `ProgressStore` implement.
2. `GameSession` over `ProgressStore`'s leases, in place of its `row`.
3. Runs with more rooms, and the quest catalogue's real requirements.
