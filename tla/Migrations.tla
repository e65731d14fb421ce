----------------------------- MODULE Migrations -----------------------------
(***************************************************************************)
(* The schema migrations: infra/postgres.go Migrate and Rollback, run by   *)
(* the operators' command and by the tests, several at a time, while       *)
(* releases add files to the directory.                                    *)
(*                                                                         *)
(* A migration is a number, its place in the order of file names.  What    *)
(* its file creates is one object of the schema.  DDL is transactional:    *)
(* a job works on its own view of the record and of the schema, which      *)
(* becomes everybody's when it commits.                                    *)
(***************************************************************************)
EXTENDS Integers, FiniteSets

CONSTANTS
    Names,      \* migrations
    Contents,   \* what a file may say (its checksum)
    NoContent,  \* no file, no record
    Needs,      \* migration -> those whose objects its file alters
    Jobs,
    Steps,      \* what Rollback is asked for; 0 is everything
    Shipped     \* the migrations of the first release

ASSUME MigrationAssumption ==
    /\ Names \subseteq Nat /\ IsFiniteSet(Names)
    /\ NoContent \notin Contents
    /\ Needs \in [Names -> SUBSET Names]
    /\ \A n \in Names : \A m \in Needs[n] : m < n
    /\ Steps \subseteq Nat /\ Shipped \subseteq Names

VARIABLES
    file,      \* the directory: what each file says
    down,      \* migrations with a .down.sql file
    recorded,  \* schema_migration: the checksum of each applied migration
    schema,    \* migrations whose objects exist
    job        \* the transactions

database == <<recorded, schema>>
vars     == <<file, down, database, job>>

Idle == [stage |-> "idle"]
JobRecords ==
    [stage : {"begun", "working"}, kind : {"migrate", "rollback"}, steps : Steps,
     todo : SUBSET Names, rec : [Names -> Contents \cup {NoContent}], has : SUBSET Names,
     rolled : SUBSET Names]

Applied(rec) == {n \in Names : rec[n] # NoContent}

Init ==
    /\ \E c \in Contents : file = [n \in Names |-> IF n \in Shipped THEN c ELSE NoContent]
    /\ down = Shipped
    /\ recorded = [n \in Names |-> NoContent]
    /\ schema = {}
    /\ job = [j \in Jobs |-> Idle]
-----------------------------------------------------------------------------
(* A release adds a migration; an edit changes a file.                       *)
Release(n, c) ==
    /\ file[n] = NoContent
    /\ file' = [file EXCEPT ![n] = c]
    /\ down' = down \cup {n}
    /\ UNCHANGED <<database, job>>

Edit(n, c) ==
    /\ file[n] # NoContent /\ file[n] # c
    /\ file' = [file EXCEPT ![n] = c]
    /\ UNCHANGED <<down, database, job>>

LoseDown(n) ==
    /\ n \in down /\ down' = down \ {n}
    /\ UNCHANGED <<file, database, job>>

(* Migrate lists the directory before it opens its transaction.              *)
Begin(j, kind, steps) ==
    /\ job[j] = Idle
    /\ job' = [job EXCEPT ![j] =
          [stage |-> "begun", kind |-> kind, steps |-> steps,
           todo |-> IF kind = "migrate" THEN Applied(file) ELSE {},
           rec |-> recorded, has |-> schema, rolled |-> {}]]
    /\ UNCHANGED <<file, down, database>>

(* A slip: no advisory lock.                                                 *)
Unlocked == TRUE

LockIsFree == \A k \in Jobs : job[k].stage # "working"

(* pg_advisory_xact_lock; a rollback then reads the names recorded.          *)
Lock(j) ==
    /\ job[j].stage = "begun" /\ LockIsFree
    /\ job' = [job EXCEPT ![j].stage = "working", ![j].rec = recorded, ![j].has = schema,
                          ![j].todo = IF job[j].kind = "rollback" THEN Applied(recorded) ELSE @]
    /\ UNCHANGED <<file, down, database>>

First(S) == CHOOSE n \in S : \A m \in S : n <= m
Last(S)  == CHOOSE n \in S : \A m \in S : m <= n

Working(j, kind) == job[j].stage = "working" /\ job[j].kind = kind

(* Migrate: a migration that is recorded with this checksum is passed over.  *)
Pass(j) ==
    LET x == job[j]  n == First(x.todo) IN
    /\ Working(j, "migrate") /\ x.todo # {}
    /\ x.rec[n] = file[n]
    /\ job' = [job EXCEPT ![j].todo = @ \ {n}]
    /\ UNCHANGED <<file, down, database>>

(* A slip: a file that has changed is applied again.                         *)
Differs(x, n) == x.rec[n] # file[n]

Unrecorded(x, n) == x.rec[n] = NoContent

(* Migrate: the file is executed and recorded.                               *)
Apply(j) ==
    LET x == job[j]  n == First(x.todo) IN
    /\ Working(j, "migrate") /\ x.todo # {}
    /\ Unrecorded(x, n)
    /\ Needs[n] \subseteq x.has
    /\ job' = [job EXCEPT ![j].todo = @ \ {n}, ![j].rec = [@ EXCEPT ![n] = file[n]],
                          ![j].has = @ \cup {n}]
    /\ UNCHANGED <<file, down, database>>

Enough(x) == x.steps > 0 /\ Cardinality(x.rolled) >= x.steps

(* A slip: "order by name".                                                  *)
OldestName(x) == First(x.todo)

(* "order by name desc"                                                      *)
NextToRevert(x) == Last(x.todo)

(* A slip: the record stays.                                                 *)
Keep(rec, n) == rec

Delete(rec, n) == [rec EXCEPT ![n] = NoContent]

(* Rollback: the .down.sql file is executed and the record deleted.          *)
Revert(j) ==
    LET x == job[j]  n == NextToRevert(x) IN
    /\ Working(j, "rollback") /\ x.todo # {} /\ ~Enough(x)
    /\ n \in down
    /\ job' = [job EXCEPT ![j].todo = @ \ {n}, ![j].rec = Delete(@, n),
                          ![j].has = @ \ {n}, ![j].rolled = @ \cup {n}]
    /\ UNCHANGED <<file, down, database>>

Commit(j) ==
    LET x == job[j] IN
    /\ x.stage = "working"
    /\ x.todo = {} \/ (x.kind = "rollback" /\ Enough(x))
    /\ recorded' = x.rec /\ schema' = x.has
    /\ job' = [job EXCEPT ![j] = Idle]
    /\ UNCHANGED <<file, down>>

(* A file is missing, has changed or does not execute, or the connection is  *)
(* lost: the transaction is rolled back.                                     *)
Fail(j) ==
    /\ job[j] # Idle
    /\ job' = [job EXCEPT ![j] = Idle]
    /\ UNCHANGED <<file, down, database>>

JobStep(j) ==
    \/ \E kind \in {"migrate", "rollback"}, steps \in Steps : Begin(j, kind, steps)
    \/ Lock(j) \/ Pass(j) \/ Apply(j) \/ Revert(j) \/ Commit(j) \/ Fail(j)

DirectoryStep(n) ==
    \/ \E c \in Contents : Release(n, c) \/ Edit(n, c)
    \/ LoseDown(n)

Next == (\E j \in Jobs : JobStep(j)) \/ (\E n \in Names : DirectoryStep(n))

Spec == Init /\ [][Next]_vars
-----------------------------------------------------------------------------
TypeOK ==
    /\ file \in [Names -> Contents \cup {NoContent}]
    /\ down \subseteq Names
    /\ recorded \in [Names -> Contents \cup {NoContent}]
    /\ schema \subseteq Names
    /\ job \in [Jobs -> JobRecords \cup {Idle}]

(* The record and the schema agree, however the jobs overlap and wherever    *)
(* they fail: what is recorded is there, and nothing else is                 *)
(* (postgres.go:566-590, 632-652).                                           *)
SchemaIsRecorded == schema = Applied(recorded)

MigrationInv == TypeOK /\ SchemaIsRecorded

(* Nothing stands on an object that has been dropped (postgres.go:614).      *)
NeedsAreMet == \A n \in schema : Needs[n] \subseteq schema

(* A file that has changed after it was applied is refused: the record of a  *)
(* migration never changes, it comes and goes (postgres.go:574-581).         *)
RecordsAreFinal ==
    [][\A n \in Names : recorded[n] # NoContent /\ recorded'[n] # NoContent =>
          recorded'[n] = recorded[n]]_recorded

(* What one job has committed a migration under way does not undo: it sees   *)
(* the database as the last one left it (postgres.go:560).                   *)
MigrationsOnlyAdd ==
    [][\A j \in Jobs : Commit(j) /\ job[j].kind = "migrate" => schema \subseteq schema']_vars
-----------------------------------------------------------------------------
(* The inductive invariant.                                                  *)

(* The lock admits one job at a time.                                        *)
OneWorks ==
    \A j, k \in Jobs : job[j].stage = "working" /\ job[k].stage = "working" => j = k

(* The view of a job under the lock: it agrees with itself, no record in it    *)
(* has another checksum than the committed one, a migration has lost nothing,  *)
(* and a rollback has all that is left before it.                             *)
ViewOf(x) ==
    /\ x.has = Applied(x.rec)
    /\ \A n \in x.has : Needs[n] \subseteq x.has
    /\ \A n \in Names : x.rec[n] # NoContent /\ recorded[n] # NoContent => x.rec[n] = recorded[n]
    /\ x.kind = "migrate" => schema \subseteq x.has
    /\ x.kind = "rollback" => x.todo = x.has

(* What a migration has to do is in the directory.                           *)
JobsKnow ==
    \A j \in Jobs : job[j] # Idle =>
        /\ job[j].kind = "migrate" => job[j].todo \subseteq Applied(file)
        /\ job[j].stage = "working" => ViewOf(job[j])

SchemaInv == MigrationInv /\ NeedsAreMet /\ OneWorks /\ JobsKnow
=============================================================================
