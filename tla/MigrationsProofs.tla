-------------------------- MODULE MigrationsProofs --------------------------
(* Proofs about Migrations, for every set of files, whatever they need of each *)
(* other, and any number of jobs.                                            *)
(*                                                                           *)
(* The jobs under way carry the argument: the one that has the advisory lock   *)
(* works on a view that agrees with itself and with the committed record, and  *)
(* nobody else commits meanwhile.  A rollback takes the last name first, and    *)
(* what a migration needs comes before it.                                    *)
EXTENDS Migrations, FiniteSetTheorems, WellFoundedInduction, TLAPS

(* A set of numbers that is not empty has a least element.                    *)
LEMMA HasLeast ==
    ASSUME NEW S \in SUBSET Nat, S # {}
    PROVE  \E l \in S : \A m \in S : l <= m
<1> DEFINE R == {ss \in Nat \X Nat : ss[1] < ss[2]}
<1>1. IsWellFoundedOn(R, Nat)
    BY NatLessThanWellFounded DEF OpToRel
<1>2. PICK l \in S : \A m \in S : ~(<<m, l>> \in R)
    <2> HIDE DEF R
    <2> QED
        BY <1>1, WFMin
<1>3. \A m \in S : ~(m < l)
    BY <1>2
<1> QED
    BY <1>3

(* A finite one has a greatest: the one with the fewest above it.              *)
LEMMA HasGreatest ==
    ASSUME NEW S \in SUBSET Nat, S # {}, IsFiniteSet(S)
    PROVE  \E g \in S : \A m \in S : m <= g
<1> DEFINE Above(x) == {m \in S : m > x}
           Counts == {Cardinality(Above(x)) : x \in S}
<1>1. \A x \in S : IsFiniteSet(Above(x)) /\ Cardinality(Above(x)) \in Nat
    BY FS_Subset, FS_CardinalityType
<1>2. PICK l \in Counts : \A k \in Counts : l <= k
    <2>1. Counts \in SUBSET Nat /\ Counts # {}
        BY <1>1
    <2> HIDE DEF Counts
    <2> QED
        BY <2>1, HasLeast
<1>3. PICK g \in S : l = Cardinality(Above(g))
    BY <1>2
<1>4. ASSUME NEW m \in S, m > g PROVE FALSE
    <2>1. m \in Above(g) /\ Above(m) \subseteq Above(g) \ {m}
        <3>1. \A k \in S : k \in Int
            OBVIOUS
        <3>2. \A k \in S : k > m => k > g /\ k # m
            BY <1>4, <3>1
        <3> QED
            BY <1>4, <3>2
    <2>2. /\ IsFiniteSet(Above(g) \ {m})
          /\ Cardinality(Above(g) \ {m}) = Cardinality(Above(g)) - 1
        BY <1>1, <2>1, FS_RemoveElement
    <2>3. Cardinality(Above(m)) <= Cardinality(Above(g) \ {m})
        BY <2>1, <2>2, FS_Subset
    <2>4. l <= Cardinality(Above(m))
        BY <1>2
    <2> HIDE DEF Above
    <2> QED
        BY <1>1, <1>3, <2>2, <2>3, <2>4
<1> QED
    BY <1>4

(* Of the files that are left one is the first and one the last.              *)
LEMMA FirstAndLast ==
    ASSUME NEW S \in SUBSET Names, S # {}
    PROVE  First(S) \in S /\ Last(S) \in S /\ \A m \in S : m <= Last(S)
<1>1. S \in SUBSET Nat /\ IsFiniteSet(S)
    BY MigrationAssumption, FS_Subset
<1>2. \E l \in S : \A m \in S : l <= m
    BY <1>1, HasLeast
<1>3. \E g \in S : \A m \in S : m <= g
    BY <1>1, HasGreatest
<1> QED
    BY <1>2, <1>3 DEF First, Last
-----------------------------------------------------------------------------
(* A step of a job that leaves the database and the directory alone: the jobs   *)
(* agree afterwards if this one does.                                         *)
LEMMA JobKeeps ==
    ASSUME SchemaInv, NEW j \in Jobs, NEW y \in JobRecords \cup {Idle},
           job' = [job EXCEPT ![j] = y],
           UNCHANGED <<file, down, database>>,
           y # Idle /\ y.stage = "working" => job[j].stage = "working" \/ LockIsFree,
           y # Idle /\ y.kind = "migrate" => y.todo \subseteq Applied(file),
           y # Idle /\ y.stage = "working" => ViewOf(y)
    PROVE  SchemaInv'
<1> USE DEF SchemaInv
<1>1. job \in [Jobs -> JobRecords \cup {Idle}]
    BY DEF MigrationInv, TypeOK
<1>2. job'[j] = y /\ \A k \in Jobs \ {j} : job'[k] = job[k]
    BY <1>1
<1>3. MigrationInv' /\ NeedsAreMet'
    BY <1>1 DEF MigrationInv, TypeOK, SchemaIsRecorded, NeedsAreMet, Applied, database
<1>4. OneWorks'
    <2>1. y.stage = "working" => y # Idle
        BY DEF Idle
    <2> QED
        BY <1>2, <2>1 DEF OneWorks, LockIsFree
<1>5. JobsKnow'
    BY <1>2 DEF JobsKnow, ViewOf, Applied, database
<1> QED
    BY <1>3, <1>4, <1>5

(* The shape of a job under way.                                             *)
LEMMA JobShape ==
    ASSUME TypeOK, NEW j \in Jobs, job[j] # Idle
    PROVE  job[j] \in JobRecords
BY DEF TypeOK

LEMMA IdleShape == \A x \in JobRecords : x # Idle /\ x.stage # "idle"
BY DEF JobRecords, Idle

LEMMA BeginStep ==
    ASSUME SchemaInv, NEW j \in Jobs, NEW kind \in {"migrate", "rollback"}, NEW steps \in Steps,
           Begin(j, kind, steps)
    PROVE  SchemaInv'
<1> DEFINE y == [stage |-> "begun", kind |-> kind, steps |-> steps,
                 todo |-> IF kind = "migrate" THEN Applied(file) ELSE {},
                 rec |-> recorded, has |-> schema, rolled |-> {}]
<1>1. y \in JobRecords
    BY DEF SchemaInv, MigrationInv, TypeOK, JobRecords, Applied
<1>2. job' = [job EXCEPT ![j] = y] /\ UNCHANGED <<file, down, database>>
    BY DEF Begin
<1>3. y.stage = "begun" /\ (y.kind = "migrate" => y.todo \subseteq Applied(file))
    OBVIOUS
<1> HIDE DEF y
<1> QED
    BY <1>1, <1>2, <1>3, JobKeeps

LEMMA LockStep ==
    ASSUME SchemaInv, NEW j \in Jobs, Lock(j)
    PROVE  SchemaInv'
<1> DEFINE x == job[j]
           y == [x EXCEPT !.stage = "working", !.rec = recorded, !.has = schema,
                          !.todo = IF x.kind = "rollback" THEN Applied(recorded) ELSE @]
<1>1. x \in JobRecords
    BY JobShape DEF SchemaInv, MigrationInv, Lock, Idle
<1>2. y \in JobRecords
    BY <1>1 DEF SchemaInv, MigrationInv, TypeOK, JobRecords, Applied
<1>3. job' = [job EXCEPT ![j] = y] /\ UNCHANGED <<file, down, database>> /\ LockIsFree
    BY DEF Lock, SchemaInv, MigrationInv, TypeOK
<1>4. y.kind = "migrate" => y.todo \subseteq Applied(file)
    BY <1>1, IdleShape DEF SchemaInv, JobsKnow, JobRecords
<1>5. ViewOf(y)
    BY <1>1 DEF ViewOf, SchemaInv, MigrationInv, SchemaIsRecorded, NeedsAreMet, JobRecords
<1> HIDE DEF y
<1> QED
    BY <1>2, <1>3, <1>4, <1>5, JobKeeps

(* Under the lock.                                                           *)
LEMMA WorkingShape ==
    ASSUME SchemaInv, NEW j \in Jobs, NEW kind, Working(j, kind)
    PROVE  /\ job[j] \in JobRecords /\ job[j] # Idle
           /\ job[j].stage = "working" /\ job[j].kind = kind
           /\ ViewOf(job[j])
           /\ kind = "migrate" => job[j].todo \subseteq Applied(file)
BY JobShape DEF SchemaInv, MigrationInv, Working, Idle, JobsKnow

LEMMA PassStep ==
    ASSUME SchemaInv, NEW j \in Jobs, Pass(j)
    PROVE  SchemaInv'
<1> DEFINE x == job[j]
           y == [x EXCEPT !.todo = @ \ {First(x.todo)}]
<1>1. Working(j, "migrate")
    BY DEF Pass
<1>2. y \in JobRecords
    BY <1>1, WorkingShape DEF JobRecords
<1>3. job' = [job EXCEPT ![j] = y] /\ UNCHANGED <<file, down, database>> /\ x.stage = "working"
    BY <1>1, WorkingShape DEF Pass
<1>4. y.todo \subseteq Applied(file)
    BY <1>1, WorkingShape DEF JobRecords
<1>5. ViewOf(y)
    BY <1>1, WorkingShape DEF ViewOf, JobRecords
<1> HIDE DEF y
<1> QED
    BY <1>2, <1>3, <1>4, <1>5, JobKeeps

LEMMA ApplyStep ==
    ASSUME SchemaInv, NEW j \in Jobs, Apply(j)
    PROVE  SchemaInv'
<1> DEFINE x == job[j]
           n == First(x.todo)
           y == [x EXCEPT !.todo = @ \ {n}, !.rec = [@ EXCEPT ![n] = file[n]], !.has = @ \cup {n}]
<1>1. Working(j, "migrate") /\ x.todo # {} /\ x.rec[n] = NoContent /\ Needs[n] \subseteq x.has
    BY DEF Apply, Unrecorded
<1>2. x \in JobRecords /\ ViewOf(x) /\ x.todo \subseteq Applied(file) /\ x.kind = "migrate"
    BY <1>1, WorkingShape
<1>3. n \in x.todo /\ n \in Names /\ file[n] \in Contents
    <2>1. x.todo \in SUBSET Names
        BY <1>2 DEF JobRecords
    <2>2. n \in x.todo
        BY <1>1, <2>1, FirstAndLast
    <2> QED
        BY <1>2, <2>1, <2>2 DEF SchemaInv, MigrationInv, TypeOK, Applied
<1>4. y \in JobRecords
    BY <1>2, <1>3 DEF JobRecords
<1>5. job' = [job EXCEPT ![j] = y] /\ UNCHANGED <<file, down, database>> /\ x.stage = "working"
    BY <1>1, WorkingShape DEF Apply
<1>6. y.todo \subseteq Applied(file)
    BY <1>2 DEF JobRecords
<1>7. ViewOf(y)
    <2>1. /\ y.rec = [x.rec EXCEPT ![n] = file[n]] /\ y.has = x.has \cup {n} /\ y.kind = "migrate"
          /\ x.rec \in [Names -> Contents \cup {NoContent}] /\ x.has \subseteq Names
        BY <1>2 DEF JobRecords
    <2>2. y.has = Applied(y.rec)
        BY <1>2, <1>3, <2>1, MigrationAssumption DEF ViewOf, Applied
    <2>3. \A m \in y.has : Needs[m] \subseteq y.has
        BY <1>1, <1>2, <2>1 DEF ViewOf
    <2>4. recorded[n] = NoContent
        BY <1>1, <1>2, <1>3, <2>1 DEF ViewOf, SchemaInv, MigrationInv, SchemaIsRecorded, Applied
    <2> HIDE DEF y
    <2> QED
        BY <1>2, <2>1, <2>2, <2>3, <2>4 DEF ViewOf
<1> HIDE DEF y
<1> QED
    BY <1>4, <1>5, <1>6, <1>7, JobKeeps

LEMMA RevertStep ==
    ASSUME SchemaInv, NEW j \in Jobs, Revert(j)
    PROVE  SchemaInv'
<1> DEFINE x == job[j]
           n == Last(x.todo)
           y == [x EXCEPT !.todo = @ \ {n}, !.rec = [@ EXCEPT ![n] = NoContent],
                          !.has = @ \ {n}, !.rolled = @ \cup {n}]
<1>1. Working(j, "rollback") /\ x.todo # {}
    BY DEF Revert
<1>2. x \in JobRecords /\ ViewOf(x) /\ x.kind = "rollback"
    BY <1>1, WorkingShape
<1>3. n \in x.todo /\ n \in Names /\ \A m \in x.todo : m <= n
    <2>1. x.todo \in SUBSET Names
        BY <1>2 DEF JobRecords
    <2> QED
        BY <1>1, <2>1, FirstAndLast
<1>4. y \in JobRecords
    BY <1>2, <1>3 DEF JobRecords
<1>5. job' = [job EXCEPT ![j] = y] /\ UNCHANGED <<file, down, database>> /\ x.stage = "working"
    BY <1>1, WorkingShape DEF Revert, NextToRevert, Delete
<1>6. y.kind = "rollback"
    BY <1>2 DEF JobRecords
<1>7. ViewOf(y)
    <2>1. /\ y.rec = [x.rec EXCEPT ![n] = NoContent] /\ y.has = x.has \ {n} /\ y.kind = "rollback"
          /\ y.todo = x.todo \ {n}
          /\ x.rec \in [Names -> Contents \cup {NoContent}] /\ x.has \subseteq Names
        BY <1>2 DEF JobRecords
    <2>2. y.has = Applied(y.rec)
        BY <1>2, <1>3, <2>1 DEF ViewOf, Applied
    <2>3. ASSUME NEW m \in y.has PROVE Needs[m] \subseteq y.has
        <3>1. m \in x.has /\ m \in Names /\ n \in Names /\ m <= n /\ m \in Nat /\ n \in Nat
            BY <1>2, <1>3, <2>1, MigrationAssumption DEF ViewOf
        <3>2. n \notin Needs[m]
            BY <3>1, MigrationAssumption
        <3> QED
            BY <1>2, <2>1, <3>1, <3>2 DEF ViewOf
    <2> HIDE DEF y
    <2> QED
        BY <1>2, <2>1, <2>2, <2>3 DEF ViewOf
<1> HIDE DEF y
<1> QED
    BY <1>4, <1>5, <1>6, <1>7, JobKeeps

LEMMA FailStep ==
    ASSUME SchemaInv, NEW j \in Jobs, Fail(j)
    PROVE  SchemaInv'
BY JobKeeps DEF Fail

(* A commit: everybody else waits for the lock, and has seen nothing yet.      *)
LEMMA CommitStep ==
    ASSUME SchemaInv, NEW j \in Jobs, Commit(j)
    PROVE  SchemaInv'
<1> DEFINE x == job[j]
<1>1. x \in JobRecords /\ ViewOf(x) /\ x.stage = "working"
    BY JobShape DEF SchemaInv, MigrationInv, Commit, Idle, JobsKnow
<1>2. recorded' = x.rec /\ schema' = x.has /\ UNCHANGED <<file, down>>
    BY DEF Commit
<1>3. job'[j] = Idle /\ job' \in [Jobs -> JobRecords \cup {Idle}] /\ \A k \in Jobs \ {j} : job'[k] = job[k]
    BY DEF Commit, SchemaInv, MigrationInv, TypeOK
<1>4. \A k \in Jobs \ {j} : job[k].stage # "working"
    BY <1>1 DEF SchemaInv, OneWorks
<1>5. MigrationInv'
    BY <1>1, <1>2, <1>3 DEF SchemaInv, MigrationInv, TypeOK, SchemaIsRecorded, ViewOf, JobRecords, Applied
<1>6. NeedsAreMet'
    BY <1>1, <1>2 DEF NeedsAreMet, ViewOf
<1>7. OneWorks'
    BY <1>3, <1>4 DEF OneWorks, Idle
<1>8. JobsKnow'
    BY <1>2, <1>3, <1>4 DEF SchemaInv, JobsKnow, Applied
<1> QED
    BY <1>5, <1>6, <1>7, <1>8 DEF SchemaInv

(* Files come and change, and none goes.                                      *)
LEMMA DirectoryKeeps ==
    ASSUME SchemaInv, NEW n \in Names, DirectoryStep(n)
    PROVE  SchemaInv'
<1>1. /\ UNCHANGED <<database, job>>
      /\ down' \subseteq Names
      /\ file' \in [Names -> Contents \cup {NoContent}]
      /\ Applied(file) \subseteq Applied(file)'
    BY MigrationAssumption
       DEF DirectoryStep, Release, Edit, LoseDown, SchemaInv, MigrationInv, TypeOK, Applied
<1>2. MigrationInv'
    BY <1>1 DEF SchemaInv, MigrationInv, TypeOK, SchemaIsRecorded, Applied, database
<1>3. JobsKnow'
    BY <1>1 DEF SchemaInv, JobsKnow, ViewOf, Applied, database
<1> QED
    BY <1>1, <1>2, <1>3 DEF SchemaInv, OneWorks, NeedsAreMet, database

LEMMA SchemaStep == SchemaInv /\ [Next]_vars => SchemaInv'
<1> SUFFICES ASSUME SchemaInv, [Next]_vars PROVE SchemaInv'
    OBVIOUS
<1>1. ASSUME NEW j \in Jobs, JobStep(j) PROVE SchemaInv'
    BY <1>1, BeginStep, LockStep, PassStep, ApplyStep, RevertStep, CommitStep, FailStep DEF JobStep
<1>2. ASSUME NEW n \in Names, DirectoryStep(n) PROVE SchemaInv'
    BY <1>2, DirectoryKeeps
<1>3. CASE UNCHANGED vars
    BY <1>3 DEF vars, database, SchemaInv, MigrationInv, TypeOK, SchemaIsRecorded, NeedsAreMet, OneWorks,
                JobsKnow, ViewOf, Applied
<1> QED
    BY <1>1, <1>2, <1>3 DEF Next

LEMMA SchemaStart == Init => SchemaInv
BY MigrationAssumption DEF Init, SchemaInv, MigrationInv, TypeOK, SchemaIsRecorded, NeedsAreMet, OneWorks,
       JobsKnow, ViewOf, Applied, Idle

LEMMA SchemaAlways == Spec => []SchemaInv
BY SchemaStart, SchemaStep, PTL DEF Spec
-----------------------------------------------------------------------------
(* However jobs overlap and wherever they fail, what is recorded is there and  *)
(* nothing else is (postgres.go:566-590, 632-652).                            *)
THEOREM SchemaAsRecorded == Spec => []MigrationInv
<1>1. SchemaInv => MigrationInv
    BY DEF SchemaInv
<1> QED
    BY <1>1, SchemaAlways, PTL

(* No migration is undone while another one stands on it (postgres.go:614).    *)
THEOREM NeedsMet == Spec => []NeedsAreMet
<1>1. SchemaInv => NeedsAreMet
    BY DEF SchemaInv
<1> QED
    BY <1>1, SchemaAlways, PTL

(* The committed record changes with a commit only.                           *)
LEMMA OnlyCommits ==
    ASSUME [Next]_vars, recorded' # recorded
    PROVE  \E j \in Jobs : Commit(j)
BY DEF Next, JobStep, Begin, Lock, Pass, Apply, Revert, Fail, DirectoryStep, Release, Edit, LoseDown,
       vars, database

(* The record of a migration comes and goes, and never changes                 *)
(* (postgres.go:574-581).                                                     *)
THEOREM FinalRecords == Spec => RecordsAreFinal
<1>1. SchemaInv /\ [Next]_vars =>
        [\A n \in Names : recorded[n] # NoContent /\ recorded'[n] # NoContent =>
            recorded'[n] = recorded[n]]_recorded
    <2> SUFFICES ASSUME SchemaInv, [Next]_vars, recorded' # recorded,
                        NEW n \in Names, recorded[n] # NoContent, recorded'[n] # NoContent
                 PROVE  recorded'[n] = recorded[n]
        OBVIOUS
    <2>1. PICK j \in Jobs : Commit(j)
        BY OnlyCommits
    <2>2. recorded' = job[j].rec /\ ViewOf(job[j])
        BY <2>1 DEF Commit, SchemaInv, JobsKnow, Idle
    <2> QED
        BY <2>2 DEF ViewOf
<1> QED
    BY <1>1, SchemaAlways, PTL DEF Spec, RecordsAreFinal

(* The commit of a migration takes nothing away that another job has committed  *)
(* (postgres.go:560).                                                         *)
THEOREM MigrationsAdd == Spec => MigrationsOnlyAdd
<1>1. SchemaInv =>
        [\A j \in Jobs : Commit(j) /\ job[j].kind = "migrate" => schema \subseteq schema']_vars
    BY DEF SchemaInv, JobsKnow, ViewOf, Commit, Idle
<1> QED
    BY <1>1, SchemaAlways, PTL DEF MigrationsOnlyAdd
=============================================================================
