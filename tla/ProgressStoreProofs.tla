------------------------ MODULE ProgressStoreProofs ------------------------
(***************************************************************************)
(* Theorems about ProgressStore for all values of its constants.           *)
(***************************************************************************)
EXTENDS ProgressStore, SequenceTheorems, FiniteSetTheorems, TLAPS

(* What a commit writes is again a progress row.                           *)
LEMMA EffectType ==
    ASSUME NEW s \in Progress, NEW p \in Payload
    PROVE  Effect(s, p) \in Progress
<1>0. USE CatalogAssumption
<1>1. CASE p \in Pickup
  <2>1. p.kind = "pickup" /\ p.item \in Items
    BY <1>1 DEF Pickup
  <2> DEFINE more == [s.inv EXCEPT ![p.item] = s.inv[p.item] + 1]
  <2>2. Effect(s, p) = [s EXCEPT !.inv = more]
    BY <2>1 DEF Effect
  <2>3. more \in [Items -> Nat]
    BY <2>1 DEF Progress
  <2> QED BY <2>2, <2>3 DEF Progress
<1>2. CASE p \in Equip
  <2> DEFINE worn == IF p.equipped THEN p.item ELSE NoItem
  <2>1. p.kind = "equip" /\ p.slot \in Slots /\ worn \in Items \cup {NoItem}
    BY <1>2 DEF Equip
  <2> DEFINE gear == [s.equip EXCEPT ![p.slot] = worn]
  <2>2. Effect(s, p) = [s EXCEPT !.equip = gear]
    BY <2>1 DEF Effect
  <2>3. gear \in [Slots -> Items \cup {NoItem}]
    BY <2>1 DEF Progress
  <2> QED BY <2>2, <2>3 DEF Progress
<1>3. CASE p \in QuestStep
  <2> DEFINE q == Advance(s.quests, p.objective, p.amount)
             i == PayReward(s.inv, s.quests, q, QuestOf[p.objective])
  <2>1. p.kind = "quest" /\ p.objective \in Objectives /\ p.amount \in Nat
    BY <1>3 DEF QuestStep
  <2>2. q \in [Objectives -> Nat]
    BY <2>1 DEF Advance, Progress
  <2>3. QuestOf[p.objective] \in Quests
    BY <2>1
  <2>4. i \in [Items -> Nat]
    BY <2>3 DEF PayReward, Progress
  <2>5. Effect(s, p) = [s EXCEPT !.quests = q, !.inv = i]
    BY <2>1 DEF Effect
  <2> QED BY <2>2, <2>4, <2>5 DEF Progress
<1> QED BY <1>1, <1>2, <1>3 DEF Payload

LEMMA NewProgressType == NewProgress \in Progress
  BY CatalogAssumption DEF NewProgress, Progress

LEMMA NoLeaseType == NoLease \in LeaseRow
  BY StoreAssumption DEF NoLease, LeaseRow

(* The helpers that start and end a call keep its bookkeeping well typed.  *)
LEMMA EndType ==
    ASSUME TypeOK, NEW c \in Calls, End(c)
    PROVE  /\ stage' \in [Calls -> {"idle", "acquiring", "sent", "begun", "staged", "answering"}]
           /\ age' \in [Calls -> 0..CtxTimeout]
           /\ image' \in [Calls -> RowImage]
           /\ DOMAIN sent' = Calls
           /\ stage'[c] = "idle"
           /\ \A d \in Calls \ {c} : stage'[d] = stage[d] /\ sent'[d] = sent[d] /\ image'[d] = image[d]
  BY StoreAssumption, NewProgressType DEF TypeOK, End, NoImage, RowImage

LEMMA TypeInit == Init => TypeOK
<1>1. SUFFICES ASSUME Init PROVE TypeOK
  OBVIOUS
<1> QED
  BY <1>1, StoreAssumption, NewProgressType, NoLeaseType DEF Init, TypeOK, NoImage, RowImage

LEMMA TypeStep == TypeOK /\ [Next]_vars => TypeOK'
<1> SUFFICES ASSUME TypeOK, [Next]_vars PROVE TypeOK'
  OBVIOUS
<1> USE DEF TypeOK
<1>1. ASSUME NEW c \in Calls, NEW r \in Rooms, BeginAcquire(c, r)
      PROVE  TypeOK'
  BY <1>1 DEF BeginAcquire, Start, table, Asked
<1>2. ASSUME NEW c \in Calls, NEW g \in held, NEW q \in Requests, NEW n \in Known,
             SendCommit(c, g, q, n)
      PROVE  TypeOK'
  BY <1>2, StoreAssumption DEF SendCommit, Start, table, Known, Request, Asked
<1>3. ASSUME NEW c \in Calls, Acquire(c)
      PROVE  TypeOK'
  <2> DEFINE g == [room |-> sent[c], token |-> NextToken, epoch |-> epoch + 1]
  <2>1. sent[c] \in Rooms /\ NextToken \in Nat /\ LeaseTTL - age[c] \in Int
    BY <1>3, StoreAssumption DEF Acquire, NextToken, LeaseRow
  <2>2. lease' \in LeaseRow /\ held' \subseteq Grant
    BY <1>3, <2>1 DEF Acquire, Grant, LeaseRow
  <2>3. version' \in Nat /\ epoch' \in Nat /\ UNCHANGED <<rev, progress, ops, acked>>
    BY <1>3, StoreAssumption DEF Acquire
  <2> QED BY <1>3, <2>2, <2>3, EndType DEF Acquire, Asked
<1>4. ASSUME NEW c \in Calls, AcquireRefused(c)
      PROVE  TypeOK'
  BY <1>4, EndType DEF AcquireRefused, table, Asked
<1>5. ASSUME NEW c \in Calls, Begin(c)
      PROVE  TypeOK'
  BY <1>5 DEF Begin, table, Asked
<1>6. ASSUME NEW c \in Calls, Replay(c)
      PROVE  TypeOK'
  BY <1>6 DEF Replay, table, Asked
<1>7. ASSUME NEW c \in Calls, Refuse(c)
      PROVE  TypeOK'
  BY <1>7, EndType DEF Refuse, table, Asked
<1>8. ASSUME NEW c \in Calls, Write(c)
      PROVE  TypeOK'
  <2>1. Effect(progress, sent[c].payload) \in Progress
    BY <1>8, EffectType DEF Write, Request
  <2>2. image' \in [Calls -> RowImage]
    BY <1>8, <2>1 DEF Write, RowImage
  <2> QED BY <1>8, <2>2 DEF Write, table, Asked
<1>9. ASSUME NEW c \in Calls, Commit(c)
      PROVE  TypeOK'
  <2>1. rev' \in Nat /\ progress' \in Progress
    BY <1>9 DEF Commit, RowImage
  <2>2. ops' \subseteq OpRow
    BY <1>9 DEF Commit, RowImage, Request, Grant, OpRow
  <2>3. image' \in [Calls -> RowImage]
    BY <1>9, NewProgressType DEF Commit, RowImage, NoImage
  <2> QED BY <1>9, <2>1, <2>2, <2>3 DEF Commit, Asked
<1>10. ASSUME NEW c \in Calls, Answer(c)
      PROVE  TypeOK'
  BY <1>10, EndType DEF Answer, table, Asked
<1>11. ASSUME NEW c \in Calls, Abort(c)
      PROVE  TypeOK'
  BY <1>11, EndType DEF Abort, table, Asked
<1>12. ASSUME NEW g \in held, Renew(g) \/ Release(g)
      PROVE  TypeOK'
  BY <1>12, NoLeaseType, StoreAssumption DEF Renew, Release, table, calls, Asked, LeaseRow, Grant
<1>13. ASSUME NEW r \in Rooms, Crash(r)
      PROVE  TypeOK'
  BY <1>13 DEF Crash, table, calls, Asked
<1>14. ASSUME MigrateProgressSchema \/ NewerServerMigrates
      PROVE  TypeOK'
  BY <1>14, StoreAssumption DEF MigrateProgressSchema, NewerServerMigrates, Mark, calls, Asked
<1>15. ASSUME Tick
      PROVE  TypeOK'
  BY <1>15, StoreAssumption DEF Tick, table, Asked, LeaseRow
<1>16. ASSUME UNCHANGED vars
      PROVE  TypeOK'
  BY <1>16 DEF vars, table, calls, Asked
<1> QED
  BY <1>1, <1>2, <1>3, <1>4, <1>5, <1>6, <1>7, <1>8, <1>9, <1>10, <1>11, <1>12, <1>13, <1>14,
     <1>15, <1>16 DEF Next, NextNoRelease, Ask, Proceed

-----------------------------------------------------------------------------
(* The tables.                                                             *)

LEMMA RewardOnlyAdds ==
    ASSUME NEW inv \in [Items -> Nat], NEW before, NEW after, NEW q \in Quests, NEW i \in Items
    PROVE  PayReward(inv, before, after, q)[i] >= inv[i]
  BY CatalogAssumption DEF PayReward

Clothed(s) == \A slot \in Slots : s.equip[slot] # NoItem => s.inv[s.equip[slot]] > 0

(* No commit takes an item away, and only an owned item is put on.         *)
LEMMA EffectKeepsClothed ==
    ASSUME NEW s \in Progress, NEW p \in Payload, Owned(s, p), Clothed(s)
    PROVE  Clothed(Effect(s, p))
<1> SUFFICES ASSUME NEW slot \in Slots, Effect(s, p).equip[slot] # NoItem
             PROVE  Effect(s, p).inv[Effect(s, p).equip[slot]] > 0
  BY DEF Clothed
<1>0. /\ s.inv \in [Items -> Nat]
      /\ s.equip \in [Slots -> Items \cup {NoItem}]
      /\ s.quests \in [Objectives -> Nat]
      /\ s = [inv |-> s.inv, equip |-> s.equip, quests |-> s.quests]
  BY DEF Progress
<1>1. CASE p \in Pickup
  <2> DEFINE more == [s.inv EXCEPT ![p.item] = s.inv[p.item] + 1]
  <2>1. p.kind = "pickup" /\ p.item \in Items
    BY <1>1 DEF Pickup
  <2>2. Effect(s, p) = [s EXCEPT !.inv = more]
    BY <2>1 DEF Effect
  <2>3. Effect(s, p).inv = more /\ Effect(s, p).equip = s.equip
    BY <2>2, <1>0
  <2>4. \A i \in Items : more[i] >= s.inv[i]
    BY <1>0, <2>1
  <2> QED BY <2>3, <2>4, <1>0 DEF Clothed
<1>2. CASE p \in Equip
  <2> DEFINE worn == IF p.equipped THEN p.item ELSE NoItem
             gear == [s.equip EXCEPT ![p.slot] = worn]
  <2>1. p.kind = "equip" /\ p.slot \in Slots /\ p.item \in Items
    BY <1>2 DEF Equip
  <2>2. Effect(s, p) = [s EXCEPT !.equip = gear]
    BY <2>1 DEF Effect
  <2>3. Effect(s, p).inv = s.inv /\ Effect(s, p).equip = gear
    BY <2>2, <1>0
  <2>4. p.equipped => s.inv[p.item] > 0
    BY <2>1 DEF Owned
  <2> QED BY <2>1, <2>3, <2>4, <1>0 DEF Clothed
<1>3. CASE p \in QuestStep
  <2> DEFINE q == Advance(s.quests, p.objective, p.amount)
             i == PayReward(s.inv, s.quests, q, QuestOf[p.objective])
  <2>1. p.kind = "quest" /\ p.objective \in Objectives /\ QuestOf[p.objective] \in Quests
    BY <1>3, CatalogAssumption DEF QuestStep
  <2>2. Effect(s, p) = [s EXCEPT !.quests = q, !.inv = i]
    BY <2>1 DEF Effect
  <2>3. Effect(s, p).inv = i /\ Effect(s, p).equip = s.equip
    BY <2>2, <1>0
  <2>4. \A j \in Items : i[j] >= s.inv[j]
    BY <2>1, <1>0, RewardOnlyAdds
  <2>5. i \in [Items -> Nat]
    BY <2>1, <1>0, CatalogAssumption DEF PayReward
  <2> HIDE DEF i
  <2> QED BY <2>3, <2>4, <2>5, <1>0 DEF Clothed
<1> QED BY <1>1, <1>2, <1>3 DEF Payload

(* A step that leaves the tables alone, opens no transaction and answers   *)
(* only for rows that are there.                                           *)
LEMMA QuietStep ==
    ASSUME TableInv, TypeOK', UNCHANGED <<rev, progress, ops>>,
           \A c \in Calls : stage'[c] = "staged" =>
               stage[c] = "staged" /\ sent'[c] = sent[c] /\ image'[c] = image[c] /\ version' = version,
           \A c \in Calls : stage'[c] = "answering" =>
               sent'[c] = sent[c] /\ (stage[c] = "answering" \/ Applied(Asked(c))),
           \A q \in acked' : q \in acked \/ Applied(q)
    PROVE  TableInv'
<1>1. OneWriter'
  BY DEF TableInv, OneWriter
<1>2. StagedIsCurrent'
  BY DEF TableInv, StagedIsCurrent, VersionReadable, OpRows
<1>3. AnsweringIsApplied'
  BY DEF TableInv, AnsweringIsApplied, Applied, Asked
<1>4. DenseRevisions' /\ EquippedIsOwned'
  BY DEF TableInv, DenseRevisions, EquippedIsOwned
<1>5. AckedIsApplied'
  BY DEF TableInv, AckedIsApplied, Applied
<1> QED BY <1>1, <1>2, <1>3, <1>4, <1>5 DEF TableInv

LEMMA TableInit == Init => TableInv
<1> SUFFICES ASSUME Init PROVE TableInv
  OBVIOUS
<1>1. TypeOK
  BY TypeInit
<1>2. OneWriter /\ StagedIsCurrent /\ AnsweringIsApplied /\ AckedIsApplied
  BY DEF Init, OneWriter, StagedIsCurrent, AnsweringIsApplied, AckedIsApplied
<1>3. DenseRevisions
  BY DEF Init, DenseRevisions
<1>4. EquippedIsOwned
  BY CatalogAssumption DEF Init, EquippedIsOwned, NewProgress
<1> QED BY <1>1, <1>2, <1>3, <1>4 DEF TableInv

(* The guarded update: the row lock was free, so this is the only writer.  *)
LEMMA WriteKeepsTables ==
    ASSUME TableInv, TypeOK', NEW c \in Calls, Write(c)
    PROVE  TableInv'
<1> USE DEF TableInv
<1>1. \A d \in Calls : stage'[d] = "staged" <=> d = c
  BY DEF Write, RowFree, TypeOK
<1>2. image'[c] = [rev |-> rev + 1, progress |-> Effect(progress, sent[c].payload)]
  BY DEF Write, TypeOK
<1>3. OneWriter'
  BY <1>1 DEF OneWriter
<1>4. StagedIsCurrent'
  BY <1>1, <1>2 DEF Write, Writable, table, StagedIsCurrent, VersionReadable, OpRows
<1>5. AnsweringIsApplied'
  BY DEF Write, table, AnsweringIsApplied, Applied, Asked, TypeOK
<1>6. DenseRevisions' /\ EquippedIsOwned' /\ AckedIsApplied'
  BY DEF Write, table, DenseRevisions, EquippedIsOwned, AckedIsApplied, Applied
<1> QED BY <1>3, <1>4, <1>5, <1>6

(* The commit installs the row version and records the operation.          *)
LEMMA CommitKeepsTables ==
    ASSUME TableInv, TypeOK', NEW c \in Calls, Commit(c)
    PROVE  TableInv'
<1> USE DEF TableInv
<1> DEFINE row == [op |-> sent[c].op, payload |-> sent[c].payload,
                   rev |-> rev + 1, epoch |-> sent[c].grant.epoch]
<1>a. /\ stage[c] = "staged"
      /\ OpRows(sent[c].op) = {}
      /\ Owned(progress, sent[c].payload)
      /\ image[c] = [rev |-> rev + 1, progress |-> Effect(progress, sent[c].payload)]
  BY DEF Commit, StagedIsCurrent
<1>b. image[c].rev = rev + 1 /\ image[c].progress = Effect(progress, sent[c].payload)
  BY <1>a
<1>1. /\ rev' = rev + 1 /\ progress' = Effect(progress, sent[c].payload)
      /\ ops' = ops \cup {row}
      /\ sent' = sent
  BY <1>b DEF Commit
<1>2. sent[c].payload \in Payload /\ progress \in Progress
  BY <1>a DEF TypeOK, Request
<1>3. \A d \in Calls : stage'[d] # "staged"
  BY <1>a DEF Commit, OneWriter, TypeOK
<1>4. OneWriter' /\ StagedIsCurrent'
  BY <1>3 DEF OneWriter, StagedIsCurrent
<1>5. AnsweringIsApplied'
  <2> SUFFICES ASSUME NEW d \in Calls, stage'[d] = "answering" PROVE Applied(Asked(d))'
    BY DEF AnsweringIsApplied
  <2>1. CASE d = c
    <3>1. row \in ops' /\ row.op = Asked(c).op /\ row.payload = Asked(c).payload
      BY <1>1 DEF Asked
    <3> QED BY <1>1, <2>1, <3>1 DEF Applied, Asked
  <2>2. CASE d # c
    <3>1. stage[d] = "answering"
      BY <2>2 DEF Commit, TypeOK
    <3> QED BY <1>1, <3>1 DEF Commit, AnsweringIsApplied, Applied, Asked
  <2> QED BY <2>1, <2>2
<1>6. DenseRevisions'
  <2>1. {x.rev : x \in ops'} = 1..(rev + 1)
    <3>1. {x.rev : x \in ops'} = {x.rev : x \in ops} \cup {rev + 1}
      <4>1. row.rev = rev + 1
        OBVIOUS
      <4> HIDE DEF row
      <4> QED BY <1>1, <4>1
    <3>2. rev \in Nat /\ {x.rev : x \in ops} = 1..rev
      BY DEF DenseRevisions, TypeOK
    <3>3. 1..(rev + 1) = 1..rev \cup {rev + 1}
      BY <3>2
    <3> QED BY <3>1, <3>2, <3>3
  <2>2. ASSUME NEW x \in ops', NEW y \in ops', x.rev = y.rev \/ x.op = y.op
        PROVE  x = y
    <3>1. \A z \in ops : z.op # row.op /\ z.rev # row.rev
      <4> SUFFICES ASSUME NEW z \in ops PROVE z.op # row.op /\ z.rev # row.rev
        OBVIOUS
      <4>1. z.op # row.op
        BY <1>a DEF OpRows
      <4>2. z.rev \in 1..rev
        BY DEF DenseRevisions
      <4> QED BY <4>1, <4>2 DEF TypeOK
    <3> QED BY <1>1, <2>2, <3>1 DEF DenseRevisions
  <2> QED BY <1>1, <2>1, <2>2 DEF DenseRevisions
<1>7. EquippedIsOwned'
  BY <1>a, <1>1, <1>2, EffectKeepsClothed DEF EquippedIsOwned, Clothed
<1>8. AckedIsApplied'
  BY <1>1 DEF Commit, AckedIsApplied, Applied
<1> QED BY <1>4, <1>5, <1>6, <1>7, <1>8

LEMMA TableStep == TableInv /\ [Next]_vars => TableInv'
<1> SUFFICES ASSUME TableInv, [Next]_vars PROVE TableInv'
  OBVIOUS
<1>0. TypeOK /\ TypeOK'
  BY TypeStep DEF TableInv
<1> USE DEF TypeOK
<1>1. ASSUME NEW c \in Calls, NEW r \in Rooms, BeginAcquire(c, r)
      PROVE  TableInv'
  BY <1>0, <1>1, QuietStep DEF BeginAcquire, Start, table
<1>2. ASSUME NEW c \in Calls, NEW g \in held, NEW q \in Requests, NEW n \in Known,
             SendCommit(c, g, q, n)
      PROVE  TableInv'
  BY <1>0, <1>2, QuietStep DEF SendCommit, Start, table
<1>3. ASSUME NEW c \in Calls, Acquire(c)
      PROVE  TableInv'
  <2>1. \A d \in Calls : stage[d] = "staged" => version' = version
    BY <1>3 DEF Acquire, TableInv, StagedIsCurrent, VersionReadable
  <2> QED BY <1>0, <1>3, <2>1, EndType, QuietStep DEF Acquire
<1>4. ASSUME NEW c \in Calls, AcquireRefused(c) \/ Refuse(c) \/ Abort(c)
      PROVE  TableInv'
  BY <1>0, <1>4, EndType, QuietStep DEF AcquireRefused, Refuse, Abort, table
<1>5. ASSUME NEW c \in Calls, Begin(c)
      PROVE  TableInv'
  BY <1>0, <1>5, QuietStep DEF Begin, table
<1>6. ASSUME NEW c \in Calls, Replay(c)
      PROVE  TableInv'
  BY <1>0, <1>6, QuietStep DEF Replay, Replayable, table
<1>7. ASSUME NEW c \in Calls, Answer(c)
      PROVE  TableInv'
  <2>1. Applied(Asked(c))
    BY <1>7 DEF Answer, TableInv, AnsweringIsApplied
  <2> QED BY <1>0, <1>7, <2>1, EndType, QuietStep DEF Answer, table
<1>8. ASSUME NEW g \in held, Renew(g) \/ Release(g)
      PROVE  TableInv'
  BY <1>0, <1>8, QuietStep DEF Renew, Release, table, calls
<1>9. ASSUME NEW r \in Rooms, Crash(r)
      PROVE  TableInv'
  BY <1>0, <1>9, QuietStep DEF Crash, table, calls
<1>10. ASSUME MigrateProgressSchema \/ NewerServerMigrates
      PROVE  TableInv'
  BY <1>0, <1>10, QuietStep DEF MigrateProgressSchema, NewerServerMigrates, Mark, RowFree, calls
<1>11. ASSUME Tick
      PROVE  TableInv'
  BY <1>0, <1>11, QuietStep DEF Tick, table
<1>12. ASSUME UNCHANGED vars
      PROVE  TableInv'
  BY <1>0, <1>12, QuietStep DEF vars, table, calls
<1> QED
  BY <1>0, <1>1, <1>2, <1>3, <1>4, <1>5, <1>6, <1>7, <1>8, <1>9, <1>10, <1>11, <1>12,
     WriteKeepsTables, CommitKeepsTables DEF Next, NextNoRelease, Ask, Proceed

(* TypeOK, DenseRevisions, AckedIsApplied and EquippedIsOwned are parts of *)
(* the inductive invariant, which every reachable state satisfies.         *)
THEOREM TablesSafe == Spec => []TableInv
<1>1. Init => TableInv
  BY TableInit
<1>2. TableInv /\ [Next]_vars => TableInv'
  BY TableStep
<1> QED BY <1>1, <1>2, PTL DEF Spec

(* Each of its parts that a run checks, for all values of the constants.   *)
(* The variables have their types.                                         *)
THEOREM TypeCorrect == Spec => []TypeOK
<1>1. TableInv => TypeOK
  BY DEF TableInv
<1> QED BY TablesSafe, <1>1, PTL

(* Commits are applied exactly once: revisions and operations correspond.  *)
THEOREM ExactlyOnce == Spec => []DenseRevisions
<1>1. TableInv => DenseRevisions
  BY DEF TableInv
<1> QED BY TablesSafe, <1>1, PTL

(* A commit reported to a room is in the tables, and stays there.          *)
THEOREM Durability == Spec => []AckedIsApplied
<1>1. TableInv => AckedIsApplied
  BY DEF TableInv
<1> QED BY TablesSafe, <1>1, PTL

(* A player wears only what is in the inventory.                           *)
THEOREM Ownership == Spec => []EquippedIsOwned
<1>1. TableInv => EquippedIsOwned
  BY DEF TableInv
<1> QED BY TablesSafe, <1>1, PTL

(* Nothing but a commit changes a player's row.                            *)
LEMMA OnlyCommitsWrite ==
    ASSUME [Next]_vars, ~\E c \in Calls : Commit(c)
    PROVE  UNCHANGED <<rev, progress, ops>>
<1>1. ASSUME NEW c \in Calls, Ask(c)
      PROVE  UNCHANGED <<rev, progress, ops>>
  BY <1>1 DEF Ask, BeginAcquire, SendCommit, table
<1>2. ASSUME NEW c \in Calls, Proceed(c)
      PROVE  UNCHANGED <<rev, progress, ops>>
  BY <1>2 DEF Proceed, Acquire, AcquireRefused, Begin, Replay, Refuse, Write, Answer, Abort, table
<1>3. ASSUME NEW g \in held, Renew(g) \/ Release(g)
      PROVE  UNCHANGED <<rev, progress, ops>>
  BY <1>3 DEF Renew, Release, table
<1> QED
  BY <1>1, <1>2, <1>3 DEF Next, NextNoRelease, Crash, MigrateProgressSchema,
                          NewerServerMigrates, Mark, Tick, table, vars

(* The version check holds until the commit because it is made under the   *)
(* row lock: the only step that changes a row commits a staged call, and   *)
(* the invariant says that its version is still one this server supports.  *)
THEOREM NewerDataSafe == Spec => NewerDataUntouched
<1>1. TableInv /\ [Next]_vars
        => [version > ProgressSchemaVersion => UNCHANGED <<rev, progress, ops>>]_vars
  <2> SUFFICES ASSUME TableInv, Next, version > ProgressSchemaVersion
               PROVE  UNCHANGED <<rev, progress, ops>>
    BY DEF vars, table
  <2>1. ASSUME NEW c \in Calls, Commit(c)
        PROVE  FALSE
    BY <2>1, StoreAssumption DEF Commit, TableInv, TypeOK, StagedIsCurrent, VersionReadable
  <2> QED BY <2>1, OnlyCommitsWrite
<1> QED BY TablesSafe, <1>1, PTL DEF Spec, NewerDataUntouched

-----------------------------------------------------------------------------
(* The inventory.                                                          *)

(* The reward of a quest has as many pieces of an item as its amount says, *)
(* and shares none with another quest's.                                   *)
LEMMA PiecesCount ==
    ASSUME NEW q \in Quests, NEW i \in Items
    PROVE  IsFiniteSet(Pieces(q, i)) /\ Cardinality(Pieces(q, i)) = Reward[q][i]
<1> DEFINE n == Reward[q][i]
           f == [k \in 1..n |-> <<q, k>>]
<1>1. n \in Nat
  BY CatalogAssumption
<1>2. IsFiniteSet(1..n) /\ Cardinality(1..n) = n
  <2>1. /\ IsFiniteSet(1..n)
        /\ Cardinality(1..n) = IF 1 > n THEN 0 ELSE n - 1 + 1
    BY <1>1, FS_Interval
  <2> HIDE DEF n
  <2> QED BY <1>1, <2>1
<1>3. f \in Bijection(1..n, Pieces(q, i))
  BY DEF Pieces, Bijection, Injection, Surjection, IsInjective
<1> QED
  BY <1>2, <1>3, FS_Bijection DEF ExistsBijection

LEMMA PaidFinite ==
    ASSUME NEW quests, NEW i \in Items
    PROVE  IsFiniteSet(Paid(quests, i))
<1> DEFINE done == {q \in Quests : Completed(quests, q)}
           f == [q \in done |-> Pieces(q, i)]
           rewards == {Pieces(q, i) : q \in done}
<1>1. IsFiniteSet(done)
  BY CatalogAssumption, FS_Subset
<1>2. f \in Surjection(done, rewards)
  BY DEF Surjection
<1>3. IsFiniteSet(rewards)
  BY <1>1, <1>2, FS_Surjection
<1>4. \A T \in rewards : IsFiniteSet(T)
  BY PiecesCount
<1>5. IsFiniteSet(UNION rewards)
  BY <1>3, <1>4, FS_UNION
<1> QED BY <1>5 DEF Paid

(* An advance completes its own quest at most, and undoes none: a quest of *)
(* the catalogue has one objective.                                        *)
LEMMA AdvanceCompletes ==
    ASSUME NEW quests \in [Objectives -> Nat], NEW o \in Objectives, NEW n \in Nat \ {0},
           NEW q \in Quests
    PROVE  /\ Completed(quests, q) => Completed(Advance(quests, o, n), q)
           /\ q # QuestOf[o] => (Completed(Advance(quests, o, n), q) <=> Completed(quests, q))
<1> DEFINE after == Advance(quests, o, n)
           sum == quests[o] + n
<1>1. /\ Required[o] \in Nat \ {0} /\ QuestOf[o] \in Quests
      /\ \A x \in Objectives : QuestOf[x] = QuestOf[o] => x = o
  BY CatalogAssumption
<1>2. /\ after[o] = (IF sum > Required[o] THEN Required[o] ELSE sum)
      /\ \A x \in Objectives \ {o} : after[x] = quests[x]
  BY DEF Advance
<1>3. after[o] > 0 /\ (quests[o] >= Required[o] => after[o] >= Required[o])
  BY <1>1, <1>2
<1> HIDE DEF after
<1>4. CASE q = QuestOf[o]
  <2>1. \A r : Completed(r, q) <=> r[o] > 0 /\ r[o] >= Required[o]
    BY <1>1, <1>4 DEF Completed
  <2>2. Completed(quests, q) => Completed(after, q)
    BY <1>3, <2>1
  <2> QED BY <1>4, <2>2 DEF after
<1>5. CASE q # QuestOf[o]
  <2>1. \A x \in Objectives : QuestOf[x] = q => after[x] = quests[x]
    BY <1>2, <1>5
  <2>2. Completed(after, q) <=> Completed(quests, q)
    BY <2>1 DEF Completed
  <2> QED BY <2>2 DEF after
<1> QED BY <1>4, <1>5

(* What a quest step adds to the inventory is what it adds to the rewards. *)
LEMMA RewardCounted ==
    ASSUME NEW quests \in [Objectives -> Nat], NEW o \in Objectives, NEW n \in Nat \ {0},
           NEW inv \in [Items -> Nat], NEW i \in Items
    PROVE  PayReward(inv, quests, Advance(quests, o, n), QuestOf[o])[i] =
             inv[i] + (Cardinality(Paid(Advance(quests, o, n), i)) - Cardinality(Paid(quests, i)))
<1> DEFINE after == Advance(quests, o, n)
           q == QuestOf[o]
<1>0. q \in Quests /\ Reward[q] \in [Items -> Nat]
  BY CatalogAssumption
<1>1. /\ IsFiniteSet(Paid(quests, i)) /\ Cardinality(Paid(quests, i)) \in Nat
      /\ IsFiniteSet(Paid(after, i)) /\ Cardinality(Paid(after, i)) \in Nat
  BY PaidFinite, FS_CardinalityType
<1>2. /\ Completed(quests, q) => Completed(after, q)
      /\ \A r \in Quests \ {q} : Completed(after, r) <=> Completed(quests, r)
  BY <1>0, AdvanceCompletes
<1> HIDE DEF after, q
<1>3. CASE ~Completed(quests, q) /\ Completed(after, q)
  <2>1. {r \in Quests : Completed(after, r)} = {r \in Quests : Completed(quests, r)} \cup {q}
    BY <1>0, <1>2, <1>3
  <2>2. Paid(after, i) = Paid(quests, i) \cup Pieces(q, i)
    BY <2>1 DEF Paid
  <2>3. Paid(quests, i) \cap Pieces(q, i) = {}
    BY <1>3 DEF Paid, Pieces
  <2>4. Cardinality(Paid(after, i)) = Cardinality(Paid(quests, i)) + Reward[q][i]
    <3>1. IsFiniteSet(Pieces(q, i)) /\ Cardinality(Pieces(q, i)) = Reward[q][i]
      BY <1>0, PiecesCount
    <3>2. Cardinality(Paid(after, i))
            = Cardinality(Paid(quests, i)) + Cardinality(Pieces(q, i)) - Cardinality({})
      BY <1>1, <2>2, <2>3, <3>1, FS_Union
    <3> QED BY <1>0, <1>1, <3>1, <3>2, FS_EmptySet
  <2>5. PayReward(inv, quests, after, q)[i] = inv[i] + Reward[q][i]
    BY <1>3 DEF PayReward
  <2> QED BY <1>0, <1>1, <2>4, <2>5 DEF after, q
<1>4. CASE Completed(quests, q) \/ ~Completed(after, q)
  <2>1. {r \in Quests : Completed(after, r)} = {r \in Quests : Completed(quests, r)}
    BY <1>2, <1>4
  <2>2. Paid(after, i) = Paid(quests, i)
    BY <2>1 DEF Paid
  <2>3. PayReward(inv, quests, after, q)[i] = inv[i]
    BY <1>4 DEF PayReward
  <2> QED BY <1>1, <2>2, <2>3 DEF after, q
<1> QED BY <1>3, <1>4

(* What a commit adds to the inventory.                                    *)
LEMMA EffectCounted ==
    ASSUME NEW s \in Progress, NEW p \in Payload, Valid(p), NEW i \in Items
    PROVE  Effect(s, p).inv[i] =
             s.inv[i] + (IF p.kind = "pickup" /\ p.item = i THEN 1 ELSE 0)
               + (Cardinality(Paid(Effect(s, p).quests, i)) - Cardinality(Paid(s.quests, i)))
<1>0. /\ s.inv \in [Items -> Nat] /\ s.quests \in [Objectives -> Nat]
      /\ Cardinality(Paid(s.quests, i)) \in Nat
  BY PaidFinite, FS_CardinalityType DEF Progress
<1>1. CASE p \in Pickup
  <2>1. p.kind = "pickup" /\ p.item \in Items
    BY <1>1 DEF Pickup
  <2>2. Effect(s, p) = [s EXCEPT !.inv = [s.inv EXCEPT ![p.item] = s.inv[p.item] + 1]]
    BY <2>1 DEF Effect
  <2>3. /\ Effect(s, p).inv = [s.inv EXCEPT ![p.item] = s.inv[p.item] + 1]
        /\ Effect(s, p).quests = s.quests
    BY <2>2 DEF Progress
  <2> QED BY <1>0, <2>1, <2>3
<1>2. CASE p \in Equip
  <2>1. p.kind = "equip"
    BY <1>2 DEF Equip
  <2>2. Effect(s, p).inv = s.inv /\ Effect(s, p).quests = s.quests
    BY <2>1 DEF Effect, Progress
  <2> QED BY <1>0, <2>1, <2>2
<1>3. CASE p \in QuestStep
  <2>1. p.kind = "quest" /\ p.objective \in Objectives /\ p.amount \in Nat \ {0}
    BY <1>3, CatalogAssumption DEF QuestStep, Valid
  <2> DEFINE after == Advance(s.quests, p.objective, p.amount)
             paid == PayReward(s.inv, s.quests, after, QuestOf[p.objective])
  <2>2. Effect(s, p) = [s EXCEPT !.quests = after, !.inv = paid]
    BY <2>1 DEF Effect
  <2>3. Effect(s, p).inv = paid /\ Effect(s, p).quests = after
    BY <2>2 DEF Progress
  <2>4. paid[i] = s.inv[i] + (Cardinality(Paid(after, i)) - Cardinality(Paid(s.quests, i)))
    BY <1>0, <2>1, RewardCounted
  <2>5. Cardinality(Paid(after, i)) \in Nat /\ s.inv[i] \in Nat
    BY <1>0, PaidFinite, FS_CardinalityType
  <2> HIDE DEF after, paid
  <2> QED BY <1>0, <2>1, <2>3, <2>4, <2>5
<1> QED BY <1>1, <1>2, <1>3 DEF Payload

LEMMA CommitCounted ==
    ASSUME TableInv, InventoryInv, NEW c \in Calls, Commit(c)
    PROVE  InventoryInv'
<1> DEFINE p == sent[c].payload
           row == [op |-> sent[c].op, payload |-> p, rev |-> rev + 1, epoch |-> sent[c].grant.epoch]
<1>1. /\ OpRows(sent[c].op) = {}
      /\ image[c] = [rev |-> rev + 1, progress |-> Effect(progress, p)]
  BY DEF Commit, TableInv, StagedIsCurrent
<1>2. progress' = Effect(progress, p) /\ ops' = ops \cup {row}
  BY <1>1 DEF Commit
<1>3. p \in Payload /\ progress \in Progress /\ Valid(p)
  BY DEF Commit, TableInv, TypeOK, Request
<1>4. row \notin ops /\ row.payload = p
  BY <1>1 DEF OpRows
<1>5. IsFiniteSet(ops) /\ IsFiniteSet(ops')
  BY <1>2, FS_AddElement DEF InventoryInv
<1> HIDE DEF row, p
<1>6. ASSUME NEW i \in Items
      PROVE  progress'.inv[i] = PickedUp(i)' + Rewarded(i)'
  <2> DEFINE before == {x \in ops : x.payload.kind = "pickup" /\ x.payload.item = i}
             hit == p.kind = "pickup" /\ p.item = i
  <2>1. IsFiniteSet(before) /\ Cardinality(before) \in Nat
    BY <1>5, FS_Subset, FS_CardinalityType
  <2>2. PickedUp(i)' = Cardinality(before) + (IF hit THEN 1 ELSE 0)
    <3>1. CASE hit
      <4>1. {x \in ops' : x.payload.kind = "pickup" /\ x.payload.item = i} = before \cup {row}
        BY <1>2, <1>4, <3>1
      <4>2. row \notin before
        BY <1>4
      <4>3. Cardinality(before \cup {row}) = Cardinality(before) + 1
        BY <2>1, <4>2, FS_AddElement
      <4>4. PickedUp(i)' = Cardinality(before \cup {row})
        BY <4>1 DEF PickedUp
      <4> HIDE DEF hit, before
      <4> QED BY <3>1, <4>3, <4>4
    <3>2. CASE ~hit
      <4>1. {x \in ops' : x.payload.kind = "pickup" /\ x.payload.item = i} = before
        BY <1>2, <1>4, <3>2
      <4>2. PickedUp(i)' = Cardinality(before)
        BY <4>1 DEF PickedUp
      <4> HIDE DEF hit, before
      <4> QED BY <2>1, <3>2, <4>2
    <3> QED BY <3>1, <3>2
  <2>3. progress.inv[i] = Cardinality(before) + Cardinality(Paid(progress.quests, i))
    BY DEF InventoryInv, InventoryAccounted, PickedUp, Rewarded
  <2>4. /\ Cardinality(Paid(progress.quests, i)) \in Nat
        /\ Cardinality(Paid(progress'.quests, i)) \in Nat
    BY PaidFinite, FS_CardinalityType
  <2>5. progress'.inv[i] = progress.inv[i] + (IF hit THEN 1 ELSE 0)
          + (Cardinality(Paid(progress'.quests, i)) - Cardinality(Paid(progress.quests, i)))
    BY <1>2, <1>3, EffectCounted
  <2>6. Rewarded(i)' = Cardinality(Paid(progress'.quests, i))
    BY DEF Rewarded
  <2> HIDE DEF before, hit
  <2> QED BY <2>1, <2>2, <2>3, <2>4, <2>5, <2>6
<1> QED BY <1>5, <1>6 DEF InventoryInv, InventoryAccounted

LEMMA InventoryInit == Init => InventoryInv
<1> SUFFICES ASSUME Init PROVE InventoryInv
  OBVIOUS
<1>1. IsFiniteSet(ops) /\ \A i \in Items : PickedUp(i) = 0
  BY FS_EmptySet DEF Init, PickedUp
<1>2. ASSUME NEW i \in Items PROVE Rewarded(i) = 0
  <2>1. \A q \in Quests : ~Completed(progress.quests, q)
    BY DEF Init, NewProgress, Completed
  <2>2. Paid(progress.quests, i) = {}
    BY <2>1 DEF Paid
  <2> QED BY <2>2, FS_EmptySet DEF Rewarded
<1>3. \A i \in Items : progress.inv[i] = 0
  BY DEF Init, NewProgress
<1> QED BY <1>1, <1>2, <1>3 DEF InventoryInv, InventoryAccounted

(* The inventory of a player is what was picked up and one reward for each *)
(* completed quest: nothing is lost, paid twice or given away              *)
(* (postgres.go, CommitPickup and CommitQuest).                            *)
THEOREM InventoryCounted == Spec => []InventoryAccounted
<1>1. TableInv /\ InventoryInv /\ [Next]_vars => InventoryInv'
  <2> SUFFICES ASSUME TableInv, InventoryInv, [Next]_vars PROVE InventoryInv'
    OBVIOUS
  <2>1. ASSUME UNCHANGED <<rev, progress, ops>> PROVE InventoryInv'
    BY <2>1 DEF InventoryInv, InventoryAccounted, PickedUp, Rewarded
  <2> QED BY <2>1, OnlyCommitsWrite, CommitCounted
<1>2. InventoryInv => InventoryAccounted
  BY DEF InventoryInv
<1> QED BY <1>1, <1>2, InventoryInit, TablesSafe, PTL DEF Spec

-----------------------------------------------------------------------------
(* Fencing.                                                                *)

FencingInv == TableInv /\ TokenIsEpoch /\ WritersAreLatest /\ SessionsDoNotInterleave

(* A step that neither grants a lease nor writes: the calls it leaves in   *)
(* flight carry what they carried.                                         *)
LEMMA QuietFencing ==
    ASSUME FencingInv, UNCHANGED <<ops, epoch>>, held' \subseteq held,
           lease'.token = lease.token, lease'.epoch = lease.epoch,
           \A c \in Calls : stage'[c] \in {"sent", "begun", "staged"} =>
               \/ stage[c] \in {"sent", "begun", "staged"} /\ sent'[c] = sent[c]
               \/ sent'[c].grant \in held,
           \A c \in Calls : stage'[c] = "staged" => stage[c] = "staged" /\ sent'[c] = sent[c]
    PROVE  TokenIsEpoch' /\ WritersAreLatest' /\ SessionsDoNotInterleave'
<1>1. TokenIsEpoch'
  BY DEF FencingInv, TokenIsEpoch
<1>2. WritersAreLatest'
  BY DEF FencingInv, WritersAreLatest
<1>3. SessionsDoNotInterleave'
  BY DEF FencingInv, SessionsDoNotInterleave
<1> QED BY <1>1, <1>2, <1>3

LEMMA FencingStep == FencingInv /\ [NextNoRelease]_vars => FencingInv'
<1> SUFFICES ASSUME FencingInv, [NextNoRelease]_vars PROVE FencingInv'
  OBVIOUS
<1> DEFINE Goal == TokenIsEpoch' /\ WritersAreLatest' /\ SessionsDoNotInterleave'
<1>0. TypeOK /\ TableInv'
  BY TableStep DEF FencingInv, TableInv, Next
<1>1. ASSUME NEW c \in Calls, NEW r \in Rooms, BeginAcquire(c, r)
      PROVE  Goal
  BY <1>0, <1>1, QuietFencing DEF BeginAcquire, Start, table, TypeOK
<1>2. ASSUME NEW c \in Calls, NEW g \in held, NEW q \in Requests, NEW n \in Known,
             SendCommit(c, g, q, n)
      PROVE  Goal
  BY <1>0, <1>2, QuietFencing DEF SendCommit, Start, table, TypeOK
<1>3. ASSUME NEW c \in Calls, Acquire(c)
      PROVE  Goal
  <2> DEFINE g == [room |-> sent[c], token |-> NextToken, epoch |-> epoch + 1]
  <2>1. NextToken = epoch + 1
    BY <1>0 DEF FencingInv, TokenIsEpoch, NextToken, TypeOK
  <2>2. /\ epoch' = epoch + 1 /\ ops' = ops
        /\ lease'.token = epoch + 1 /\ lease'.epoch = epoch + 1
        /\ held' \subseteq held \cup {g}
    BY <1>3, <2>1 DEF Acquire
  <2>3. \A d \in Calls : stage'[d] \in {"sent", "begun", "staged"} =>
            stage'[d] = stage[d] /\ sent'[d] = sent[d]
    BY <1>0, <1>3, EndType DEF Acquire
  <2>4. g.token = g.epoch
    BY <2>1
  <2>5. TokenIsEpoch'
    BY <2>2, <2>3, <2>4 DEF FencingInv, TokenIsEpoch
  <2>6. /\ epoch \in Nat
        /\ \A x \in ops : x.epoch \in Nat
        /\ \A d \in Calls : stage[d] = "staged" => sent[d].grant.epoch \in Nat
    BY <1>0 DEF TypeOK, OpRow, Request, Grant
  <2>7. WritersAreLatest'
    BY <2>2, <2>3, <2>6 DEF FencingInv, WritersAreLatest
  <2>8. SessionsDoNotInterleave'
    BY <2>2 DEF FencingInv, SessionsDoNotInterleave
  <2> QED BY <2>5, <2>7, <2>8
<1>4. ASSUME NEW c \in Calls, AcquireRefused(c) \/ Refuse(c) \/ Abort(c) \/ Answer(c)
      PROVE  Goal
  BY <1>0, <1>4, EndType, QuietFencing DEF AcquireRefused, Refuse, Abort, Answer, table
<1>5. ASSUME NEW c \in Calls, Begin(c) \/ Replay(c)
      PROVE  Goal
  BY <1>0, <1>5, QuietFencing DEF Begin, Replay, table, TypeOK
<1>6. ASSUME NEW c \in Calls, Write(c)
      PROVE  Goal
  <2>1. /\ sent[c].grant.token = sent[c].grant.epoch
        /\ lease.token = sent[c].grant.token
        /\ lease.token = epoch
    BY <1>6 DEF Write, Writable, LeaseOf, FencingInv, TokenIsEpoch
  <2>2. sent[c].grant.epoch = epoch
    BY <2>1
  <2>3. /\ UNCHANGED <<ops, epoch, lease, held, sent>>
        /\ stage[c] = "begun" /\ stage'[c] = "staged"
        /\ \A d \in Calls \ {c} : stage'[d] = stage[d]
    BY <1>0, <1>6 DEF Write, table, TypeOK
  <2>4. TokenIsEpoch'
    BY <2>3 DEF FencingInv, TokenIsEpoch
  <2>5. epoch \in Nat
    BY <1>0 DEF TypeOK
  <2>6. WritersAreLatest'
    BY <2>2, <2>3, <2>5 DEF FencingInv, WritersAreLatest
  <2>7. SessionsDoNotInterleave'
    BY <2>3 DEF FencingInv, SessionsDoNotInterleave
  <2> QED BY <2>4, <2>6, <2>7
<1>7. ASSUME NEW c \in Calls, Commit(c)
      PROVE  Goal
  <2> DEFINE row == [op |-> sent[c].op, payload |-> sent[c].payload,
                     rev |-> image[c].rev, epoch |-> sent[c].grant.epoch]
  <2>1. /\ UNCHANGED <<epoch, lease, held, sent>>
        /\ stage[c] = "staged" /\ stage'[c] = "answering"
        /\ \A d \in Calls \ {c} : stage'[d] = stage[d]
        /\ ops' = ops \cup {row}
    BY <1>0, <1>7 DEF Commit, TypeOK
  <2>a. image[c] = [rev |-> rev + 1, progress |-> Effect(progress, sent[c].payload)]
    BY <2>1 DEF FencingInv, TableInv, StagedIsCurrent
  <2>2. /\ \A d \in Calls : stage'[d] # "staged"
        /\ image[c].rev = rev + 1
    BY <2>a, <2>1 DEF FencingInv, TableInv, OneWriter
  <2>3. TokenIsEpoch'
    BY <2>1 DEF FencingInv, TokenIsEpoch
  <2>4. WritersAreLatest'
    BY <2>1, <2>2 DEF FencingInv, WritersAreLatest
  <2>5. /\ row.rev = rev + 1
        /\ \A x \in ops : x.rev \in 1..rev /\ x.epoch <= row.epoch
        /\ row.epoch \in Nat /\ rev \in Nat
    BY <1>0, <2>1, <2>2
       DEF FencingInv, WritersAreLatest, TableInv, DenseRevisions, TypeOK, Request, Grant
  <2>6. SessionsDoNotInterleave'
    <3> HIDE DEF row
    <3> SUFFICES ASSUME NEW x \in ops \cup {row}, NEW y \in ops \cup {row}, x.rev < y.rev
                 PROVE  x.epoch <= y.epoch
      BY <2>1 DEF SessionsDoNotInterleave
    <3>1. CASE x = row
      BY <2>5, <3>1
    <3>2. CASE x \in ops /\ y = row
      BY <2>5, <3>2
    <3>3. CASE x \in ops /\ y \in ops
      BY <3>3 DEF FencingInv, SessionsDoNotInterleave
    <3> QED BY <3>1, <3>2, <3>3
  <2> QED BY <2>3, <2>4, <2>6
<1>8. ASSUME NEW g \in held, Renew(g)
      PROVE  Goal
  BY <1>0, <1>8, QuietFencing DEF Renew, table, calls, TypeOK, LeaseRow
<1>9. ASSUME NEW r \in Rooms, Crash(r)
      PROVE  Goal
  BY <1>0, <1>9, QuietFencing DEF Crash, table, calls
<1>10. ASSUME MigrateProgressSchema \/ NewerServerMigrates
      PROVE  Goal
  BY <1>0, <1>10, QuietFencing DEF MigrateProgressSchema, NewerServerMigrates, Mark, calls
<1>11. ASSUME Tick
      PROVE  Goal
  BY <1>0, <1>11, QuietFencing DEF Tick, table, TypeOK, LeaseRow
<1>12. ASSUME UNCHANGED vars
      PROVE  Goal
  BY <1>0, <1>12, QuietFencing DEF vars, table, calls
<1>13. Goal
  BY <1>1, <1>2, <1>3, <1>4, <1>5, <1>6, <1>7, <1>8, <1>9, <1>10, <1>11, <1>12
     DEF NextNoRelease, Ask, Proceed
<1> QED BY <1>0, <1>13 DEF FencingInv

LEMMA FencingInductive == ExpirySpec => []FencingInv
<1>1. Init => FencingInv
  BY TableInit DEF Init, FencingInv, TokenIsEpoch, WritersAreLatest, SessionsDoNotInterleave, NoLease
<1> QED BY <1>1, FencingStep, PTL DEF ExpirySpec

(* As long as sessions end by expiry, their operations are ordered.        *)
THEOREM Fencing == ExpirySpec => []SessionsDoNotInterleave
<1>1. FencingInv => SessionsDoNotInterleave
  BY DEF FencingInv
<1> QED BY FencingInductive, <1>1, PTL

(* ... and a token of an earlier session is never accepted: the token of   *)
(* the lease row is its epoch, and the tokens of requests are theirs.      *)
THEOREM StaleTokensRejected == ExpirySpec => StaleTokenRejected
<1>1. FencingInv /\ [NextNoRelease]_vars
        => [\A c \in Calls : stage[c] = "begun" /\ stage'[c] = "staged"
                            => sent[c].grant.epoch = lease.epoch]_vars
  <2> SUFFICES ASSUME FencingInv, NextNoRelease, NEW c \in Calls,
                      stage[c] = "begun", stage'[c] = "staged"
               PROVE  sent[c].grant.epoch = lease.epoch
    OBVIOUS
  <2>0. TypeOK
    BY DEF FencingInv, TableInv
  <2>1. Write(c)
    <3>1. ASSUME NEW d \in Calls, Ask(d) PROVE FALSE
      BY <2>0, <3>1 DEF Ask, BeginAcquire, SendCommit, Start, TypeOK
    <3>2. ASSUME NEW d \in Calls, Proceed(d) PROVE Write(c)
      BY <2>0, <3>2, EndType DEF Proceed, Acquire, AcquireRefused, Begin, Replay, Refuse, Write,
                                 Commit, Answer, Abort, TypeOK
    <3> QED BY <3>1, <3>2 DEF NextNoRelease, Renew, Crash, MigrateProgressSchema,
                              NewerServerMigrates, Mark, Tick, calls
  <2> QED BY <2>1 DEF Write, Writable, LeaseOf, FencingInv, TokenIsEpoch
<1> QED BY FencingInductive, <1>1, PTL DEF ExpirySpec, StaleTokenRejected

-----------------------------------------------------------------------------
(* The tables implement the ledger.                                        *)

History == [n \in 1..rev |-> Entry(n)]

(* Revisions name rows, so the history lists the operation table.          *)
LEMMA EntryOfRow ==
    ASSUME DenseRevisions, NEW x \in ops
    PROVE  Entry(x.rev) = [op |-> x.op, payload |-> x.payload]
  BY DEF DenseRevisions, Entry

LEMMA EntryHasRow ==
    ASSUME DenseRevisions, NEW n \in 1..rev
    PROVE  \E x \in ops : x.rev = n /\ Entry(n) = [op |-> x.op, payload |-> x.payload]
<1>1. PICK x \in ops : x.rev = n
  BY DEF DenseRevisions
<1> QED BY <1>1, EntryOfRow

(* The ledger module brings its own copy of the rules.                     *)
LEMMA SameRules ==
    ASSUME NEW s, NEW p
    PROVE  /\ Ledger!Valid(p) = Valid(p)
           /\ Ledger!Owned(s, p) = Owned(s, p)
           /\ Ledger!Effect(s, p) = Effect(s, p)
<1>1. Ledger!Valid(p) = Valid(p) /\ Ledger!Owned(s, p) = Owned(s, p)
  BY DEF Ledger!Valid, Valid, Ledger!Owned, Owned
<1>2. \A quests, q : Ledger!Completed(quests, q) = Completed(quests, q)
  BY DEF Ledger!Completed, Completed
<1>3. \A inv, a, b, q : Ledger!PayReward(inv, a, b, q) = PayReward(inv, a, b, q)
  BY <1>2 DEF Ledger!PayReward, PayReward
<1>4. \A quests, o, n : Ledger!Advance(quests, o, n) = Advance(quests, o, n)
  BY DEF Ledger!Advance, Advance
<1>5. Ledger!Effect(s, p) = Effect(s, p)
  BY <1>3, <1>4 DEF Ledger!Effect, Effect
<1> QED BY <1>1, <1>5

LEMMA CommitAppends ==
    ASSUME TableInv, TableInv', NEW c \in Calls, Commit(c)
    PROVE  History' = Append(History, Asked(c)) /\ Ledger!Apply(Asked(c))
<1>0. TypeOK /\ DenseRevisions /\ DenseRevisions'
  BY DEF TableInv
<1> DEFINE row == [op |-> sent[c].op, payload |-> sent[c].payload,
                   rev |-> image[c].rev, epoch |-> sent[c].grant.epoch]
<1>1. /\ stage[c] = "staged"
      /\ OpRows(sent[c].op) = {}
      /\ Owned(progress, sent[c].payload)
      /\ image[c] = [rev |-> rev + 1, progress |-> Effect(progress, sent[c].payload)]
  BY DEF Commit, TableInv, StagedIsCurrent
<1>2. /\ image[c].rev = rev + 1
      /\ image[c].progress = Effect(progress, sent[c].payload)
  BY <1>1
<1>3. /\ rev' = rev + 1 /\ ops' = ops \cup {row} /\ acked' = acked
      /\ progress' = Effect(progress, sent[c].payload)
  BY <1>2 DEF Commit
<1>4. row \in ops' /\ row.rev = rev + 1 /\ Asked(c) = [op |-> row.op, payload |-> row.payload]
  BY <1>2, <1>3 DEF Asked
<1>5. ASSUME NEW n, n = rev + 1 PROVE Entry(n)' = Asked(c)
  <2> HIDE DEF row
  <2>1. \A x \in ops' : x.rev = n => x = row
    BY <1>0, <1>4, <1>5 DEF DenseRevisions
  <2> QED BY <1>4, <1>5, <2>1 DEF Entry
<1>6. ASSUME NEW n \in 1..rev PROVE Entry(n)' = Entry(n)
  <2>1. PICK x \in ops : x.rev = n
    BY <1>0 DEF DenseRevisions
  <2>2. x \in ops' /\ x.rev \in 1..rev'
    BY <1>0, <1>3, <2>1 DEF TypeOK
  <2>3. Entry(n) = [op |-> x.op, payload |-> x.payload]
    BY <1>0, <2>1, EntryOfRow
  <2>4. \A y \in ops' : y.rev = n => y = x
    BY <1>0, <2>1, <2>2 DEF DenseRevisions
  <2>5. Entry(n)' = [op |-> x.op, payload |-> x.payload]
    BY <2>1, <2>2, <2>4 DEF Entry
  <2> QED BY <2>3, <2>5
<1> DEFINE S == {Entry(n) : n \in 1..rev} \cup {Asked(c)}
<1>7. rev \in Nat /\ History \in Seq(S) /\ Len(History) = rev
  <2>1. rev \in Nat
    BY <1>0 DEF TypeOK
  <2> QED BY <2>1 DEF History
<1>8. History' = Append(History, Asked(c))
  <2>1. History' = [n \in 1..(rev + 1) |-> Entry(n)']
    BY <1>3 DEF History
  <2>2. ASSUME NEW n \in 1..(rev + 1)
        PROVE  Entry(n)' = IF n = rev + 1 THEN Asked(c) ELSE History[n]
    BY <1>5, <1>6, <1>7 DEF History
  <2> DEFINE longer == Append(History, Asked(c))
  <2>3. /\ longer \in Seq(S)
        /\ Len(longer) = rev + 1
        /\ \A n \in 1..rev : longer[n] = History[n]
        /\ longer[rev + 1] = Asked(c)
    <3> HIDE DEF S
    <3>1. Asked(c) \in S
      BY DEF S
    <3> QED BY <1>7, <3>1, AppendProperties
  <2>4. longer = [n \in 1..(rev + 1) |-> longer[n]]
    <3> HIDE DEF S, longer
    <3> QED BY <2>3
  <2> HIDE DEF S, longer
  <2>5. \A n \in 1..(rev + 1) : Entry(n)' = longer[n]
    BY <1>7, <2>2, <2>3
  <2> QED BY <2>1, <2>4, <2>5 DEF longer
<1>9. \A e \in Ledger!Entries : e.op # sent[c].op
  <2>1. Ledger!Entries = {Entry(n) : n \in 1..rev}
    BY DEF Ledger!Entries, History
  <2> QED BY <1>0, <1>1, <2>1, EntryHasRow DEF OpRows
<1>10. Valid(Asked(c).payload) /\ Owned(progress, Asked(c).payload)
  BY <1>0, <1>1 DEF TypeOK, Asked
<1>11. Ledger!Apply(Asked(c))
  <2>1. Asked(c).op = sent[c].op /\ Asked(c).payload = sent[c].payload
    BY DEF Asked
  <2> HIDE DEF row, S
  <2> QED BY <1>3, <1>8, <1>9, <1>10, <2>1, SameRules DEF Ledger!Apply, History
<1> QED BY <1>8, <1>11

LEMMA LedgerStep == TableInv /\ TableInv' /\ [Next]_vars => [Ledger!Next]_(Ledger!vars)
<1> SUFFICES ASSUME TableInv, TableInv', [Next]_vars PROVE [Ledger!Next]_(Ledger!vars)
  OBVIOUS
<1>0. TypeOK /\ DenseRevisions
  BY DEF TableInv
<1>1. ASSUME UNCHANGED <<rev, progress, ops, acked>>
      PROVE  UNCHANGED Ledger!vars
  BY <1>1 DEF Ledger!vars, Entry
<1>2. ASSUME NEW c \in Calls, Commit(c)
      PROVE  Ledger!Next
  <2>1. stage[c] = "staged"
    BY <1>2 DEF Commit
  <2>2. Asked(c) \in Requests
    BY <1>0, <2>1 DEF TypeOK
  <2> QED BY <1>2, <2>2, CommitAppends DEF Ledger!Next
<1>3. ASSUME NEW c \in Calls, Answer(c)
      PROVE  Ledger!Next
  <2>1. /\ stage[c] = "answering"
        /\ acked' = acked \cup {Asked(c)}
        /\ UNCHANGED <<rev, progress, ops>>
    BY <1>3 DEF Answer, table
  <2>2. PICK x \in ops : x.op = Asked(c).op /\ x.payload = Asked(c).payload
    BY <2>1 DEF TableInv, AnsweringIsApplied, Applied
  <2>3. x.rev \in 1..rev /\ Entry(x.rev) = Asked(c)
    BY <1>0, <2>2, EntryOfRow DEF DenseRevisions, Asked
  <2>4. Asked(c) \in Ledger!Entries
    BY <2>3 DEF Ledger!Entries
  <2>5. Ledger!Tell(Asked(c))
    BY <2>1, <2>4 DEF Ledger!Tell, Entry
  <2>6. Asked(c) \in Requests
    BY <1>0, <2>1 DEF TypeOK
  <2> QED BY <2>5, <2>6 DEF Ledger!Next
<1>4. ASSUME NEW c \in Calls, Ask(c)
      PROVE  UNCHANGED <<rev, progress, ops, acked>>
  BY <1>4 DEF Ask, BeginAcquire, SendCommit, table
<1>5. ASSUME NEW c \in Calls, Proceed(c), ~Commit(c), ~Answer(c)
      PROVE  UNCHANGED <<rev, progress, ops, acked>>
  BY <1>5 DEF Proceed, Acquire, AcquireRefused, Begin, Replay, Refuse, Write, Abort, table
<1>6. ASSUME NEW g \in held, Renew(g) \/ Release(g)
      PROVE  UNCHANGED <<rev, progress, ops, acked>>
  BY <1>6 DEF Renew, Release, table
<1>7. ASSUME Tick \/ MigrateProgressSchema \/ NewerServerMigrates \/ (\E r \in Rooms : Crash(r))
      PROVE  UNCHANGED <<rev, progress, ops, acked>>
  BY <1>7 DEF Tick, MigrateProgressSchema, NewerServerMigrates, Mark, Crash, table
<1>8. ASSUME UNCHANGED vars
      PROVE  UNCHANGED <<rev, progress, ops, acked>>
  BY <1>8 DEF vars, table
<1> QED BY <1>1, <1>2, <1>3, <1>4, <1>5, <1>6, <1>7, <1>8 DEF Next, NextNoRelease

(* Every commit is an append to the log, every answer a statement about    *)
(* the log, and every other step a stutter.                                *)
THEOREM StoreImplementsLedger == Spec => ImplementsLedger
<1>1. Init => Ledger!Init
  <2> SUFFICES ASSUME Init PROVE Ledger!Init
    OBVIOUS
  <2>1. [n \in 1..rev |-> Entry(n)] = <<>>
    BY DEF Init
  <2>2. Ledger!NewProgress = NewProgress
    BY DEF Ledger!NewProgress, NewProgress
  <2> QED BY <2>1, <2>2 DEF Init, Ledger!Init
<1> QED BY <1>1, LedgerStep, TablesSafe, PTL DEF Spec, ImplementsLedger, Ledger!Spec
=============================================================================
