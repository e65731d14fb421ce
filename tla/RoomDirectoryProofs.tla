------------------------ MODULE RoomDirectoryProofs ------------------------
(* Proofs about RoomDirectory, for every number of rooms, players and calls. *)
(*                                                                           *)
(* DirectoryInv is inductive.  A step of a call that is not a commit changes *)
(* that call alone: CallStep says what it has to establish.  The commits     *)
(* change the tables, under locks that no other call shares.                 *)
EXTENDS RoomDirectory, FiniteSetTheorems, TLAPS

(* What the invariant says of the locks of one call and of two.              *)
LockDefs(c, d) ==
    /\ \A r \in Rooms : ~(LocksRoom(c, r) /\ LocksRoom(d, r))
    /\ ~(LocksSeat(c) /\ LocksSeat(d) /\ left[c] = left[d] /\ who[c] = who[d])

(* The calls other than c are what they were.                                *)
OthersUnchanged(c) ==
    \A d \in Calls \ {c} :
        /\ stage'[d] = stage[d] /\ op'[d] = op[d] /\ who'[d] = who[d]
        /\ at'[d] = at[d] /\ left'[d] = left[d] /\ age'[d] = age[d]

(* A room that has been silent less than the limit is so by any later time.  *)
LEMMA FreshRoom ==
    ASSUME TypeOK, NEW r \in Rooms, silence[r] < FreshFor, NEW n \in Nat
    PROVE  silence[r] < FreshFor + n
<1>1. silence[r] \in 0..MaxSilence
    BY DEF TypeOK
<1>2. MaxSilence \in Nat /\ FreshFor \in Nat
    BY DirectoryAssumption DEF MaxSilence
<1> QED
    BY <1>1, <1>2

(* The empty tables satisfy the invariant.                                   *)
LEMMA InitInv == Init => DirectoryInv
<1> SUFFICES ASSUME Init PROVE DirectoryInv
    OBVIOUS
<1> USE DirectoryAssumption
<1>1. TypeOK
    BY SMT DEF Init, TypeOK, Stages, MaxSilence, NoRoom
<1>2. \A c \in Calls : ~LocksPick(c) /\ ~LocksSeat(c) /\ ~LocksLeft(c)
    BY DEF Init, LocksPick, LocksSeat, LocksLeft
<1>3. SeatsCounted
    <2>1. \A r \in Rooms : SeatsIn(r) = {}
        BY DEF Init, SeatsIn
    <2> QED
        BY <2>1, FS_EmptySet DEF Init, SeatsCounted
<1>4. CallsWellFormed /\ OneSeat /\ ReservedAlone
    BY DEF Init, CallsWellFormed, OneSeat, ReservedAlone
<1>5. LocksExclude /\ LockedSeatsAreActive /\ PickedRoomsHavePlace
    BY <1>2 DEF LocksExclude, LocksRoom, LockedSeatsAreActive, PickedRoomsHavePlace
<1> QED
    BY <1>1, <1>3, <1>4, <1>5 DEF DirectoryInv

(* A step of call c that leaves the tables alone keeps the invariant when c  *)
(* is well formed afterwards and every lock it then has was its own or free. *)
LEMMA CallStep ==
    ASSUME DirectoryInv, TypeOK', NEW c \in Calls, OthersUnchanged(c),
           UNCHANGED <<generation, status, silence, used, active>>,
           stage'[c] # "idle" => who'[c] \in Players /\ at'[c] \in Rooms,
           stage'[c] = "taken" => left'[c] \in Rooms,
           stage'[c] \in {"picked", "read", "reserved", "ticket"} => op'[c] = "allocate",
           stage'[c] = "asked" => op'[c] = "release",
           stage'[c] \in {"idle", "picked", "asked", "ticket"} => left'[c] = NoRoom,
           op'[c] = "release" /\ stage'[c] \in {"taken", "vacated"} => left'[c] = at'[c],
           LocksPick(c)' => \/ LocksPick(c) /\ at'[c] = at[c] /\ age'[c] = age[c]
                            \/ Unlocked(at'[c]) /\ Suitable(at'[c]),
           LocksLeft(c)' => \/ LocksLeft(c) /\ left'[c] = left[c]
                            \/ RoomFree(c, left'[c]),
           LocksSeat(c)' => \/ LocksSeat(c) /\ left'[c] = left[c] /\ who'[c] = who[c]
                            \/ SeatFree(c, left'[c], who'[c]) /\ <<left'[c], who'[c]>> \in active,
           stage'[c] = "reserved" => \/ stage[c] = "reserved" /\ who'[c] = who[c] /\ left'[c] = left[c]
                                     \/ IndexAdmits(c) /\ who'[c] = who[c] /\ left'[c] = left[c]
    PROVE  DirectoryInv'
<1> USE DirectoryAssumption
<1>0. \A d \in Calls \ {c} : /\ LocksPick(d)' = LocksPick(d) /\ LocksSeat(d)' = LocksSeat(d)
                             /\ LocksLeft(d)' = LocksLeft(d)
    BY DEF OthersUnchanged, LocksPick, LocksSeat, LocksLeft
<1>1. CallsWellFormed'
    BY DEF OthersUnchanged, DirectoryInv, CallsWellFormed, NoRoom
<1>2. SeatsCounted' /\ OneSeat'
    <2>1. \A r \in Rooms : SeatsIn(r)' = SeatsIn(r)
        BY DEF SeatsIn
    <2>2. SeatsCounted'
        BY <2>1 DEF DirectoryInv, SeatsCounted
    <2>3. OneSeat'
        BY DEF DirectoryInv, OneSeat
    <2> QED
        BY <2>2, <2>3
<1>3. \A d \in Calls \ {c}, r \in Rooms : ~(LocksRoom(c, r)' /\ LocksRoom(d, r)')
    BY <1>0 DEF OthersUnchanged, DirectoryInv, LocksExclude, LocksRoom, Unlocked, RoomFree
<1>4. \A d \in Calls \ {c} : LocksSeat(c)' /\ LocksSeat(d)' => ~(left'[c] = left'[d] /\ who'[c] = who'[d])
    BY <1>0 DEF OthersUnchanged, DirectoryInv, LocksExclude, SeatFree
<1>5. LocksExclude'
    <2> SUFFICES ASSUME NEW d \in Calls, NEW e \in Calls, d # e
                 PROVE  /\ \A r \in Rooms : ~(LocksRoom(d, r)' /\ LocksRoom(e, r)')
                        /\ ~(LocksSeat(d)' /\ LocksSeat(e)' /\ left'[d] = left'[e] /\ who'[d] = who'[e])
        BY DEF LocksExclude
    <2>1. CASE d = c
        BY <2>1, <1>3, <1>4
    <2>2. CASE e = c
        BY <2>2, <1>3, <1>4
    <2>3. CASE d # c /\ e # c
        BY <2>3, <1>0 DEF OthersUnchanged, DirectoryInv, LocksExclude, LocksRoom
    <2> QED
        BY <2>1, <2>2, <2>3
<1>6. LockedSeatsAreActive'
    BY <1>0 DEF OthersUnchanged, DirectoryInv, LockedSeatsAreActive
<1>7. PickedRoomsHavePlace'
    <2> SUFFICES ASSUME NEW d \in Calls, LocksPick(d)'
                 PROVE  /\ status'[at'[d]] = "ready" /\ generation'[at'[d]] # 0
                        /\ used'[at'[d]] < Capacity[at'[d]]
                        /\ silence'[at'[d]] < FreshFor + age'[d]
        BY DEF PickedRoomsHavePlace
    <2>1. CASE d # c
        BY <2>1, <1>0 DEF OthersUnchanged, DirectoryInv, PickedRoomsHavePlace
    <2>2. CASE d = c /\ LocksPick(c) /\ at'[c] = at[c] /\ age'[c] = age[c]
        BY <2>2 DEF DirectoryInv, PickedRoomsHavePlace
    <2>3. CASE d = c /\ Suitable(at'[c])
        <3>1. age'[c] \in Nat /\ at'[c] \in Rooms
            BY <2>3 DEF TypeOK, LocksPick
        <3>2. silence[at'[c]] < FreshFor + age'[c]
            BY <2>3, <3>1, FreshRoom DEF Suitable, DirectoryInv
        <3> QED
            BY <2>3, <3>1, <3>2 DEF Suitable
    <2> QED
        BY <2>1, <2>2, <2>3
<1>8. ReservedAlone'
    <2> SUFFICES ASSUME NEW d \in Calls, stage'[d] = "reserved" PROVE IndexAdmits(d)'
        BY DEF ReservedAlone
    <2>1. CASE d = c
        BY <2>1 DEF OthersUnchanged, DirectoryInv, ReservedAlone, IndexAdmits
    <2>2. CASE d # c
        BY <2>2 DEF OthersUnchanged, DirectoryInv, ReservedAlone, IndexAdmits
    <2> QED
        BY <2>1, <2>2
<1> QED
    BY <1>1, <1>2, <1>5, <1>6, <1>7, <1>8 DEF DirectoryInv
-----------------------------------------------------------------------------
(* A call that ends without a commit: an error, a deadline, a release that   *)
(* found nothing, a ticket handed out.                                       *)
LEMMA FinishStep ==
    ASSUME DirectoryInv, NEW c \in Calls, Finish(c), UNCHANGED <<roomVars, used, active>>
    PROVE  DirectoryInv'
<1> USE DEF roomVars
<1>1. TypeOK'
    BY DirectoryAssumption DEF DirectoryInv, TypeOK, Finish, SetStage, Stages, NoRoom
<1>2. OthersUnchanged(c)
    BY DEF DirectoryInv, TypeOK, OthersUnchanged, Finish, SetStage
<1>3. stage'[c] = "idle" /\ op'[c] = "allocate" /\ left'[c] = NoRoom
    BY DEF DirectoryInv, TypeOK, Finish, SetStage
<1>4. ~LocksPick(c)' /\ ~LocksSeat(c)' /\ ~LocksLeft(c)'
    BY <1>3 DEF LocksPick, LocksSeat, LocksLeft
<1> QED
    BY <1>1, <1>2, <1>3, <1>4, CallStep

LEMMA PickStep ==
    ASSUME DirectoryInv, NEW c \in Calls, NEW p \in Players, NEW r \in Rooms, PickRoom(c, p, r)
    PROVE  DirectoryInv'
<1> USE DEF roomVars
<1>1. TypeOK'
    BY DEF DirectoryInv, TypeOK, PickRoom, SetStage, Stages
<1>2. OthersUnchanged(c)
    BY DEF DirectoryInv, TypeOK, OthersUnchanged, PickRoom, SetStage
<1>3. /\ stage'[c] = "picked" /\ op'[c] = "allocate" /\ who'[c] = p /\ at'[c] = r
      /\ Unlocked(r) /\ Suitable(r)
    BY DEF DirectoryInv, TypeOK, PickRoom, SetStage, FirstSuitable
<1>4. ~LocksSeat(c)' /\ ~LocksLeft(c)'
    BY <1>3 DEF LocksSeat, LocksLeft
<1>5. left'[c] = NoRoom
    BY DEF PickRoom, DirectoryInv, CallsWellFormed
<1> QED
    BY <1>1, <1>2, <1>3, <1>4, <1>5, CallStep DEF PickRoom

LEMMA ReadStep ==
    ASSUME DirectoryInv, NEW c \in Calls, ReadSeat(c)
    PROVE  DirectoryInv'
<1> USE DEF roomVars
<1>1. TypeOK'
    BY DEF DirectoryInv, TypeOK, ReadSeat, SetStage, Stages
<1>2. OthersUnchanged(c)
    BY DEF DirectoryInv, TypeOK, OthersUnchanged, ReadSeat, SetStage
<1>3. stage[c] = "picked" /\ stage'[c] = "read"
    BY DEF DirectoryInv, TypeOK, ReadSeat, SetStage
<1>4. ~LocksSeat(c)' /\ ~LocksLeft(c)'
    BY <1>3 DEF LocksSeat, LocksLeft
<1>5. who'[c] \in Players /\ at'[c] \in Rooms /\ op'[c] = "allocate"
    BY <1>3 DEF DirectoryInv, CallsWellFormed, ReadSeat
<1>6. LocksPick(c)' => LocksPick(c) /\ at'[c] = at[c] /\ age'[c] = age[c]
    BY <1>3 DEF LocksPick, ReadSeat
<1> QED
    BY <1>1, <1>2, <1>3, <1>4, <1>5, <1>6, CallStep DEF ReadSeat

LEMMA TakeStep ==
    ASSUME DirectoryInv, NEW c \in Calls, TakeSeat(c)
    PROVE  DirectoryInv'
<1> USE DEF roomVars
<1>1. TypeOK'
    BY DEF DirectoryInv, TypeOK, TakeSeat, SetStage, Stages
<1>2. OthersUnchanged(c)
    BY DEF DirectoryInv, TypeOK, OthersUnchanged, TakeSeat, SetStage
<1>3. who'[c] \in Players /\ at'[c] \in Rooms /\ op'[c] = "allocate" /\ stage[c] = "read"
    BY DEF DirectoryInv, CallsWellFormed, TakeSeat
<1>4. LocksPick(c)' => LocksPick(c) /\ at'[c] = at[c] /\ age'[c] = age[c]
    BY <1>3 DEF LocksPick, TakeSeat
<1>5. CASE StillActive(left[c], who[c])
    <2>1. stage'[c] = "taken" /\ left' = left /\ who' = who
        BY <1>5 DEF DirectoryInv, TypeOK, TakeSeat, SetStage
    <2>2. left'[c] \in Rooms /\ <<left'[c], who'[c]>> \in active
        BY <1>5, <2>1 DEF DirectoryInv, TypeOK, StillActive
    <2>3. ~LocksLeft(c)'
        BY <2>1 DEF LocksLeft
    <2>4. SeatFree(c, left'[c], who'[c])
        BY <2>1 DEF TakeSeat
    <2> QED
        BY <1>1, <1>2, <1>3, <1>4, <2>1, <2>2, <2>3, <2>4, CallStep DEF TakeSeat
<1>6. CASE ~StillActive(left[c], who[c])
    <2>1. stage'[c] = "vacated" /\ left'[c] = NoRoom
        BY <1>6 DEF DirectoryInv, TypeOK, TakeSeat, SetStage
    <2>2. ~LocksLeft(c)' /\ ~LocksSeat(c)'
        BY <2>1 DEF LocksLeft, LocksSeat
    <2> QED
        BY <1>1, <1>2, <1>3, <1>4, <2>1, <2>2, CallStep DEF TakeSeat
<1> QED
    BY <1>5, <1>6

LEMMA VacateStep ==
    ASSUME DirectoryInv, NEW c \in Calls, Vacate(c)
    PROVE  DirectoryInv'
<1> USE DEF roomVars
<1>1. TypeOK'
    BY DEF DirectoryInv, TypeOK, Vacate, SetStage, Stages
<1>2. OthersUnchanged(c)
    BY DEF DirectoryInv, TypeOK, OthersUnchanged, Vacate, SetStage
<1>3. stage[c] = "taken" /\ stage'[c] = "vacated" /\ op' = op /\ left' = left /\ who' = who /\ at' = at
    BY DEF DirectoryInv, TypeOK, Vacate, SetStage
<1>4. /\ who'[c] \in Players /\ at'[c] \in Rooms
      /\ op'[c] = "release" => left'[c] = at'[c]
    BY <1>3 DEF DirectoryInv, CallsWellFormed
<1>5. LocksPick(c)' => LocksPick(c) /\ at'[c] = at[c] /\ age'[c] = age[c]
    BY <1>3 DEF LocksPick, Vacate
<1>6. LocksSeat(c)' => LocksSeat(c)
    BY <1>3 DEF LocksSeat
<1>7. RoomFree(c, left'[c])
    BY <1>3 DEF Vacate
<1> QED
    BY <1>1, <1>2, <1>3, <1>4, <1>5, <1>6, <1>7, CallStep DEF Vacate

LEMMA ReserveStep ==
    ASSUME DirectoryInv, NEW c \in Calls, Reserve(c)
    PROVE  DirectoryInv'
<1> USE DEF roomVars
<1>1. TypeOK'
    BY DEF DirectoryInv, TypeOK, Reserve, SetStage, Stages
<1>2. OthersUnchanged(c)
    BY DEF DirectoryInv, TypeOK, OthersUnchanged, Reserve, SetStage
<1>3. /\ stage[c] = "vacated" /\ stage'[c] = "reserved" /\ op[c] = "allocate"
      /\ op' = op /\ left' = left /\ who' = who /\ at' = at
    BY DEF DirectoryInv, TypeOK, Reserve, SetStage
<1>4. who'[c] \in Players /\ at'[c] \in Rooms
    BY <1>3 DEF DirectoryInv, CallsWellFormed
<1>5. LocksPick(c)' => LocksPick(c) /\ at'[c] = at[c] /\ age'[c] = age[c]
    BY <1>3 DEF LocksPick, Reserve
<1>6. (LocksSeat(c)' => LocksSeat(c)) /\ (LocksLeft(c)' => LocksLeft(c))
    BY <1>3 DEF LocksSeat, LocksLeft
<1> QED
    BY <1>1, <1>2, <1>3, <1>4, <1>5, <1>6, CallStep DEF Reserve

LEMMA AskStep ==
    ASSUME DirectoryInv, NEW c \in Calls,
           \/ \E r \in Rooms, p \in Players : BeginRelease(c, r, p)
           \/ UndoAllocation(c)
    PROVE  DirectoryInv'
<1> USE DEF roomVars
<1>1. TypeOK'
    BY DEF DirectoryInv, TypeOK, BeginRelease, UndoAllocation, SetStage, Stages
<1>2. OthersUnchanged(c)
    BY DEF DirectoryInv, TypeOK, OthersUnchanged, BeginRelease, UndoAllocation, SetStage
<1>3. stage'[c] = "asked" /\ op'[c] = "release" /\ who'[c] \in Players /\ at'[c] \in Rooms
    BY DEF DirectoryInv, TypeOK, CallsWellFormed, BeginRelease, UndoAllocation, SetStage
<1>4. left'[c] = NoRoom
    BY DEF DirectoryInv, CallsWellFormed, BeginRelease, UndoAllocation
<1>5. ~LocksPick(c)' /\ ~LocksSeat(c)' /\ ~LocksLeft(c)'
    BY <1>3 DEF LocksPick, LocksSeat, LocksLeft
<1> QED
    BY <1>1, <1>2, <1>3, <1>4, <1>5, CallStep DEF BeginRelease, UndoAllocation

LEMMA ReleaseStep ==
    ASSUME DirectoryInv, NEW c \in Calls, ReleaseSeat(c)
    PROVE  DirectoryInv'
<1> USE DEF roomVars
<1>1. CASE ~StillActive(at[c], who[c])
    BY <1>1, FinishStep DEF ReleaseSeat
<1>2. CASE StillActive(at[c], who[c])
    <2>1. TypeOK'
        BY <1>2 DEF DirectoryInv, TypeOK, ReleaseSeat, SetStage, Stages
    <2>2. OthersUnchanged(c)
        BY <1>2 DEF DirectoryInv, TypeOK, OthersUnchanged, ReleaseSeat, SetStage
    <2>3. /\ stage[c] = "asked" /\ stage'[c] = "taken" /\ left'[c] = at[c]
          /\ op' = op /\ who' = who /\ at' = at
        BY <1>2 DEF DirectoryInv, TypeOK, ReleaseSeat, SetStage
    <2>4. who[c] \in Players /\ at[c] \in Rooms /\ op[c] = "release"
        BY <2>3 DEF DirectoryInv, CallsWellFormed
    <2>5. ~LocksPick(c)' /\ ~LocksLeft(c)'
        BY <2>3, <2>4 DEF LocksPick, LocksLeft
    <2>6. SeatFree(c, left'[c], who'[c]) /\ <<left'[c], who'[c]>> \in active
        BY <1>2, <2>3 DEF ReleaseSeat, StillActive
    <2> QED
        BY <2>1, <2>2, <2>3, <2>4, <2>5, <2>6, CallStep DEF ReleaseSeat
<1> QED
    BY <1>1, <1>2
-----------------------------------------------------------------------------
(* A registration or a heartbeat changes a room whose row nobody has locked. *)
LEMMA RoomStepKeeps ==
    ASSUME DirectoryInv, NEW r \in Rooms, RoomStep(r)
    PROVE  DirectoryInv'
<1> USE DEF callVars
<1>1. PICK g \in 1..MaxGeneration, w \in 0..CtxTimeout :
          \/ RegisterRoom(r, g, w)
          \/ \E s \in {"ready", "draining"} : HeartbeatRoom(r, g, s, w)
    BY DEF RoomStep
<1>2. w \in 0..MaxSilence
    BY DirectoryAssumption DEF MaxSilence
<1>3. TypeOK'
    BY <1>1, <1>2 DEF DirectoryInv, TypeOK, RegisterRoom, HeartbeatRoom
<1>4. UNCHANGED <<used, active, callVars>> /\ Unlocked(r)
    BY <1>1 DEF RegisterRoom, HeartbeatRoom
<1>5. \A s \in Rooms \ {r} : /\ status'[s] = status[s] /\ generation'[s] = generation[s]
                             /\ silence'[s] = silence[s]
    BY <1>1 DEF DirectoryInv, TypeOK, RegisterRoom, HeartbeatRoom
<1>6. \A c \in Calls : /\ LocksPick(c)' = LocksPick(c) /\ LocksSeat(c)' = LocksSeat(c)
                       /\ LocksLeft(c)' = LocksLeft(c)
    BY <1>4 DEF LocksPick, LocksSeat, LocksLeft
<1>7. PickedRoomsHavePlace'
    <2> SUFFICES ASSUME NEW c \in Calls, LocksPick(c)
                 PROVE  /\ status'[at'[c]] = "ready" /\ generation'[at'[c]] # 0
                        /\ used'[at'[c]] < Capacity[at'[c]]
                        /\ silence'[at'[c]] < FreshFor + age'[c]
        BY <1>6 DEF PickedRoomsHavePlace
    <2>1. at[c] \in Rooms \ {r}
        BY <1>4 DEF DirectoryInv, CallsWellFormed, LocksPick, Unlocked, LocksRoom
    <2> QED
        BY <2>1, <1>4, <1>5 DEF DirectoryInv, PickedRoomsHavePlace
<1>8. \A s \in Rooms : SeatsIn(s)' = SeatsIn(s)
    BY <1>4 DEF SeatsIn
<1>9. SeatsCounted' /\ OneSeat' /\ CallsWellFormed'
    BY <1>4, <1>8 DEF DirectoryInv, SeatsCounted, OneSeat, CallsWellFormed
<1>10. LocksExclude' /\ LockedSeatsAreActive'
    BY <1>4, <1>6 DEF DirectoryInv, LocksExclude, LocksRoom, LockedSeatsAreActive
<1>11. ReservedAlone'
    BY <1>4 DEF DirectoryInv, ReservedAlone, IndexAdmits
<1> QED
    BY <1>3, <1>7, <1>9, <1>10, <1>11 DEF DirectoryInv

(* Rooms fall silent no faster than the calls that locked them grow old.     *)
LEMMA TickStep == ASSUME DirectoryInv, Tick PROVE DirectoryInv'
<1>1. UNCHANGED <<generation, status, used, active, stage, op, who, at, left>>
    BY DEF Tick
<1>2. \A c \in Calls : age'[c] \in 0..CtxTimeout /\ (stage[c] # "idle" => age'[c] = age[c] + 1)
    <2> SUFFICES ASSUME NEW c \in Calls
                 PROVE  age'[c] \in 0..CtxTimeout /\ (stage[c] # "idle" => age'[c] = age[c] + 1)
        OBVIOUS
    <2>1. age[c] \in 0..CtxTimeout /\ CtxTimeout \in Nat
        BY DirectoryAssumption DEF DirectoryInv, TypeOK
    <2>2. age'[c] = IF stage[c] = "idle" THEN 0 ELSE age[c] + 1
        BY DEF Tick
    <2>3. stage[c] # "idle" => age[c] < CtxTimeout
        BY DEF Tick
    <2> QED
        BY <2>1, <2>2, <2>3
<1>3. \A r \in Rooms : silence'[r] \in 0..MaxSilence /\ silence'[r] <= silence[r] + 1
    <2> SUFFICES ASSUME NEW r \in Rooms
                 PROVE  silence'[r] \in 0..MaxSilence /\ silence'[r] <= silence[r] + 1
        OBVIOUS
    <2>1. silence[r] \in 0..MaxSilence /\ MaxSilence \in Nat
        BY DirectoryAssumption DEF DirectoryInv, TypeOK, MaxSilence
    <2>2. silence'[r] = IF generation[r] = 0 \/ silence[r] = MaxSilence
                        THEN silence[r] ELSE silence[r] + 1
        BY DEF Tick
    <2> QED
        BY <2>1, <2>2
<1>4. TypeOK'
    <2>1. age' \in [Calls -> 0..CtxTimeout]
        BY <1>2 DEF Tick
    <2>2. silence' \in [Rooms -> 0..MaxSilence]
        BY <1>3 DEF Tick
    <2> QED
        BY <1>1, <2>1, <2>2 DEF DirectoryInv, TypeOK
<1>5. \A c \in Calls : /\ LocksPick(c)' = LocksPick(c) /\ LocksSeat(c)' = LocksSeat(c)
                       /\ LocksLeft(c)' = LocksLeft(c)
    BY <1>1 DEF LocksPick, LocksSeat, LocksLeft
<1>6. PickedRoomsHavePlace'
    <2> SUFFICES ASSUME NEW c \in Calls, LocksPick(c)
                 PROVE  /\ status'[at'[c]] = "ready" /\ generation'[at'[c]] # 0
                        /\ used'[at'[c]] < Capacity[at'[c]]
                        /\ silence'[at'[c]] < FreshFor + age'[c]
        BY <1>5 DEF PickedRoomsHavePlace
    <2>1. at[c] \in Rooms /\ stage[c] # "idle"
        BY DEF DirectoryInv, CallsWellFormed, LocksPick
    <2>2. silence[at[c]] < FreshFor + age[c]
        BY DEF DirectoryInv, PickedRoomsHavePlace
    <2>3. silence[at[c]] \in Nat /\ silence'[at[c]] \in Nat /\ age[c] \in Nat /\ FreshFor \in Nat
        <3>1. silence[at[c]] \in 0..MaxSilence /\ silence'[at[c]] \in 0..MaxSilence /\ age[c] \in 0..CtxTimeout
            BY <2>1, <1>3 DEF DirectoryInv, TypeOK
        <3> QED
            BY <3>1, DirectoryAssumption DEF MaxSilence
    <2>4. silence'[at[c]] < FreshFor + age'[c]
        BY <2>1, <2>2, <2>3, <1>2, <1>3
    <2> QED
        BY <2>1, <2>4, <1>1 DEF DirectoryInv, PickedRoomsHavePlace
<1>7. \A s \in Rooms : SeatsIn(s)' = SeatsIn(s)
    BY <1>1 DEF SeatsIn
<1>8. SeatsCounted' /\ OneSeat' /\ CallsWellFormed'
    BY <1>1, <1>7 DEF DirectoryInv, SeatsCounted, OneSeat, CallsWellFormed
<1>9. LocksExclude' /\ LockedSeatsAreActive'
    BY <1>1, <1>5 DEF DirectoryInv, LocksExclude, LocksRoom, LockedSeatsAreActive
<1>10. ReservedAlone'
    BY <1>1 DEF DirectoryInv, ReservedAlone, IndexAdmits
<1> QED
    BY <1>4, <1>6, <1>8, <1>9, <1>10 DEF DirectoryInv
-----------------------------------------------------------------------------
(* Counting a room down when one of its seats is given up.                   *)
LEMMA CountDownSeat ==
    ASSUME DirectoryInv, NEW r \in Rooms, NEW p \in Players, <<r, p>> \in active
    PROVE  /\ CountDown(r) \in [Rooms -> Nat]
           /\ \A s \in Rooms : CountDown(r)[s] <= used[s]
           /\ \A s \in Rooms : CountDown(r)[s] = Cardinality(SeatsIn(s) \ (IF s = r THEN {p} ELSE {}))
<1>1. \A s \in Rooms : used[s] \in Nat /\ used[s] = Cardinality(SeatsIn(s)) /\ IsFiniteSet(SeatsIn(s))
    <2>1. \A s \in Rooms : SeatsIn(s) \subseteq Players
        BY DEF SeatsIn
    <2> QED
        BY <2>1, DirectoryAssumption, FS_Subset DEF DirectoryInv, TypeOK, SeatsCounted
<1>2. p \in SeatsIn(r)
    BY DEF SeatsIn
<1>3. Cardinality(SeatsIn(r) \ {p}) = used[r] - 1
    BY <1>1, <1>2, FS_RemoveElement
<1>4. used[r] > 0
    <2>1. Cardinality(SeatsIn(r) \ {p}) \in Nat
        BY <1>1, FS_RemoveElement, FS_CardinalityType
    <2> QED
        BY <2>1, <1>1, <1>3
<1>5. \A s \in Rooms : CountDown(r)[s] = IF s = r THEN used[s] - 1 ELSE used[s]
    BY <1>1, <1>4 DEF CountDown
<1>6. CountDown(r) \in [Rooms -> Nat]
    BY <1>1, <1>4 DEF CountDown
<1>7. \A s \in Rooms : CountDown(r)[s] <= used[s]
    BY <1>1, <1>5
<1>8. ASSUME NEW s \in Rooms
      PROVE  CountDown(r)[s] = Cardinality(SeatsIn(s) \ (IF s = r THEN {p} ELSE {}))
    <2>1. CASE s = r
        BY <2>1, <1>3, <1>5
    <2>2. CASE s # r
        <3>1. SeatsIn(s) \ (IF s = r THEN {p} ELSE {}) = SeatsIn(s)
            BY <2>2
        <3> QED
            BY <3>1, <2>2, <1>1, <1>5
    <2> QED
        BY <2>1, <2>2
<1> QED
    BY <1>6, <1>7, <1>8

(* What a commit keeps for every other call: c gives up its locks and is idle *)
(* or waits for its ticket; the tables change under c's locks.                *)
LEMMA CommitStep ==
    ASSUME DirectoryInv, TypeOK', NEW c \in Calls, OthersUnchanged(c), UNCHANGED roomVars,
           SeatsCounted', OneSeat',
           stage'[c] \in {"idle", "ticket"}, left'[c] = NoRoom,
           stage'[c] = "ticket" => who'[c] \in Players /\ at'[c] \in Rooms /\ op'[c] = "allocate",
           \A d \in Calls \ {c} : LocksSeat(d) => <<left[d], who[d]>> \in active',
           \A d \in Calls \ {c} : LocksPick(d) => used'[at[d]] <= used[at[d]],
           \A d \in Calls \ {c} : stage[d] = "reserved" =>
               \A r \in Rooms : <<r, who[d]>> \in active' => <<r, who[d]>> \in active
    PROVE  DirectoryInv'
<1> USE DEF roomVars
<1>0. \A d \in Calls \ {c} : /\ LocksPick(d)' = LocksPick(d) /\ LocksSeat(d)' = LocksSeat(d)
                             /\ LocksLeft(d)' = LocksLeft(d)
    BY DEF OthersUnchanged, LocksPick, LocksSeat, LocksLeft
<1>1. ~LocksPick(c)' /\ ~LocksSeat(c)' /\ ~LocksLeft(c)'
    BY DEF LocksPick, LocksSeat, LocksLeft
<1>2. CallsWellFormed'
    BY DEF OthersUnchanged, DirectoryInv, CallsWellFormed, NoRoom
<1>3. LocksExclude'
    BY <1>0, <1>1 DEF OthersUnchanged, DirectoryInv, LocksExclude, LocksRoom
<1>4. LockedSeatsAreActive'
    BY <1>0, <1>1 DEF OthersUnchanged, LockedSeatsAreActive
<1>5. PickedRoomsHavePlace'
    <2> SUFFICES ASSUME NEW d \in Calls, LocksPick(d)'
                 PROVE  /\ status'[at'[d]] = "ready" /\ generation'[at'[d]] # 0
                        /\ used'[at'[d]] < Capacity[at'[d]]
                        /\ silence'[at'[d]] < FreshFor + age'[d]
        BY DEF PickedRoomsHavePlace
    <2>1. d # c /\ LocksPick(d) /\ at'[d] = at[d] /\ age'[d] = age[d]
        BY <1>0, <1>1 DEF OthersUnchanged
    <2>2. at[d] \in Rooms
        BY <2>1 DEF DirectoryInv, CallsWellFormed, LocksPick
    <2>3. used[at[d]] < Capacity[at[d]] /\ used'[at[d]] <= used[at[d]]
        BY <2>1 DEF DirectoryInv, PickedRoomsHavePlace
    <2>4. used[at[d]] \in Nat /\ used'[at[d]] \in Nat /\ Capacity[at[d]] \in Nat
        BY <2>2, DirectoryAssumption DEF DirectoryInv, TypeOK
    <2>5. used'[at[d]] < Capacity[at[d]]
        BY <2>3, <2>4
    <2> QED
        BY <2>1, <2>5 DEF DirectoryInv, PickedRoomsHavePlace
<1>6. ReservedAlone'
    <2> SUFFICES ASSUME NEW d \in Calls, stage'[d] = "reserved" PROVE IndexAdmits(d)'
        BY DEF ReservedAlone
    <2>1. d # c /\ stage[d] = "reserved" /\ IndexAdmits(d)
        BY DEF OthersUnchanged, DirectoryInv, ReservedAlone
    <2> QED
        BY <2>1 DEF OthersUnchanged, IndexAdmits
<1> QED
    BY <1>2, <1>3, <1>4, <1>5, <1>6 DEF DirectoryInv

LEMMA CommitReleaseStep ==
    ASSUME DirectoryInv, NEW c \in Calls, CommitRelease(c)
    PROVE  DirectoryInv'
<1> DEFINE l == left[c]
<1> DEFINE p == who[c]
<1>1. l \in Rooms /\ p \in Players /\ LocksSeat(c) /\ LocksLeft(c) /\ <<l, p>> \in active
    <2>1. l \in Rooms /\ p \in Players
        BY DEF DirectoryInv, CallsWellFormed, CommitRelease
    <2>2. LocksSeat(c) /\ LocksLeft(c)
        BY <2>1, DirectoryAssumption DEF LocksSeat, LocksLeft, CommitRelease, NoRoom
    <2> QED
        BY <2>1, <2>2 DEF DirectoryInv, LockedSeatsAreActive
<1>2. used' = CountDown(l) /\ active' = active \ {<<l, p>>} /\ UNCHANGED roomVars
    BY DEF CommitRelease
<1>3. TypeOK'
    <2>1. active' \subseteq Rooms \X Players
        BY <1>2 DEF DirectoryInv, TypeOK
    <2>2. used' \in [Rooms -> Nat]
        BY <1>1, <1>2, CountDownSeat
    <2>3. /\ stage' \in [Calls -> Stages] /\ op' \in [Calls -> {"allocate", "release"}]
          /\ who' \in [Calls -> Players \cup {Nobody}] /\ age' \in [Calls -> 0..CtxTimeout]
          /\ at' \in [Calls -> Rooms \cup {NoRoom}] /\ left' \in [Calls -> Rooms \cup {NoRoom}]
        BY DirectoryAssumption DEF DirectoryInv, TypeOK, CommitRelease, Finish, SetStage, Stages
    <2> QED
        BY <2>1, <2>2, <2>3, <1>2 DEF DirectoryInv, TypeOK, roomVars
<1>4. OthersUnchanged(c) /\ stage'[c] = "idle" /\ left'[c] = NoRoom
    BY DEF DirectoryInv, TypeOK, OthersUnchanged, CommitRelease, Finish, SetStage
<1>5. SeatsCounted'
    <2>1. \A s \in Rooms : SeatsIn(s)' = SeatsIn(s) \ (IF s = l THEN {p} ELSE {})
        BY <1>2 DEF SeatsIn
    <2> QED
        BY <2>1, <1>1, <1>2, CountDownSeat DEF SeatsCounted
<1>6. OneSeat'
    BY <1>2 DEF DirectoryInv, OneSeat
<1>7. \A d \in Calls \ {c} : LocksSeat(d) => <<left[d], who[d]>> \in active'
    BY <1>1, <1>2 DEF DirectoryInv, LocksExclude, LockedSeatsAreActive
<1>8. \A d \in Calls \ {c} : LocksPick(d) => used'[at[d]] <= used[at[d]]
    <2>1. \A d \in Calls : LocksPick(d) => at[d] \in Rooms
        BY DEF DirectoryInv, CallsWellFormed, LocksPick
    <2> QED
        BY <2>1, <1>1, <1>2, CountDownSeat
<1> QED
    BY <1>2, <1>3, <1>4, <1>5, <1>6, <1>7, <1>8, CommitStep

(* The tables after an allocation commits; the room it locked had a place.    *)
LEMMA Seated ==
    ASSUME DirectoryInv, NEW c \in Calls, CommitAllocate(c)
    PROVE  /\ at[c] \in Rooms /\ who[c] \in Players /\ LocksPick(c)
           /\ \A r \in Rooms : <<r, who[c]>> \in active <=> r = left[c]
           /\ left[c] # NoRoom => left[c] \in Rooms /\ LocksSeat(c) /\ LocksLeft(c)
<1>1. stage[c] = "reserved" /\ op[c] = "allocate" /\ at[c] \in Rooms /\ who[c] \in Players
    BY DEF CommitAllocate, DirectoryInv, CallsWellFormed
<1>2. LocksPick(c)
    BY <1>1 DEF LocksPick
<1>3. ASSUME left[c] # NoRoom
      PROVE  left[c] \in Rooms /\ LocksSeat(c) /\ LocksLeft(c) /\ <<left[c], who[c]>> \in active
    BY <1>1, <1>3 DEF DirectoryInv, TypeOK, LocksSeat, LocksLeft, LockedSeatsAreActive
<1>4. NoRoom \notin Rooms
    BY DirectoryAssumption DEF NoRoom
<1>5. \A r \in Rooms : <<r, who[c]>> \in active => r = left[c]
    BY <1>1 DEF DirectoryInv, ReservedAlone, IndexAdmits
<1> QED
    BY <1>1, <1>2, <1>3, <1>4, <1>5

LEMMA CommitAllocateStep ==
    ASSUME DirectoryInv, NEW c \in Calls, CommitAllocate(c)
    PROVE  DirectoryInv'
<1> DEFINE l == left[c]
<1> DEFINE p == who[c]
<1> DEFINE t == at[c]
<1> DEFINE down == CountDown(l)
<1>1. /\ t \in Rooms /\ p \in Players /\ LocksPick(c)
      /\ \A r \in Rooms : <<r, p>> \in active <=> r = l
      /\ l # NoRoom => l \in Rooms /\ LocksSeat(c) /\ LocksLeft(c)
    BY Seated
<1>2. /\ used' = [down EXCEPT ![t] = @ + 1] /\ UNCHANGED roomVars
      /\ active' = (active \ {<<l, p>>}) \cup {<<t, p>>}
    BY DEF CommitAllocate, CountUp
<1>3. /\ down \in [Rooms -> Nat]
      /\ \A s \in Rooms : down[s] <= used[s]
      /\ \A s \in Rooms : down[s] = Cardinality(SeatsIn(s) \ {p})
    <2>1. CASE l \in Rooms
        <3>1. <<l, p>> \in active
            BY <2>1, <1>1
        <3>2. \A s \in Rooms : SeatsIn(s) \ (IF s = l THEN {p} ELSE {}) = SeatsIn(s) \ {p}
            BY <1>1 DEF SeatsIn
        <3> QED
            BY <2>1, <3>1, <3>2, <1>1, CountDownSeat
    <2>2. CASE l \notin Rooms
        <3>1. down = [s \in Rooms |-> used[s]]
            BY <2>2 DEF CountDown
        <3>2. \A s \in Rooms : SeatsIn(s) \ {p} = SeatsIn(s)
            BY <2>2, <1>1 DEF SeatsIn
        <3>3. \A s \in Rooms : used[s] \in Nat /\ used[s] = Cardinality(SeatsIn(s))
            BY DEF DirectoryInv, TypeOK, SeatsCounted
        <3> QED
            BY <3>1, <3>2, <3>3
    <2> QED
        BY <2>1, <2>2
<1> HIDE DEF down
<1>4. used' \in [Rooms -> Nat] /\ \A s \in Rooms : used'[s] = IF s = t THEN down[s] + 1 ELSE down[s]
    BY <1>1, <1>2, <1>3
<1>5. TypeOK'
    <2>1. active' \subseteq Rooms \X Players
        BY <1>1, <1>2 DEF DirectoryInv, TypeOK
    <2>2. /\ stage' \in [Calls -> Stages] /\ op' \in [Calls -> {"allocate", "release"}]
          /\ who' \in [Calls -> Players \cup {Nobody}] /\ age' \in [Calls -> 0..CtxTimeout]
          /\ at' \in [Calls -> Rooms \cup {NoRoom}] /\ left' \in [Calls -> Rooms \cup {NoRoom}]
        BY DirectoryAssumption DEF DirectoryInv, TypeOK, CommitAllocate, Finish, SetStage, Stages
    <2> QED
        BY <2>1, <2>2, <1>2, <1>4 DEF DirectoryInv, TypeOK, roomVars
<1>6. OthersUnchanged(c) /\ stage'[c] \in {"idle", "ticket"} /\ left'[c] = NoRoom
    BY DEF DirectoryInv, TypeOK, OthersUnchanged, CommitAllocate, Finish, SetStage
<1>7. stage'[c] = "ticket" => who'[c] \in Players /\ at'[c] \in Rooms /\ op'[c] = "allocate"
    BY <1>1 DEF DirectoryInv, TypeOK, CallsWellFormed, CommitAllocate, Finish, SetStage, LocksPick
<1>8. SeatsCounted'
    <2> SUFFICES ASSUME NEW s \in Rooms PROVE used'[s] = Cardinality(SeatsIn(s)')
        BY DEF SeatsCounted
    <2>1. SeatsIn(s)' = (SeatsIn(s) \ {p}) \cup (IF s = t THEN {p} ELSE {})
        BY <1>1, <1>2 DEF SeatsIn
    <2>2. IsFiniteSet(SeatsIn(s) \ {p})
        <3>1. SeatsIn(s) \ {p} \subseteq Players
            BY DEF SeatsIn
        <3> QED
            BY <3>1, DirectoryAssumption, FS_Subset
    <2>3. Cardinality((SeatsIn(s) \ {p}) \cup {p}) = Cardinality(SeatsIn(s) \ {p}) + 1
        BY <2>2, FS_AddElement
    <2>4. CASE s = t
        BY <2>1, <2>3, <2>4, <1>3, <1>4
    <2>5. CASE s # t
        <3>1. SeatsIn(s)' = SeatsIn(s) \ {p}
            BY <2>1, <2>5
        <3> QED
            BY <3>1, <2>5, <1>3, <1>4
    <2> QED
        BY <2>4, <2>5
<1>9. OneSeat'
    BY <1>1, <1>2 DEF DirectoryInv, OneSeat
<1>10. \A d \in Calls \ {c} : LocksSeat(d) => <<left[d], who[d]>> \in active'
    <2> SUFFICES ASSUME NEW d \in Calls \ {c}, LocksSeat(d) PROVE <<left[d], who[d]>> \in active'
        OBVIOUS
    <2>1. <<left[d], who[d]>> \in active /\ left[d] # NoRoom
        BY DEF DirectoryInv, LockedSeatsAreActive, LocksSeat
    <2>2. ~(left[d] = l /\ who[d] = p)
        BY <2>1, <1>1 DEF DirectoryInv, LocksExclude
    <2> QED
        BY <2>1, <2>2, <1>2
<1>11. \A d \in Calls \ {c} : LocksPick(d) => used'[at[d]] <= used[at[d]]
    <2> SUFFICES ASSUME NEW d \in Calls \ {c}, LocksPick(d) PROVE used'[at[d]] <= used[at[d]]
        OBVIOUS
    <2>1. at[d] \in Rooms
        BY DEF DirectoryInv, CallsWellFormed, LocksPick
    <2>2. at[d] # t
        BY <2>1, <1>1 DEF DirectoryInv, LocksExclude, LocksRoom
    <2> QED
        BY <2>1, <2>2, <1>3, <1>4
<1>12. \A d \in Calls \ {c} : stage[d] = "reserved" =>
          \A r \in Rooms : <<r, who[d]>> \in active' => <<r, who[d]>> \in active
    <2>1. \A d \in Calls \ {c} : stage[d] = "reserved" => who[d] # p
        BY DEF DirectoryInv, ReservedAlone, IndexAdmits, CommitAllocate
    <2> QED
        BY <2>1, <1>2
<1> QED
    BY <1>2, <1>5, <1>6, <1>7, <1>8, <1>9, <1>10, <1>11, <1>12, CommitStep
-----------------------------------------------------------------------------
LEMMA Stutter == ASSUME DirectoryInv, UNCHANGED vars PROVE DirectoryInv'
<1> USE DEF vars, roomVars, callVars
<1>1. TypeOK' /\ OneSeat' /\ CallsWellFormed'
    BY DEF DirectoryInv, TypeOK, OneSeat, CallsWellFormed
<1>2. \A r \in Rooms : SeatsIn(r)' = SeatsIn(r)
    BY DEF SeatsIn
<1>3. SeatsCounted'
    BY <1>2 DEF DirectoryInv, SeatsCounted
<1>4. \A c \in Calls : /\ LocksPick(c)' = LocksPick(c) /\ LocksSeat(c)' = LocksSeat(c)
                       /\ LocksLeft(c)' = LocksLeft(c)
    BY DEF LocksPick, LocksSeat, LocksLeft
<1>5. LocksExclude' /\ LockedSeatsAreActive' /\ PickedRoomsHavePlace'
    BY <1>4 DEF DirectoryInv, LocksExclude, LocksRoom, LockedSeatsAreActive, PickedRoomsHavePlace
<1>6. ReservedAlone'
    BY DEF DirectoryInv, ReservedAlone, IndexAdmits
<1> QED
    BY <1>1, <1>3, <1>5, <1>6 DEF DirectoryInv

(* Every step keeps the invariant.                                           *)
LEMMA NextInv == ASSUME DirectoryInv, [Next]_vars PROVE DirectoryInv'
<1>1. ASSUME NEW r \in Rooms, RoomStep(r) PROVE DirectoryInv'
    BY <1>1, RoomStepKeeps
<1>2. ASSUME NEW c \in Calls, BeginCall(c) PROVE DirectoryInv'
    BY <1>2, PickStep, AskStep DEF BeginCall
<1>3. ASSUME NEW c \in Calls, Proceed(c) PROVE DirectoryInv'
    <2>1. CASE ReadSeat(c)
        BY <2>1, ReadStep
    <2>2. CASE TakeSeat(c)
        BY <2>2, TakeStep
    <2>3. CASE Vacate(c)
        BY <2>3, VacateStep
    <2>4. CASE Reserve(c)
        BY <2>4, ReserveStep
    <2>5. CASE ReleaseSeat(c)
        BY <2>5, ReleaseStep
    <2>6. CASE CommitRelease(c)
        BY <2>6, CommitReleaseStep
    <2>7. CASE CommitAllocate(c)
        BY <2>7, CommitAllocateStep
    <2>8. CASE IssueTicket(c)
        BY <2>8, FinishStep DEF IssueTicket
    <2>9. CASE UndoAllocation(c)
        BY <2>9, AskStep
    <2> QED
        BY <1>3, <2>1, <2>2, <2>3, <2>4, <2>5, <2>6, <2>7, <2>8, <2>9 DEF Proceed
<1>4. ASSUME NEW c \in Calls, Abort(c) PROVE DirectoryInv'
    BY <1>4, FinishStep DEF Abort
<1>5. CASE Tick
    BY <1>5, TickStep
<1>6. CASE UNCHANGED vars
    BY <1>6, Stutter
<1> QED
    BY <1>1, <1>2, <1>3, <1>4, <1>5, <1>6 DEF Next

(* The locks, the counts and the index hold together in every behaviour.     *)
THEOREM DirectorySafe == Spec => []DirectoryInv
<1>1. DirectoryInv /\ [Next]_vars => DirectoryInv'
    BY NextInv
<1> QED
    BY <1>1, InitInv, PTL DEF Spec

(* used_players counts the active reservations (AllocateRoom,                *)
(* ReleaseReservation), for any number of rooms, players and calls.          *)
THEOREM UsedPlayersCounted == Spec => []SeatsCounted
<1>1. DirectoryInv => SeatsCounted
    BY DEF DirectoryInv
<1> QED
    BY <1>1, DirectorySafe, PTL

(* A player holds at most one seat (index active_player_reservation).        *)
THEOREM OneSeatEach == Spec => []OneSeat
<1>1. DirectoryInv => OneSeat
    BY DEF DirectoryInv
<1> QED
    BY <1>1, DirectorySafe, PTL

(* A step that seats a player is the commit of an allocation.                *)
LEMMA OnlyCommitsSeat ==
    ASSUME DirectoryInv, [Next]_vars, active' # active
    PROVE  \E c \in Calls : CommitAllocate(c) \/ CommitRelease(c)
<1> QED
    BY DEF Next, vars, RoomStep, RegisterRoom, HeartbeatRoom, BeginCall, PickRoom, BeginRelease,
           Proceed, ReadSeat, TakeSeat, Vacate, Reserve, ReleaseSeat, IssueTicket,
           UndoAllocation, Abort, Tick

(* A seat is committed in a room that is ready and not long silent: the pick *)
(* locks the room's row until the commit (AllocateRoom, for update).         *)
THEOREM LiveSeats == Spec => SeatsInLiveRooms
<1>1. ASSUME DirectoryInv, [Next]_vars, NEW r \in Rooms, NEW p \in Players, <<r, p>> \in active' \ active
      PROVE  status[r] = "ready" /\ silence[r] < MaxSilence
    <2>1. PICK c \in Calls : CommitAllocate(c) \/ CommitRelease(c)
        BY <1>1, OnlyCommitsSeat
    <2>2. CommitAllocate(c)
        BY <2>1, <1>1 DEF CommitRelease
    <2>3. r = at[c] /\ LocksPick(c)
        BY <2>2, <1>1, Seated DEF CommitAllocate
    <2>4. status[r] = "ready" /\ silence[r] < FreshFor + age[c]
        BY <2>3, <1>1 DEF DirectoryInv, PickedRoomsHavePlace
    <2>5. age[c] \in 0..CtxTimeout /\ silence[r] \in 0..MaxSilence
        BY <1>1 DEF DirectoryInv, TypeOK
    <2>6. FreshFor \in Nat /\ CtxTimeout \in Nat
        BY DirectoryAssumption
    <2> QED
        BY <2>4, <2>5, <2>6 DEF MaxSilence
<1>2. DirectoryInv /\ [Next]_vars =>
        [\A r \in Rooms, p \in Players : <<r, p>> \in active' \ active =>
             status[r] = "ready" /\ silence[r] < MaxSilence]_vars
    BY <1>1
<1> QED
    BY <1>2, DirectorySafe, PTL DEF Spec, SeatsInLiveRooms
-----------------------------------------------------------------------------
(* The refinement: the players seated in a room are those with an active     *)
(* reservation there.                                                        *)
LEMMA SeatFact ==
    ASSUME OneSeat, active \subseteq Rooms \X Players, NEW p \in Players
    PROVE  /\ \A r \in Rooms : SeatOf[p] = r <=> <<r, p>> \in active
           /\ (\A r \in Rooms : <<r, p>> \notin active) => SeatOf[p] = NoRoom
<1>1. NoRoom \notin Rooms
    BY DirectoryAssumption DEF NoRoom
<1>2. CASE \E r \in Rooms : <<r, p>> \in active
    <2>1. PICK r \in Rooms : <<r, p>> \in active
        BY <1>2
    <2>2. \A s \in Rooms : <<s, p>> \in active => s = r
        BY <2>1 DEF OneSeat
    <2>3. SeatOf[p] = r
        BY <2>1, <2>2 DEF SeatOf
    <2> QED
        BY <2>1, <2>2, <2>3
<1>3. CASE \A r \in Rooms : <<r, p>> \notin active
    BY <1>1, <1>3 DEF SeatOf
<1> QED
    BY <1>2, <1>3

LEMMA SameCardinality == ASSUME NEW S PROVE Book!Cardinality(S) = Cardinality(S)
BY DEF Book!Cardinality, Cardinality

LEMMA BookInit == Init => Book!Init
<1> SUFFICES ASSUME Init PROVE SeatOf = [p \in Players |-> NoRoom]
    BY DEF Book!Init
<1> QED
    BY DEF Init, SeatOf

(* Two mappings are equal when they agree on every player.                   *)
LEMMA SeatOfIs ==
    ASSUME NEW f, f \in [Players -> Rooms \cup {NoRoom}], OneSeat', active' \subseteq Rooms \X Players,
           \A q \in Players : \/ f[q] \in Rooms /\ <<f[q], q>> \in active'
                              \/ f[q] = NoRoom /\ \A r \in Rooms : <<r, q>> \notin active'
    PROVE  SeatOf' = f
<1>1. ASSUME NEW q \in Players
      PROVE  (IF \E r \in Rooms : <<r, q>> \in active' THEN CHOOSE r \in Rooms : <<r, q>> \in active' ELSE NoRoom) = f[q]
    <2>1. CASE f[q] \in Rooms /\ <<f[q], q>> \in active'
        <3>1. \A s \in Rooms : <<s, q>> \in active' => s = f[q]
            BY <2>1 DEF OneSeat
        <3> QED
            BY <2>1, <3>1
    <2>2. CASE f[q] = NoRoom /\ \A r \in Rooms : <<r, q>> \notin active'
        BY <2>2
    <2> QED
        BY <2>1, <2>2
<1> QED
    BY <1>1 DEF SeatOf

(* The commit of a release lets the player leave, ...                        *)
LEMMA ReleaseLeaves ==
    ASSUME DirectoryInv, DirectoryInv', NEW c \in Calls, CommitRelease(c)
    PROVE  Book!Next
<1> DEFINE p == who[c]
<1> DEFINE f == [SeatOf EXCEPT ![p] = NoRoom]
<1>1. left[c] \in Rooms /\ p \in Players
    BY DEF DirectoryInv, CallsWellFormed, CommitRelease
<1>2. <<left[c], p>> \in active
    BY <1>1, DirectoryAssumption DEF DirectoryInv, LockedSeatsAreActive, LocksSeat, CommitRelease, NoRoom
<1>3. active' = active \ {<<left[c], p>>}
    BY DEF CommitRelease
<1>4. OneSeat /\ active \subseteq Rooms \X Players /\ OneSeat' /\ active' \subseteq Rooms \X Players
    BY DEF DirectoryInv, TypeOK
<1>5. SeatOf \in [Players -> Rooms \cup {NoRoom}]
    BY DEF SeatOf
<1>6. f \in [Players -> Rooms \cup {NoRoom}]
    BY <1>5
<1>7. ASSUME NEW q \in Players
      PROVE  \/ f[q] \in Rooms /\ <<f[q], q>> \in active'
             \/ f[q] = NoRoom /\ \A r \in Rooms : <<r, q>> \notin active'
    <2>1. CASE q = p
        <3>1. \A r \in Rooms : <<r, p>> \in active => r = left[c]
            BY <1>1, <1>2, <1>4 DEF OneSeat
        <3> QED
            BY <2>1, <3>1, <1>1, <1>3, <1>5
    <2>2. CASE q # p
        <3>1. f[q] = SeatOf[q]
            BY <2>2, <1>5
        <3>2. \A r \in Rooms : <<r, q>> \in active' <=> <<r, q>> \in active
            BY <2>2, <1>3
        <3>3. /\ \A r \in Rooms : SeatOf[q] = r <=> <<r, q>> \in active
              /\ (\A r \in Rooms : <<r, q>> \notin active) => SeatOf[q] = NoRoom
            BY <1>4, SeatFact
        <3> QED
            BY <3>1, <3>2, <3>3
    <2> QED
        BY <2>1, <2>2
<1> HIDE DEF f
<1>8. SeatOf' = f
    BY <1>4, <1>6, <1>7, SeatOfIs
<1> QED
    BY <1>1, <1>8 DEF Book!Next, Book!Leave, f

(* ... the commit of an allocation seats it in a room with a free place.     *)
LEMMA AllocationSits ==
    ASSUME DirectoryInv, DirectoryInv', NEW c \in Calls, CommitAllocate(c)
    PROVE  Book!Next
<1> DEFINE p == who[c]
<1> DEFINE t == at[c]
<1> DEFINE f == [SeatOf EXCEPT ![p] = t]
<1>1. t \in Rooms /\ p \in Players /\ LocksPick(c) /\ \A r \in Rooms : <<r, p>> \in active <=> r = left[c]
    BY Seated
<1>2. active' = (active \ {<<left[c], p>>}) \cup {<<t, p>>}
    BY DEF CommitAllocate
<1>3. OneSeat /\ active \subseteq Rooms \X Players /\ OneSeat' /\ active' \subseteq Rooms \X Players
    BY DEF DirectoryInv, TypeOK
<1>4. SeatOf \in [Players -> Rooms \cup {NoRoom}]
    BY DEF SeatOf
<1>5. f \in [Players -> Rooms \cup {NoRoom}]
    BY <1>1, <1>4
<1>6. ASSUME NEW q \in Players
      PROVE  \/ f[q] \in Rooms /\ <<f[q], q>> \in active'
             \/ f[q] = NoRoom /\ \A r \in Rooms : <<r, q>> \notin active'
    <2>1. CASE q = p
        BY <2>1, <1>1, <1>2, <1>4
    <2>2. CASE q # p
        <3>1. f[q] = SeatOf[q]
            BY <2>2, <1>4
        <3>2. \A r \in Rooms : <<r, q>> \in active' <=> <<r, q>> \in active
            BY <2>2, <1>2
        <3>3. /\ \A r \in Rooms : SeatOf[q] = r <=> <<r, q>> \in active
              /\ (\A r \in Rooms : <<r, q>> \notin active) => SeatOf[q] = NoRoom
            BY <1>3, SeatFact
        <3> QED
            BY <3>1, <3>2, <3>3
    <2> QED
        BY <2>1, <2>2
<1> HIDE DEF f
<1>7. SeatOf' = f
    BY <1>3, <1>5, <1>6, SeatOfIs
<1>8. Cardinality({q \in Players : SeatOf[q] = t}) < Capacity[t]
    <2>1. {q \in Players : SeatOf[q] = t} = SeatsIn(t)
        BY <1>1, <1>3, SeatFact DEF SeatsIn
    <2>2. used[t] = Cardinality(SeatsIn(t)) /\ used[t] < Capacity[t]
        BY <1>1 DEF DirectoryInv, SeatsCounted, PickedRoomsHavePlace
    <2> QED
        BY <2>1, <2>2
<1>9. Book!Sit(p, t)
    BY <1>7, <1>8, SameCardinality DEF Book!Sit, Book!Seated, f
<1> QED
    BY <1>1, <1>9 DEF Book!Next

(* The two tables, their locks and their counters implement the seat book:   *)
(* no room seats more than its capacity, a player moves in one step.         *)
THEOREM DirectoryImplementsSeatBook == Spec => ImplementsSeatBook
<1>1. ASSUME DirectoryInv, DirectoryInv', [Next]_vars PROVE Book!Next \/ UNCHANGED SeatOf
    <2>1. CASE active' = active
        BY <2>1 DEF SeatOf
    <2>2. CASE active' # active
        BY <1>1, <2>2, OnlyCommitsSeat, ReleaseLeaves, AllocationSits
    <2> QED
        BY <2>1, <2>2
<1>2. DirectoryInv /\ DirectoryInv' /\ [Next]_vars => [Book!Next]_SeatOf
    BY <1>1
<1> QED
    BY <1>2, BookInit, DirectorySafe, PTL DEF Spec, ImplementsSeatBook, Book!Spec
=============================================================================
