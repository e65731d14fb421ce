----------------------------- MODULE GateProofs -----------------------------
(* Proofs about Gate, for every table size, all limits and any number of       *)
(* clients.                                                                  *)
(*                                                                           *)
(* The log of a key never decreases, so that the admissions a window loses,    *)
(* from its head or with the whole key, are the old ones of the log.  A window  *)
(* is then the recent end of the log, and its length decides rightly.          *)
EXTENDS Gate, FiniteSetTheorems, SequenceTheorems, WellFoundedInduction, TLAPS

(* A set of numbers that is not empty has a least element.                    *)
LEMMA HasLeast ==
    ASSUME NEW S \in SUBSET Nat, S # {}
    PROVE  \E l \in S : \A m \in S : l <= m
<1> DEFINE R == {ss \in Nat \X Nat : ss[1] < ss[2]}
<1>1. IsWellFoundedOn(R, Nat)
    BY NatLessThanWellFounded DEF OpToRel
<1>2. PICK l \in S : \A m \in S : ~(<<m, l>> \in R)
    <2> HIDE DEF R
    <2> QED
        BY <1>1, WFMin
<1>3. \A m \in S : ~(m < l)
    BY <1>2
<1> QED
    BY <1>3

(* Times in the order of their admission.                                     *)
Orderly(l, now) ==
    /\ \A i \in 1..Len(l) : l[i] <= now
    /\ \A i, j \in 1..Len(l) : i <= j => l[i] <= l[j]

(* Limit + 1 admissions in a row span a minute.                               *)
Spaced(l, limit) == \A i \in 1..Len(l) : i > limit => l[i] - l[i - limit] >= Minute

(* The window is the end of the log, what it has dropped is old.               *)
TailOf(w, l, now) ==
    /\ Len(w) <= Len(l)
    /\ \A i \in 1..Len(w) : w[i] = l[(Len(l) - Len(w)) + i]
    /\ \A i \in 1..(Len(l) - Len(w)) : now - l[i] >= Minute

Typed ==
    /\ clock \in Nat
    /\ DOMAIN windows \subseteq Keys
    /\ IsFiniteSet(DOMAIN windows)
    /\ windows \in [DOMAIN windows -> Seq(Nat)]
    /\ log \in [Keys -> Seq(Nat)]

LimiterInv ==
    /\ Typed
    /\ Cardinality(DOMAIN windows) <= MaxWindows
    /\ \A k \in DOMAIN windows : windows[k] # <<>>
    /\ \A k \in Keys : /\ Orderly(log[k], clock)
                       /\ Spaced(log[k], Limit[k[1]])
                       /\ TailOf(Kept(k), log[k], clock)

LEMMA Amounts ==
    /\ Minute \in Nat \ {0} /\ MaxWindows \in Nat \ {0}
    /\ \A k \in Keys : Limit[k[1]] \in Nat /\ Limit[k[1]] > 0
BY GateAssumption DEF Keys

(* Where the old head of a window ends.                                       *)
LEMMA TrimmedAt ==
    ASSUME NEW v \in Seq(Nat), clock \in Nat
    PROVE  \E n \in 0..Len(v) :
              /\ Trimmed(v) = SubSeq(v, n + 1, Len(v))
              /\ \A j \in 1..n : Old(v[j])
              /\ n < Len(v) => ~Old(v[n + 1])
<1> DEFINE Stops(n) == /\ \A j \in 1..n : Old(v[j])
                       /\ n < Len(v) => ~Old(v[n + 1])
           S == {i \in 1..Len(v) : ~Old(v[i])}
<1>0. Len(v) \in Nat
    BY LenProperties
<1>1. \E n \in 0..Len(v) : Stops(n)
    <2>1. CASE S = {}
        <3>1. Stops(Len(v))
            BY <1>0, <2>1
        <3> QED
            BY <1>0, <3>1
    <2>2. CASE S # {}
        <3>1. PICK l \in S : \A m \in S : l <= m
            <4>1. S \in SUBSET Nat
                OBVIOUS
            <4> HIDE DEF S
            <4> QED
                BY <2>2, <4>1, HasLeast
        <3>2. l \in 1..Len(v) /\ ~Old(v[l])
            OBVIOUS
        <3>3. \A j \in 1..(l - 1) : Old(v[j])
            <4> SUFFICES ASSUME NEW j \in 1..(l - 1), ~Old(v[j]) PROVE FALSE
                OBVIOUS
            <4>1. j \in S /\ j < l
                BY <1>0, <3>2
            <4> QED
                BY <1>0, <3>1, <3>2, <4>1
        <3>4. (l - 1) + 1 = l /\ l - 1 \in 0..Len(v)
            BY <1>0, <3>2
        <3>5. Stops(l - 1)
            BY <3>2, <3>3, <3>4
        <3> HIDE DEF Stops
        <3> QED
            BY <3>4, <3>5
    <2> QED
        BY <2>1, <2>2
<1>2. PICK n \in 0..Len(v) : n = CHOOSE i \in 0..Len(v) : Stops(i)
    <2> HIDE DEF Stops
    <2> QED
        BY <1>1
<1>3. Stops(n)
    <2> HIDE DEF Stops
    <2> QED
        BY <1>1, <1>2
<1>4. Trimmed(v) = SubSeq(v, n + 1, Len(v))
    BY <1>2 DEF Trimmed
<1> QED
    BY <1>3, <1>4

(* A window without its old head is the end of the log as well, from its first *)
(* recent admission on.                                                      *)
LEMMA TrimmedTail ==
    ASSUME NEW w \in Seq(Nat), NEW l \in Seq(Nat), clock \in Nat, TailOf(w, l, clock)
    PROVE  /\ Trimmed(w) \in Seq(Nat)
           /\ TailOf(Trimmed(w), l, clock)
           /\ Len(Trimmed(w)) > 0 => ~Old(Trimmed(w)[1])
<1>0. Len(w) \in Nat /\ Len(l) \in Nat /\ \A i \in 1..Len(w) : w[i] \in Nat
    BY LenProperties, ElementOfSeq
<1>1. PICK n \in 0..Len(w) : /\ Trimmed(w) = SubSeq(w, n + 1, Len(w))
                             /\ \A j \in 1..n : Old(w[j])
                             /\ n < Len(w) => ~Old(w[n + 1])
    BY TrimmedAt
<1> DEFINE t == Trimmed(w)
<1>2. /\ t \in Seq(Nat) /\ Len(t) = Len(w) - n
      /\ \A i \in 1..Len(t) : t[i] = w[n + i]
    <2>1. \A i \in n + 1..Len(w) : w[i] \in Nat
        BY <1>0
    <2>2. /\ SubSeq(w, n + 1, Len(w)) \in Seq(Nat)
          /\ Len(SubSeq(w, n + 1, Len(w))) = IF n + 1 <= Len(w) THEN Len(w) - (n + 1) + 1 ELSE 0
          /\ \A i \in 1..(Len(w) - (n + 1) + 1) : SubSeq(w, n + 1, Len(w))[i] = w[(n + 1) + i - 1]
        BY <1>0, <2>1, SubSeqProperties
    <2>3. \A i \in 1..(Len(w) - n) : (n + 1) + i - 1 = n + i
        BY <1>0
    <2>4. Len(w) - (n + 1) + 1 = Len(w) - n
        BY <1>0
    <2>5. t \in Seq(Nat) /\ Len(t) = Len(w) - n
        <3>1. (IF n + 1 <= Len(w) THEN Len(w) - (n + 1) + 1 ELSE 0) = Len(w) - n
            BY <1>0
        <3>2. t = SubSeq(w, n + 1, Len(w))
            BY <1>1
        <3> HIDE DEF t
        <3> QED
            BY <2>2, <3>1, <3>2
    <2>6. ASSUME NEW i \in 1..Len(t) PROVE t[i] = w[n + i]
        <3>1. i \in 1..(Len(w) - n) /\ (n + 1) + i - 1 = n + i
            BY <1>0, <2>5
        <3>2. SubSeq(w, n + 1, Len(w))[i] = w[(n + 1) + i - 1]
            BY <2>2, <2>4, <3>1
        <3> QED
            BY <1>1, <3>1, <3>2
    <2> QED
        BY <2>5, <2>6
<1> HIDE DEF t
<1>3. Len(t) > 0 => ~Old(t[1])
    <2> SUFFICES ASSUME Len(t) > 0 PROVE ~Old(t[1])
        OBVIOUS
    <2>1. 1 \in 1..Len(t) /\ n < Len(w)
        BY <1>0, <1>2
    <2>2. t[1] = w[n + 1]
        BY <1>2, <2>1
    <2> QED
        BY <1>1, <2>1, <2>2
<1>4. TailOf(t, l, clock)
    <2>1. Len(t) <= Len(l)
        BY <1>0, <1>2 DEF TailOf
    <2>2. ASSUME NEW i \in 1..Len(t) PROVE t[i] = l[(Len(l) - Len(t)) + i]
        <3>1. n + i \in 1..Len(w) /\ (Len(l) - Len(w)) + (n + i) = (Len(l) - Len(t)) + i
            BY <1>0, <1>2
        <3> QED
            BY <1>2, <3>1 DEF TailOf
    <2>3. ASSUME NEW i \in 1..(Len(l) - Len(t)) PROVE clock - l[i] >= Minute
        <3>1. CASE i <= Len(l) - Len(w)
            BY <1>0, <1>2, <3>1 DEF TailOf
        <3>2. CASE i > Len(l) - Len(w)
            <4> DEFINE j == i - (Len(l) - Len(w))
            <4>1. j \in 1..n /\ j \in 1..Len(w) /\ (Len(l) - Len(w)) + j = i
                BY <1>0, <1>2, <2>1, <3>2
            <4> HIDE DEF j
            <4>2. w[j] = l[i] /\ Old(w[j])
                BY <1>1, <4>1 DEF TailOf
            <4> QED
                BY <4>2 DEF Old
        <3> QED
            BY <1>0, <3>1, <3>2
    <2> QED
        BY <2>1, <2>2, <2>3 DEF TailOf
<1> QED
    BY <1>2, <1>3, <1>4 DEF t

(* A key that is not swept was admitted within the last minute, and one that    *)
(* is not in the table was not.                                               *)
LEMMA SweptTail ==
    ASSUME LimiterInv, NEW k \in Keys, k \notin DOMAIN Swept
    PROVE  TailOf(<<>>, log[k], clock)
<1>0. /\ log[k] \in Seq(Nat) /\ Len(log[k]) \in Nat /\ \A i \in 1..Len(log[k]) : log[k][i] \in Nat
      /\ Len(<<>>) = 0 /\ clock \in Nat /\ Minute \in Nat
    BY Amounts, LenProperties, ElementOfSeq DEF LimiterInv, Typed
<1>1. TailOf(Kept(k), log[k], clock) /\ Orderly(log[k], clock)
    BY DEF LimiterInv
<1>2. CASE k \notin DOMAIN windows
    BY <1>1, <1>2 DEF Kept
<1>3. CASE k \in DOMAIN windows
    <2> DEFINE w == windows[k]
    <2>1. w \in Seq(Nat) /\ w # <<>> /\ Kept(k) = w
        BY <1>3 DEF LimiterInv, Typed, Kept
    <2>2. Len(w) \in Nat /\ Len(w) > 0
        BY <2>1, LenProperties, EmptySeq
    <2>3. Old(w[Len(w)])
        BY <1>3 DEF Swept
    <2> HIDE DEF w
    <2>4. Old(log[k][Len(log[k])]) /\ Len(log[k]) > 0
        <3>1. (Len(log[k]) - Len(w)) + Len(w) = Len(log[k]) /\ Len(w) <= Len(log[k])
            BY <1>0, <1>1, <2>1, <2>2 DEF TailOf
        <3> QED
            BY <1>0, <1>1, <2>1, <2>2, <2>3, <3>1 DEF TailOf
    <2>5. ASSUME NEW i \in 1..Len(log[k]) PROVE clock - log[k][i] >= Minute
        <3>1. log[k][i] <= log[k][Len(log[k])]
            BY <1>0, <1>1, <2>4 DEF Orderly
        <3> QED
            BY <1>0, <2>4, <3>1 DEF Old
    <2> QED
        BY <1>0, <2>5 DEF TailOf
<1> QED
    BY <1>2, <1>3

(* The table without the keys that are swept.                                 *)
LEMMA SweptTable ==
    ASSUME LimiterInv
    PROVE  /\ DOMAIN Swept \subseteq DOMAIN windows /\ IsFiniteSet(DOMAIN Swept)
           /\ Cardinality(DOMAIN Swept) \in Nat
           /\ Cardinality(DOMAIN Swept) <= Cardinality(DOMAIN windows)
           /\ \A k \in DOMAIN Swept : /\ Swept[k] = windows[k] /\ Swept[k] \in Seq(Nat)
                                      /\ ~Old(windows[k][Len(windows[k])])
<1>1. /\ DOMAIN Swept \subseteq DOMAIN windows
      /\ \A k \in DOMAIN Swept : Swept[k] = windows[k] /\ ~Old(windows[k][Len(windows[k])])
    BY DEF Swept
<1>2. IsFiniteSet(DOMAIN windows) /\ windows \in [DOMAIN windows -> Seq(Nat)]
    BY DEF LimiterInv, Typed
<1> QED
    BY <1>1, <1>2, FS_Subset, FS_CardinalityType

(* What the limiter counts is the recent end of the log.                      *)
LEMMA WindowTail ==
    ASSUME LimiterInv, NEW k \in Keys
    PROVE  /\ Window(k) \in Seq(Nat)
           /\ TailOf(Window(k), log[k], clock)
           /\ Len(Window(k)) > 0 => ~Old(Window(k)[1])
<1>1. CASE k \in DOMAIN Swept
    <2>1. k \in DOMAIN windows /\ Swept[k] = windows[k] /\ windows[k] \in Seq(Nat)
        BY <1>1, SweptTable
    <2>2. TailOf(windows[k], log[k], clock) /\ log[k] \in Seq(Nat) /\ clock \in Nat
        BY <2>1 DEF LimiterInv, Typed, Kept
    <2> QED
        BY <1>1, <2>1, <2>2, TrimmedTail DEF Window
<1>2. CASE k \notin DOMAIN Swept
    <2>1. <<>> \in Seq(Nat) /\ Len(<<>>) = 0
        BY EmptySeq
    <2> QED
        BY <1>2, <2>1, SweptTail DEF Window
<1> QED
    BY <1>1, <1>2

(* An admission that the window leaves room for.                              *)
LEMMA Appended ==
    ASSUME NEW w \in Seq(Nat), NEW l \in Seq(Nat), NEW now \in Nat, NEW limit \in Nat,
           TailOf(w, l, now), Orderly(l, now), Spaced(l, limit)
    PROVE  /\ TailOf(Append(w, now), Append(l, now), now)
           /\ Orderly(Append(l, now), now)
           /\ Len(w) < limit => Spaced(Append(l, now), limit)
<1> DEFINE m == Append(l, now)
           v == Append(w, now)
<1>0. Len(w) \in Nat /\ Len(l) \in Nat /\ \A i \in 1..Len(l) : l[i] \in Nat
    BY LenProperties, ElementOfSeq
<1>1. /\ Len(m) = Len(l) + 1 /\ \A i \in 1..Len(l) : m[i] = l[i]
      /\ m[Len(l) + 1] = now
    BY AppendProperties
<1>2. /\ Len(v) = Len(w) + 1 /\ \A i \in 1..Len(w) : v[i] = w[i]
      /\ v[Len(w) + 1] = now
    BY AppendProperties
<1> HIDE DEF m, v
<1>3. TailOf(v, m, now)
    <2>1. ASSUME NEW i \in 1..Len(v) PROVE v[i] = m[(Len(m) - Len(v)) + i]
        <3>1. CASE i <= Len(w)
            <4>1. /\ (Len(m) - Len(v)) + i = (Len(l) - Len(w)) + i
                  /\ (Len(l) - Len(w)) + i \in 1..Len(l) /\ i \in 1..Len(w)
                BY <1>0, <1>1, <1>2, <3>1 DEF TailOf
            <4> QED
                BY <1>1, <1>2, <4>1 DEF TailOf
        <3>2. CASE i = Len(w) + 1
            <4>1. (Len(m) - Len(v)) + i = Len(l) + 1
                BY <1>0, <1>1, <1>2, <3>2
            <4> QED
                BY <1>1, <1>2, <3>2, <4>1
        <3> QED
            BY <1>0, <1>2, <3>1, <3>2
    <2>2. ASSUME NEW i \in 1..(Len(m) - Len(v)) PROVE now - m[i] >= Minute
        <3>1. i \in 1..(Len(l) - Len(w)) /\ i \in 1..Len(l)
            BY <1>0, <1>1, <1>2
        <3> QED
            BY <1>1, <3>1 DEF TailOf
    <2>3. Len(v) <= Len(m)
        BY <1>0, <1>1, <1>2 DEF TailOf
    <2> QED
        BY <2>1, <2>2, <2>3 DEF TailOf
<1>4. Orderly(m, now)
    <2>1. \A i \in 1..Len(m) : i \in 1..Len(l) \/ i = Len(l) + 1
        BY <1>0, <1>1
    <2>2. ASSUME NEW i \in 1..Len(m) PROVE m[i] <= now
        <3>1. CASE i \in 1..Len(l)
            BY <1>1, <3>1 DEF Orderly
        <3>2. CASE i = Len(l) + 1
            BY <1>1, <3>2
        <3> QED
            BY <2>1, <3>1, <3>2
    <2>3. ASSUME NEW i \in 1..Len(m), NEW j \in 1..Len(m), i <= j PROVE m[i] <= m[j]
        <3>1. CASE j = Len(l) + 1
            BY <1>1, <2>2, <3>1
        <3>2. CASE j \in 1..Len(l)
            <4>1. i \in 1..Len(l)
                BY <1>0, <2>3, <3>2
            <4> QED
                BY <1>1, <2>3, <3>2, <4>1 DEF Orderly
        <3> QED
            BY <2>1, <3>1, <3>2
    <2> QED
        BY <2>2, <2>3 DEF Orderly
<1>5. Len(w) < limit => Spaced(m, limit)
    <2> SUFFICES ASSUME Len(w) < limit, NEW i \in 1..Len(m), i > limit
                 PROVE  m[i] - m[i - limit] >= Minute
        BY DEF Spaced
    <2>1. i - limit \in 1..Len(l)
        BY <1>0, <1>1
    <2>2. CASE i \in 1..Len(l)
        BY <1>1, <2>1, <2>2 DEF Spaced
    <2>3. CASE i = Len(l) + 1
        <3>1. i - limit \in 1..(Len(l) - Len(w))
            BY <1>0, <2>1, <2>3
        <3> QED
            BY <1>1, <2>1, <2>3, <3>1 DEF TailOf
    <2> QED
        BY <1>0, <1>1, <2>2, <2>3
<1> QED
    BY <1>3, <1>4, <1>5 DEF m, v

(* What a key has in the next state.                                          *)
KeyInv(k) ==
    /\ Orderly(log[k], clock)
    /\ Spaced(log[k], Limit[k[1]])
    /\ TailOf(Kept(k), log[k], clock)

(* The key of the request grows by it, the others lose at most old admissions. *)
LEMMA GrantStep ==
    ASSUME LimiterInv, NEW k \in Keys, Grant(k), clock' = clock
    PROVE  LimiterInv'
<1>0. /\ clock \in Nat /\ log \in [Keys -> Seq(Nat)] /\ Limit[k[1]] \in Nat
      /\ IsFiniteSet(DOMAIN windows) /\ DOMAIN windows \subseteq Keys
      /\ windows \in [DOMAIN windows -> Seq(Nat)]
    BY Amounts DEF LimiterInv, Typed
<1>1. /\ windows' = [j \in DOMAIN Swept \cup {k} |->
                        IF j = k THEN Append(Window(k), clock) ELSE Swept[j]]
      /\ log' = [log EXCEPT ![k] = Append(@, clock)]
      /\ ~TableFull(k) /\ Len(Window(k)) < Limit[k[1]]
    BY DEF Grant, Granted
<1>2. Window(k) \in Seq(Nat) /\ TailOf(Window(k), log[k], clock)
    BY WindowTail
<1>3. /\ Append(Window(k), clock) \in Seq(Nat) /\ Append(Window(k), clock) # <<>>
      /\ Append(log[k], clock) \in Seq(Nat)
    <2>1. log[k] \in Seq(Nat)
        BY <1>0
    <2> DEFINE w == Window(k)
    <2>2. w \in Seq(Nat)
        BY <1>2
    <2> HIDE DEF w
    <2>3. Append(w, clock) \in Seq(Nat) /\ Append(w, clock) # <<>>
        <3>1. Append(w, clock) \in Seq(Nat) /\ Len(Append(w, clock)) = Len(w) + 1 /\ Len(w) \in Nat
            BY <1>0, <2>2, AppendProperties, LenProperties
        <3>2. Append(w, clock) = <<>> => Len(Append(w, clock)) = 0
            OBVIOUS
        <3> QED
            BY <3>1, <3>2
    <2>4. Append(log[k], clock) \in Seq(Nat)
        BY <1>0, <2>1, AppendProperties
    <2> QED
        BY <2>3, <2>4 DEF w
<1>4. /\ DOMAIN windows' = DOMAIN Swept \cup {k}
      /\ windows'[k] = Append(Window(k), clock)
      /\ \A j \in DOMAIN Swept : j # k => windows'[j] = windows[j]
    BY <1>1, SweptTable
<1>5. Typed'
    BY <1>0, <1>1, <1>3, <1>4, SweptTable, FS_AddElement DEF Typed
<1>6. Cardinality(DOMAIN windows') <= MaxWindows
    <2>1. Cardinality(DOMAIN windows) <= MaxWindows /\ MaxWindows \in Nat
        BY Amounts DEF LimiterInv
    <2>2. Cardinality(DOMAIN windows) \in Nat
        BY <1>0, FS_CardinalityType
    <2>3. Cardinality(DOMAIN windows') = IF k \in DOMAIN Swept THEN Cardinality(DOMAIN Swept)
                                         ELSE Cardinality(DOMAIN Swept) + 1
        BY <1>4, SweptTable, FS_AddElement
    <2>4. k \notin DOMAIN Swept => Cardinality(DOMAIN Swept) < MaxWindows
        BY <1>1, <2>1, SweptTable DEF TableFull
    <2> QED
        BY <2>1, <2>2, <2>3, <2>4, SweptTable
<1>7. \A j \in DOMAIN windows' : windows'[j] # <<>>
    BY <1>3, <1>4, SweptTable DEF LimiterInv
<1>8. ASSUME NEW j \in Keys PROVE KeyInv(j)'
    <2>1. CASE j = k
        <3>1. log'[k] = Append(log[k], clock) /\ Kept(k)' = Append(Window(k), clock)
            BY <1>0, <1>1, <1>4 DEF Kept
        <3>2. Orderly(log[k], clock) /\ Spaced(log[k], Limit[k[1]]) /\ log[k] \in Seq(Nat)
            BY <1>0 DEF LimiterInv
        <3>3. /\ TailOf(Append(Window(k), clock), Append(log[k], clock), clock)
              /\ Orderly(Append(log[k], clock), clock)
              /\ Spaced(Append(log[k], clock), Limit[k[1]])
            BY <1>0, <1>1, <1>2, <3>2, Appended
        <3> QED
            BY <2>1, <3>1, <3>3 DEF KeyInv, Orderly, Spaced, TailOf
    <2>2. CASE j # k /\ j \in DOMAIN Swept
        <3>1. log'[j] = log[j] /\ Kept(j)' = Kept(j)
            BY <1>0, <1>1, <1>4, <2>2, SweptTable DEF Kept
        <3> QED
            BY <3>1 DEF KeyInv, LimiterInv, Orderly, Spaced, TailOf
    <2>3. CASE j # k /\ j \notin DOMAIN Swept
        <3>1. log'[j] = log[j] /\ Kept(j)' = <<>>
            BY <1>0, <1>1, <1>4, <2>3 DEF Kept
        <3>2. TailOf(<<>>, log[j], clock)
            BY <2>3, SweptTail
        <3> QED
            BY <3>1, <3>2 DEF KeyInv, LimiterInv, Orderly, Spaced, TailOf
    <2> QED
        BY <2>1, <2>2, <2>3
<1> QED
    BY <1>5, <1>6, <1>7, <1>8 DEF LimiterInv, KeyInv

(* A refusal sweeps the table, too.                                           *)
LEMMA DenyStep ==
    ASSUME LimiterInv, NEW k \in Keys, Deny(k), clock' = clock
    PROVE  LimiterInv'
<1>0. /\ clock \in Nat /\ log \in [Keys -> Seq(Nat)] /\ DOMAIN windows \subseteq Keys
    BY DEF LimiterInv, Typed
<1>1. windows' = Swept /\ log' = log
    BY DEF Deny
<1>2. DOMAIN windows' = DOMAIN Swept /\ \A j \in DOMAIN Swept : windows'[j] = windows[j]
    BY <1>1, SweptTable
<1>3. Typed'
    <2>1. windows' \in [DOMAIN windows' -> Seq(Nat)]
        BY <1>1, SweptTable DEF Swept
    <2> QED
        BY <1>0, <1>1, <1>2, <2>1, SweptTable DEF Typed
<1>4. Cardinality(DOMAIN windows') <= MaxWindows
    <2>1. Cardinality(DOMAIN windows) <= MaxWindows /\ MaxWindows \in Nat
        BY Amounts DEF LimiterInv
    <2>2. Cardinality(DOMAIN windows) \in Nat
        BY FS_CardinalityType DEF LimiterInv, Typed
    <2> QED
        BY <1>2, <2>1, <2>2, SweptTable
<1>5. \A j \in DOMAIN windows' : windows'[j] # <<>>
    BY <1>2, SweptTable DEF LimiterInv
<1>6. ASSUME NEW j \in Keys PROVE KeyInv(j)'
    <2>1. CASE j \in DOMAIN Swept
        <3>1. log'[j] = log[j] /\ Kept(j)' = Kept(j)
            BY <1>1, <1>2, <2>1, SweptTable DEF Kept
        <3> QED
            BY <3>1 DEF KeyInv, LimiterInv, Orderly, Spaced, TailOf
    <2>2. CASE j \notin DOMAIN Swept
        <3>1. log'[j] = log[j] /\ Kept(j)' = <<>>
            BY <1>1, <1>2, <2>2 DEF Kept
        <3>2. TailOf(<<>>, log[j], clock)
            BY <2>2, SweptTail
        <3> QED
            BY <3>1, <3>2 DEF KeyInv, LimiterInv, Orderly, Spaced, TailOf
    <2> QED
        BY <2>1, <2>2
<1> QED
    BY <1>3, <1>4, <1>5, <1>6 DEF LimiterInv, KeyInv

(* What was old stays old.                                                    *)
LEMMA StaysTail ==
    ASSUME NEW w \in Seq(Nat), NEW l \in Seq(Nat), NEW now \in Nat, TailOf(w, l, now)
    PROVE  TailOf(w, l, now + 1)
<1>0. Len(w) \in Nat /\ Len(l) \in Nat /\ \A i \in 1..Len(l) : l[i] \in Nat
    BY LenProperties, ElementOfSeq
<1>1. ASSUME NEW i \in 1..(Len(l) - Len(w)) PROVE (now + 1) - l[i] >= Minute
    <2>1. now - l[i] >= Minute /\ l[i] \in Nat
        BY <1>0 DEF TailOf
    <2> QED
        BY <2>1, Amounts
<1> QED
    BY <1>1 DEF TailOf

LEMMA TickStep ==
    ASSUME LimiterInv, Tick
    PROVE  LimiterInv'
<1>0. /\ clock \in Nat /\ clock' = clock + 1 /\ windows' = windows /\ log' = log
      /\ log \in [Keys -> Seq(Nat)] /\ Minute \in Nat
    BY Amounts DEF LimiterInv, Typed, Tick
<1>1. ASSUME NEW k \in Keys PROVE KeyInv(k)'
    <2>1. /\ Kept(k)' = Kept(k)
          /\ \A i \in 1..Len(log[k]) : log[k][i] \in Nat
          /\ Len(log[k]) \in Nat
        BY <1>0, LenProperties, ElementOfSeq DEF Kept
    <2>2. Orderly(log[k], clock) /\ Spaced(log[k], Limit[k[1]]) /\ TailOf(Kept(k), log[k], clock)
        BY DEF LimiterInv
    <2>3. Orderly(log[k], clock)'
        BY <1>0, <2>1, <2>2 DEF Orderly
    <2>4. TailOf(Kept(k), log[k], clock)'
        <3>1. Kept(k) \in Seq(Nat) /\ log[k] \in Seq(Nat)
            BY <1>0, EmptySeq DEF Kept, LimiterInv, Typed
        <3>2. TailOf(Kept(k), log[k], clock + 1)
            BY <1>0, <2>2, <3>1, StaysTail
        <3> QED
            BY <1>0, <2>1, <3>2 DEF TailOf
    <2> QED
        BY <1>0, <2>2, <2>3, <2>4 DEF KeyInv, Spaced
<1>2. Typed'
    BY <1>0 DEF LimiterInv, Typed
<1> QED
    BY <1>0, <1>1, <1>2 DEF LimiterInv, KeyInv

(* A new process knows of no admission.                                       *)
LEMMA NothingAdmitted ==
    ASSUME windows = <<>>, log = EmptyLog, clock \in Nat
    PROVE  LimiterInv
<1>1. DOMAIN windows = {} /\ IsFiniteSet({}) /\ Cardinality({}) = 0
    BY FS_EmptySet
<1>2. <<>> \in Seq(Nat) /\ Len(<<>>) = 0
    BY EmptySeq
<1>3. \A k \in Keys : log[k] = <<>> /\ Kept(k) = <<>>
    BY <1>1 DEF EmptyLog, Kept
<1>4. ASSUME NEW k \in Keys PROVE KeyInv(k)
    BY <1>2, <1>3 DEF KeyInv, Orderly, Spaced, TailOf
<1>5. Typed
    BY <1>1, <1>2 DEF Typed, EmptyLog
<1> QED
    BY <1>1, <1>4, <1>5, Amounts DEF LimiterInv, KeyInv

LEMMA RestartStep ==
    ASSUME LimiterInv, Restart
    PROVE  LimiterInv'
<1>1. windows' = <<>> /\ log' = EmptyLog /\ clock' = clock
    BY DEF Restart
<1>2. clock' \in Nat
    BY <1>1 DEF LimiterInv, Typed
<1>3. (windows = <<>>)' /\ (log = EmptyLog)' /\ (clock \in Nat)'
    BY <1>1, <1>2 DEF EmptyLog
<1> QED
    BY <1>3, NothingAdmitted, PTL

LEMMA LimiterStep == LimiterInv /\ [Next]_vars => LimiterInv'
<1> SUFFICES ASSUME LimiterInv, [Next]_vars PROVE LimiterInv'
    OBVIOUS
<1>1. CASE UNCHANGED <<clock, windows, log>>
    BY <1>1 DEF LimiterInv, Typed, Kept, Orderly, Spaced, TailOf
<1>2. ASSUME NEW r \in Requests, Admitted(r) PROVE LimiterInv'
    BY <1>2, GrantStep DEF Admitted
<1>3. ASSUME NEW r \in Requests, RateLimited(r) PROVE LimiterInv'
    BY <1>3, DenyStep DEF RateLimited
<1> QED
    BY <1>1, <1>2, <1>3, RestartStep, TickStep DEF Next, Insecure, Unlimited, vars

(* The answers of the checks, none of which is 429.                           *)
Codes == {400, 401, 404, 405, 409, 413, 422}

Checks == BOOLEAN \X Codes

LEMMA Pairs ==
    /\ <<>> \in Seq(Checks)
    /\ \A a \in Checks : <<a>> \in Seq(Checks)
    /\ \A a, b \in Checks : <<a, b>> \in Seq(Checks)
    /\ \A a, b, c \in Checks : <<a, b, c>> \in Seq(Checks)
OBVIOUS

LEMMA BadIsCheck ==
    ASSUME NEW r, NEW flaw, NEW status \in Codes
    PROVE  Bad(r, flaw, status) \in Checks
<1>1. \A b \in BOOLEAN : <<b, status>> \in Checks
    BY DEF Checks
<1>2. CASE flaw \in r.wrong
    <2>1. Bad(r, flaw, status) = <<TRUE, status>>
        BY <1>2 DEF Bad
    <2> QED
        BY <1>1, <2>1
<1>3. CASE flaw \notin r.wrong
    <2>1. (flaw \in r.wrong) = FALSE
        BY <1>3
    <2>2. Bad(r, flaw, status) = <<FALSE, status>>
        BY <2>1, Zenon DEF Bad
    <2> QED
        BY <1>1, <2>2
<1> QED
    BY <1>2, <1>3

LEMMA RefusalsAreChecks ==
    ASSUME NEW r \in Requests
    PROVE  Refusals(r) \in Seq(Checks)
<1>0. Route[r.path] \in Routes
    BY GateAssumption DEF Requests
<1>3. /\ Bad(r, "length", 413) \in Checks /\ Bad(r, "body", 400) \in Checks
      /\ Bad(r, "method", 405) \in Checks /\ Bad(r, "credentials", 401) \in Checks
      /\ Bad(r, "content", 422) \in Checks /\ Bad(r, "version", 409) \in Checks
      /\ <<TRUE, 404>> \in Checks
    <2>1. /\ 413 \in Codes /\ 400 \in Codes /\ 405 \in Codes /\ 401 \in Codes /\ 422 \in Codes
          /\ 409 \in Codes /\ 404 \in Codes
        BY DEF Codes
    <2>2. <<TRUE, 404>> \in Checks
        BY <2>1 DEF Checks
    <2> QED
        BY <2>1, <2>2, BadIsCheck
<1> HIDE DEF Bad
<1>4. Common(r) \in Seq(Checks) /\ ServiceRoute(r) \in Seq(Checks)
    BY <1>3, Pairs DEF Common, ServiceRoute
<1>5. SessionRoute(r) \in Seq(Checks)
    <2>1. /\ <<Bad(r, "method", 405), Bad(r, "credentials", 401)>> \in Seq(Checks)
          /\ <<Bad(r, "content", 422), Bad(r, "version", 409)>> \in Seq(Checks)
          /\ <<>> \in Seq(Checks)
        BY <1>3, Pairs
    <2>2. \A s, t \in Seq(Checks) : s \o t \in Seq(Checks)
        BY ConcatProperties
    <2> QED
        BY <2>1, <2>2 DEF SessionRoute
<1>6. ASSUME NEW tail \in Seq(Checks) PROVE Common(r) \o tail \in Seq(Checks)
    BY <1>4, ConcatProperties
<1>7. << <<TRUE, 404>> >> \in Seq(Checks) /\ <<Bad(r, "method", 405)>> \in Seq(Checks)
      /\ <<Bad(r, "method", 405), Bad(r, "content", 422)>> \in Seq(Checks)
    BY <1>3, Pairs
<1>8. CASE Route[r.path] \in {"live", "ready"}
    BY <1>6, <1>7, <1>8 DEF Refusals
<1>9. CASE Route[r.path] = "none"
    BY <1>6, <1>7, <1>9 DEF Refusals
<1>10. CASE Route[r.path] = "login"
    BY <1>6, <1>7, <1>10 DEF Refusals
<1>11. CASE Route[r.path] \in {"redeem", "progress", "quest", "rooms"}
    BY <1>4, <1>6, <1>11 DEF Refusals
<1>12. CASE Route[r.path] \in {"maps", "logout", "ticket", "allocate"}
    BY <1>5, <1>6, <1>12 DEF Refusals
<1> QED
    BY <1>0, <1>8, <1>9, <1>10, <1>11, <1>12 DEF Routes

(* The first refusal that applies, or what the outcome is made into.           *)
LEMMA Answered ==
    ASSUME NEW r \in Requests, Answer(r)
    PROVE  \/ answer'.status \in Codes /\ answer'.outcome = Unasked
           \/ \E outcome \in Possible(r.path) :
                 answer' = [status |-> Status(r.path, outcome), outcome |-> outcome]
<1> DEFINE list == Refusals(r)
           hits == {i \in DOMAIN list : list[i][1]}
<1>1. list \in Seq(Checks)
    BY RefusalsAreChecks
<1>2. DOMAIN list = 1..Len(list) /\ Len(list) \in Nat /\ \A i \in DOMAIN list : list[i][2] \in Codes
    <2> HIDE DEF list
    <2>1. DOMAIN list = 1..Len(list) /\ Len(list) \in Nat /\ \A i \in DOMAIN list : list[i] \in Checks
        BY <1>1, LenProperties, ElementOfSeq
    <2> QED
        BY <2>1 DEF Checks
<1>3. CASE hits # {}
    <2>1. \E i \in hits : \A j \in hits : i <= j
        <3>1. hits \in SUBSET Nat
            BY <1>2
        <3> HIDE DEF hits, list
        <3> QED
            BY <1>3, <3>1, HasLeast
    <2> DEFINE i == CHOOSE i \in hits : \A j \in hits : i <= j
    <2>2. i \in hits
        <3> HIDE DEF hits
        <3> QED
            BY <2>1
    <2>3. answer' = [status |-> list[i][2], outcome |-> Unasked]
        BY <1>3 DEF Answer
    <2>4. list[i][2] \in Codes
        <3> HIDE DEF list, i
        <3> QED
            BY <1>2, <2>2
    <2> HIDE DEF i, list
    <2> QED
        BY <2>3, <2>4
<1>4. CASE hits = {}
    BY <1>4 DEF Answer
<1> QED
    BY <1>3, <1>4

(* What the statuses of an outcome are.                                       *)
LEMMA StatusOfOutcome ==
    ASSUME NEW path \in Paths, NEW outcome \in Possible(path)
    PROVE  /\ outcome \in Outcomes
           /\ Status(path, outcome) \in {200, 401, 409, 422, 503}
           /\ outcome = "failed" => Status(path, outcome) = 503
<1>1. outcome \in Outcomes
    BY DEF Possible, Outcomes
<1>2. /\ DbError(outcome) \in {200, 401, 409, 503}
      /\ outcome = "failed" => DbError(outcome) = 503
    BY <1>1 DEF DbError, Outcomes
<1>3. \/ Status(path, outcome) = DbError(outcome)
      \/ Status(path, outcome) = 422 /\ outcome = "rejected"
      \/ Status(path, outcome) = 409 /\ outcome = "none"
      \/ Status(path, outcome) = 503
    BY DEF Status
<1> QED
    BY <1>1, <1>2, <1>3

AnswerInv ==
    /\ answer.status \in {0, 200, 400, 401, 404, 405, 409, 413, 422, 429, 503}
    /\ answer.outcome \in Outcomes \cup {Unasked}
    /\ UnsureIsUnavailable

LEMMA AnswerTyped ==
    ASSUME NEW r \in Requests, Answer(r)
    PROVE  AnswerInv' /\ answer'.status \notin {0, 429}
<1>1. CASE answer'.status \in Codes /\ answer'.outcome = Unasked
    BY <1>1 DEF AnswerInv, UnsureIsUnavailable, Codes, Unasked
<1>2. ASSUME NEW outcome \in Possible(r.path),
             answer' = [status |-> Status(r.path, outcome), outcome |-> outcome]
      PROVE  AnswerInv' /\ answer'.status \notin {0, 429}
    <2>1. r.path \in Paths
        BY DEF Requests
    <2>2. /\ outcome \in Outcomes
          /\ Status(r.path, outcome) \in {200, 401, 409, 422, 503}
          /\ outcome = "failed" => Status(r.path, outcome) = 503
        BY <2>1, StatusOfOutcome
    <2>3. answer'.status = Status(r.path, outcome) /\ answer'.outcome = outcome
        BY <1>2
    <2> QED
        BY <2>2, <2>3 DEF AnswerInv, UnsureIsUnavailable
<1> QED
    BY <1>1, <1>2, Answered

LEMMA AnswerStep == AnswerInv /\ [Next]_vars => AnswerInv'
<1> SUFFICES ASSUME AnswerInv, [Next]_vars PROVE AnswerInv'
    OBVIOUS
<1>1. ASSUME NEW status \in {0, 400, 429}, answer' = [status |-> status, outcome |-> Unasked]
      PROVE  AnswerInv'
    BY <1>1 DEF AnswerInv, UnsureIsUnavailable, Unasked
<1>2. ASSUME NEW r \in Requests, Insecure(r) \/ RateLimited(r) PROVE AnswerInv'
    BY <1>1, <1>2 DEF Insecure, RateLimited, Refuse
<1>3. ASSUME NEW r \in Requests, Unlimited(r) \/ Admitted(r) PROVE AnswerInv'
    BY <1>3, AnswerTyped DEF Unlimited, Admitted
<1>4. CASE Restart
    BY <1>1, <1>4 DEF Restart, NoAnswer
<1>5. CASE UNCHANGED answer
    BY <1>5 DEF AnswerInv, UnsureIsUnavailable
<1> QED
    BY <1>2, <1>3, <1>4, <1>5 DEF Next, Tick, vars

(* For every table size, all limits and any number of clients: the windows are *)
(* the recent ends of the logs.                                               *)
THEOREM GateSafe == Spec => [](LimiterInv /\ AnswerInv)
<1>1. Init => LimiterInv /\ AnswerInv
    BY NothingAdmitted DEF Init, AnswerInv, UnsureIsUnavailable, NoAnswer, Unasked
<1> QED
    BY <1>1, LimiterStep, AnswerStep, PTL DEF Spec

InTime == clock \in 0..MaxClock

(* The variables keep their types.                                           *)
THEOREM GateTyped == Spec => []TypeOK
<1>1. Init => InTime
    BY GateAssumption DEF Init, InTime
<1>2. InTime /\ [Next]_vars => InTime'
    <2>1. [Next]_vars => \/ clock' = clock
                         \/ clock < MaxClock /\ clock' = clock + 1
        BY DEF Next, Insecure, Unlimited, Admitted, RateLimited, Restart, Tick, vars
    <2> QED
        BY <2>1, GateAssumption DEF InTime
<1>3. InTime /\ LimiterInv /\ AnswerInv => TypeOK
    BY DEF InTime, LimiterInv, Typed, AnswerInv, TypeOK
<1> QED
    BY <1>1, <1>2, <1>3, GateSafe, PTL DEF Spec

(* Limit + 1 admissions of a key in a row span at least a minute.              *)
THEOREM LimitSlides == Spec => []SlidingLimit
<1>1. LimiterInv => SlidingLimit
    <2> SUFFICES ASSUME LimiterInv, NEW k \in Keys, NEW i \in DOMAIN log[k], i > Limit[k[1]]
                 PROVE  log[k][i] - log[k][i - Limit[k[1]]] >= Minute
        BY DEF SlidingLimit
    <2>1. log[k] \in Seq(Nat) /\ Spaced(log[k], Limit[k[1]])
        BY DEF LimiterInv, Typed
    <2>2. DOMAIN log[k] = 1..Len(log[k])
        BY <2>1, LenProperties
    <2> QED
        BY <2>1, <2>2 DEF Spaced
<1> QED
    BY <1>1, GateSafe, PTL

(* What the table holds of a key is the end of its log, the rest is old.       *)
THEOREM WindowsTail == Spec => []WindowsAreTails
<1>1. LimiterInv => WindowsAreTails
    <2> SUFFICES ASSUME LimiterInv, NEW k \in Keys
                 PROVE  LET dropped == Len(log[k]) - Len(Kept(k))
                        IN  /\ dropped >= 0
                            /\ \A i \in 1..Len(Kept(k)) : Kept(k)[i] = log[k][dropped + i]
                            /\ \A i \in 1..dropped : Old(log[k][i])
        BY DEF WindowsAreTails, LimiterInv
    <2>1. TailOf(Kept(k), log[k], clock)
        BY DEF LimiterInv
    <2>2. Kept(k) \in Seq(Nat) /\ log[k] \in Seq(Nat)
        BY EmptySeq DEF Kept, LimiterInv, Typed
    <2>3. Len(Kept(k)) \in Nat /\ Len(log[k]) \in Nat
        BY <2>2, LenProperties
    <2> QED
        BY <2>1, <2>3 DEF TailOf, Old
<1> QED
    BY <1>1, GateSafe, PTL

(* An error that leaves the outcome open is answered 503.                      *)
THEOREM UnsureIsAnswered503 == Spec => []UnsureIsUnavailable
<1>1. AnswerInv => UnsureIsUnavailable
    BY DEF AnswerInv
<1> QED
    BY <1>1, GateSafe, PTL

(* The keys of the swept table are those admitted within the last minute.      *)
LEMMA SweptIsActive ==
    ASSUME LimiterInv
    PROVE  DOMAIN Swept = {j \in Keys : Book!Active(j)}
<1>0. clock \in Nat /\ Minute \in Nat
    BY Amounts DEF LimiterInv, Typed
<1>1. ASSUME NEW j \in DOMAIN Swept PROVE j \in Keys /\ Book!Active(j)
    <2>1. /\ j \in DOMAIN windows /\ windows[j] \in Seq(Nat) /\ windows[j] # <<>>
          /\ ~Old(windows[j][Len(windows[j])]) /\ j \in Keys
        BY SweptTable DEF LimiterInv, Typed
    <2>2. log[j] \in Seq(Nat) /\ Kept(j) = windows[j] /\ TailOf(windows[j], log[j], clock)
        BY <2>1 DEF Kept, LimiterInv, Typed
    <2>3. /\ Len(windows[j]) \in Nat /\ Len(windows[j]) > 0 /\ Len(log[j]) \in Nat
          /\ \A i \in 1..Len(log[j]) : log[j][i] \in Nat
        BY <2>1, <2>2, LenProperties, EmptySeq, ElementOfSeq
    <2>4. (Len(log[j]) - Len(windows[j])) + Len(windows[j]) = Len(log[j]) /\ Len(log[j]) > 0
        BY <2>2, <2>3 DEF TailOf
    <2>5. windows[j][Len(windows[j])] = log[j][Len(log[j])]
        <3> DEFINE w == windows[j]
                   l == log[j]
        <3>1. /\ TailOf(w, l, clock) /\ Len(w) \in 1..Len(w)
              /\ (Len(l) - Len(w)) + Len(w) = Len(l)
            BY <2>2, <2>3, <2>4
        <3> HIDE DEF w, l
        <3>2. w[Len(w)] = l[(Len(l) - Len(w)) + Len(w)]
            BY <3>1 DEF TailOf
        <3> QED
            BY <3>1, <3>2 DEF w, l
    <2>6. log[j] # <<>> /\ log[j][Len(log[j])] \in Nat
        BY <2>3, <2>4, EmptySeq
    <2> QED
        BY <1>0, <2>1, <2>5, <2>6 DEF Book!Active, Book!Recent, Old
<1>2. ASSUME NEW j \in Keys, Book!Active(j) PROVE j \in DOMAIN Swept
    <2> SUFFICES ASSUME j \notin DOMAIN Swept PROVE FALSE
        OBVIOUS
    <2>1. TailOf(<<>>, log[j], clock) /\ log[j] \in Seq(Nat) /\ log[j] # <<>>
        BY <1>2, SweptTail DEF LimiterInv, Typed, Book!Active
    <2>2. /\ Len(log[j]) \in Nat /\ Len(log[j]) > 0 /\ Len(<<>>) = 0
          /\ \A i \in 1..Len(log[j]) : log[j][i] \in Nat
        BY <2>1, LenProperties, EmptySeq, ElementOfSeq
    <2>3. clock - log[j][Len(log[j])] >= Minute /\ log[j][Len(log[j])] \in Nat
        BY <2>1, <2>2 DEF TailOf
    <2> QED
        BY <1>0, <1>2, <2>3 DEF Book!Active, Book!Recent
<1> QED
    BY <1>1, <1>2

(* The window is full exactly when the Limit-th last admission is recent.      *)
LEMMA FullIsUsedUp ==
    ASSUME LimiterInv, NEW k \in Keys
    PROVE  Len(Window(k)) >= Limit[k[1]] <=> Book!UsedUp(k)
<1> DEFINE w == Window(k)
           l == log[k]
           n == Limit[k[1]]
<1>0. /\ w \in Seq(Nat) /\ l \in Seq(Nat) /\ n \in Nat /\ n > 0 /\ clock \in Nat /\ Minute \in Nat
      /\ TailOf(w, l, clock) /\ Orderly(l, clock)
      /\ Len(w) > 0 => ~Old(w[1])
    BY WindowTail, Amounts DEF LimiterInv, Typed
<1>1. Book!UsedUp(k) <=> Len(l) >= n /\ clock - l[(Len(l) - n) + 1] < Minute
    BY DEF Book!UsedUp, Book!Recent, KeyLimit
<1> HIDE DEF w, l, n
<1>2. Len(w) \in Nat /\ Len(l) \in Nat /\ \A i \in 1..Len(l) : l[i] \in Nat
    BY <1>0, LenProperties, ElementOfSeq
<1> DEFINE at == (Len(l) - n) + 1
<1>3. ASSUME Len(w) >= n PROVE Len(l) >= n /\ clock - l[at] < Minute
    <2> DEFINE first == (Len(l) - Len(w)) + 1
    <2>1. /\ Len(w) > 0 /\ 1 \in 1..Len(w) /\ first \in 1..Len(l) /\ at \in 1..Len(l) /\ first <= at
          /\ Len(l) >= n
        BY <1>0, <1>2, <1>3 DEF TailOf
    <2>2. w[1] = l[first]
        BY <1>0, <2>1 DEF TailOf
    <2>3. l[first] <= l[at] /\ l[first] \in Nat /\ l[at] \in Nat
        BY <1>0, <1>2, <2>1 DEF Orderly
    <2>4. ~(clock - l[first] >= Minute)
        BY <1>0, <2>1, <2>2 DEF Old
    <2> HIDE DEF first, at
    <2>5. clock - l[at] < Minute
        BY <1>0, <2>3, <2>4
    <2> QED
        BY <2>1, <2>5
<1>4. ASSUME Len(l) >= n, clock - l[at] < Minute PROVE Len(w) >= n
    <2> SUFFICES ASSUME Len(w) < n PROVE FALSE
        BY <1>0, <1>2
    <2>1. at \in 1..(Len(l) - Len(w)) /\ at \in 1..Len(l)
        BY <1>0, <1>2, <1>4
    <2>2. clock - l[at] >= Minute /\ l[at] \in Nat
        BY <1>0, <1>2, <2>1 DEF TailOf
    <2> HIDE DEF at
    <2> QED
        BY <1>0, <1>4, <2>2
<1> QED
    BY <1>1, <1>3, <1>4 DEF w, l, n

(* An admission and a refusal are the ones the book allows.                    *)
LEMMA BookStep == LimiterInv /\ [Next]_vars => [Book!Next]_(Book!book)
<1> SUFFICES ASSUME LimiterInv, [Next]_vars PROVE [Book!Next]_(Book!book)
    OBVIOUS
<1> USE DEF Book!book, Book!Next
<1>1. ASSUME NEW r \in Requests, Insecure(r) PROVE Book!Pass
    BY <1>1 DEF Insecure, Refuse, Book!Pass
<1>2. ASSUME NEW r \in Requests, Unlimited(r) PROVE Book!Pass
    BY <1>2, AnswerTyped DEF Unlimited, Book!Pass
<1>3. ASSUME NEW r \in Requests, Admitted(r) PROVE \E j \in Keys : Book!Admit(j)
    <2> DEFINE k == <<r.path, r.ip>>
    <2>1. k \in Keys /\ Grant(k) /\ answer'.status # 429 /\ clock' = clock
        BY <1>3, AnswerTyped DEF Admitted
    <2> HIDE DEF k
    <2>2. ~Book!UsedUp(k)
        <3>1. Len(Window(k)) < Limit[k[1]] /\ Limit[k[1]] \in Nat
            BY <2>1, Amounts DEF Grant, Granted
        <3>2. Len(Window(k)) \in Nat
            BY <2>1, WindowTail, LenProperties
        <3> QED
            BY <2>1, <3>1, <3>2, FullIsUsedUp
    <2>3. log' = [log EXCEPT ![k] = Append(@, clock)]
        BY <2>1 DEF Grant
    <2> QED
        BY <2>1, <2>2, <2>3 DEF Book!Admit
<1>4. ASSUME NEW r \in Requests, RateLimited(r) PROVE \E j \in Keys : Book!TurnAway(j)
    <2> DEFINE k == <<r.path, r.ip>>
    <2>1. /\ k \in Keys /\ ~Granted(k) /\ log' = log /\ clock' = clock
          /\ answer'.status = 429
        BY <1>4 DEF RateLimited, Deny, Refuse
    <2> HIDE DEF k
    <2>2. Book!UsedUp(k) \/ Book!Crowded(k)
        <3>1. CASE TableFull(k)
            <4>1. k \notin DOMAIN Swept /\ Cardinality(DOMAIN Swept) >= MaxWindows
                BY <3>1 DEF TableFull
            <4>2. DOMAIN Swept = {j \in Keys : Book!Active(j)}
                BY SweptIsActive
            <4>3. ~Book!Active(k)
                BY <2>1, <4>1, <4>2
            <4>4. Cardinality({j \in Keys : Book!Active(j)}) >= MaxWindows
                <5> DEFINE C == Cardinality(DOMAIN Swept)
                <5>1. C >= MaxWindows
                    BY <4>1
                <5>2. C = Cardinality({j \in Keys : Book!Active(j)})
                    BY <4>2, Zenon
                <5> QED
                    BY <5>1, <5>2, Zenon
            <4> QED
                BY <4>3, <4>4, Zenon DEF Book!Crowded, Book!Cardinality, Cardinality,
                   Book!IsFiniteSet, IsFiniteSet
        <3>2. CASE ~TableFull(k)
            <4>1. Len(Window(k)) \in Nat /\ Limit[k[1]] \in Nat
                BY <2>1, WindowTail, LenProperties, Amounts
            <4>2. Len(Window(k)) >= Limit[k[1]]
                BY <2>1, <3>2, <4>1 DEF Granted
            <4> QED
                BY <2>1, <4>2, FullIsUsedUp
        <3> QED
            BY <3>1, <3>2
    <2> QED
        BY <2>1, <2>2 DEF Book!TurnAway
<1>5. CASE Restart
    BY <1>5 DEF Restart, NoAnswer, EmptyLog, Book!Forget
<1>6. CASE Tick
    BY <1>6 DEF Tick, Book!Wait
<1>7. CASE UNCHANGED vars
    BY <1>7 DEF vars
<1> QED
    BY <1>1, <1>2, <1>3, <1>4, <1>5, <1>6, <1>7 DEF Next

(* The table with its sweeps and its limit decides as AdmissionBook says.       *)
THEOREM GateImplementsBook == Spec => ImplementsAdmissionBook
<1>1. Init => Book!Init
    BY DEF Init, Book!Init, EmptyLog, NoAnswer
<1> QED
    BY <1>1, BookStep, GateSafe, PTL DEF Spec, ImplementsAdmissionBook, Book!Spec
=============================================================================
