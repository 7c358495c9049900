---------------------------- MODULE FlatHashProofs ----------------------------
(***************************************************************************)
(* For every capacity, load cap and hash function: the table always has an *)
(* empty slot (TableInv: size counts the occupied slots, and the hole of a *)
(* running erase is one of them); an erase leaves it as if its key had     *)
(* never been inserted (ProbeInv: the way of an entry is taken by older    *)
(* ones, but for a hole it has still to be tried against, and what the     *)
(* hole holds is stale); and it is a map of bounded size (ScanReads: the   *)
(* scan behind the refinement finds one value a key).                      *)
(***************************************************************************)
EXTENDS FlatHash, FiniteSetTheorems, TLAPS

Occupied == {s \in Slots : slots[s].key # NoKey}

TableInv ==
  /\ TypeOK
  /\ size = Cardinality(Occupied)
  /\ pc = "shift" => i \in Occupied

LEMMA LoadCapBelow == LoadCap \in Nat /\ LoadCap < CapacityPow2
<1> DEFINE p == CapacityPow2 * MaxLoadPct
           q == p \div 100
<1>1. CapacityPow2 \in Nat /\ CapacityPow2 >= 4 /\ MaxLoadPct \in Nat /\ MaxLoadPct <= 90
  BY HashAssumption
<1>2. p \in Nat /\ p <= CapacityPow2 * 90
  BY <1>1
<1> HIDE DEF p
<1>3. q \in Nat /\ 100 * q <= p
  BY <1>2
<1> HIDE DEF q
<1>4. q < CapacityPow2
  BY <1>1, <1>2, <1>3
<1> QED BY <1>3, <1>4 DEF LoadCap, p, q

LEMMA SlotsFinite == IsFiniteSet(Slots) /\ Cardinality(Slots) = CapacityPow2
<1>1. 0 \in Int /\ CapacityPow2 - 1 \in Int /\ CapacityPow2 >= 4 /\ CapacityPow2 \in Nat
  BY HashAssumption
<1>2. IsFiniteSet(0 .. CapacityPow2 - 1)
      /\ Cardinality(0 .. CapacityPow2 - 1) = IF 0 > CapacityPow2 - 1 THEN 0 ELSE (CapacityPow2 - 1) - 0 + 1
  BY <1>1, FS_Interval
<1> QED BY <1>1, <1>2 DEF Slots

LEMMA OccupiedFinite == IsFiniteSet(Occupied) /\ Cardinality(Occupied) \in Nat
<1>1. Occupied \subseteq Slots
  BY DEF Occupied
<1>2. IsFiniteSet(Occupied)
  BY <1>1, SlotsFinite, FS_Subset
<1> QED BY <1>2, FS_CardinalityType

LEMMA AfterType == ASSUME NEW s \in Slots PROVE After(s) \in Slots
BY HashAssumption DEF Slots, After

LEMMA TableInit == Init => TableInv
<1> SUFFICES ASSUME Init PROVE TableInv
  OBVIOUS
<1>1. 0 \in Slots /\ NoKey \in Keys \union {NoKey}
  BY HashAssumption DEF Slots
<1>2. TypeOK
  <2>1. slot_of \in [Keys -> Slots]
    BY HashAssumption DEF Init, Slots
  <2> QED BY <1>1, <2>1, LoadCapBelow DEF Init, TypeOK
<1>3. Occupied = {}
  BY DEF Init, Occupied
<1>4. Cardinality(Occupied) = 0
  BY <1>3, FS_EmptySet
<1> QED BY <1>2, <1>4 DEF Init, TableInv

LEMMA TableStep == TableInv /\ [Next]_vars => TableInv'
<1> SUFFICES ASSUME TableInv, [Next]_vars PROVE TableInv'
  OBVIOUS
<1> USE DEF TableInv
<1>0. /\ LoadCap \in Nat /\ LoadCap < CapacityPow2 /\ size \in 0 .. LoadCap /\ size \in Nat
      /\ IsFiniteSet(Occupied)
  BY LoadCapBelow, OccupiedFinite DEF TypeOK
<1>1. CASE UNCHANGED vars
  BY <1>1 DEF vars, table, erase, TypeOK, Occupied, Slots
<1>2. CASE InsertRefused
  BY <1>2 DEF InsertRefused, table, erase, TypeOK, Occupied
<1>3. ASSUME NEW k \in Keys, NEW v \in Vals, InsertNew(k, v) PROVE TableInv'
  <2>1. PICK s \in Slots : slots[s].key = NoKey /\ slots' = [slots EXCEPT ![s] = [key |-> k, val |-> v]]
    BY <1>3 DEF InsertNew, ProbeStops
  <2>2. k # NoKey /\ DOMAIN slots = Slots
    BY HashAssumption DEF TypeOK
  <2>3. Occupied' = Occupied \union {s} /\ s \notin Occupied
    BY <2>1, <2>2 DEF Occupied, Slots
  <2>4. Cardinality(Occupied') = Cardinality(Occupied) + 1
    BY <1>0, <2>3, FS_AddElement
  <2>5. size' = size + 1 /\ size < LoadCap /\ UNCHANGED <<slot_of, erase>> /\ ret' = TRUE
        /\ pc = "idle"
    BY <1>3 DEF InsertNew
  <2>6. slots' \in [Slots -> [key : Keys \union {NoKey}, val : Vals \union {NoVal}]]
    BY <2>1 DEF TypeOK
  <2>7. older' \in SUBSET (Keys \X Keys)
    BY <1>3 DEF InsertNew, TypeOK
  <2>8. TypeOK'
    BY <1>0, <2>5, <2>6, <2>7 DEF TypeOK, erase, Slots
  <2> QED BY <2>4, <2>5, <2>8 DEF erase
<1>4. ASSUME NEW k \in Keys, NEW v \in Vals, InsertOver(k, v) PROVE TableInv'
  <2>1. PICK s \in Slots : slots[s].key = k /\ slots' = [slots EXCEPT ![s].val = v]
    BY <1>4 DEF InsertOver, ProbeStops
  <2>2. slots' \in [Slots -> [key : Keys \union {NoKey}, val : Vals \union {NoVal}]]
    BY <2>1 DEF TypeOK
  <2>3. \A r \in Slots : slots'[r].key = slots[r].key
    BY <2>1 DEF TypeOK
  <2>4. Occupied' = Occupied
    BY <2>3 DEF Occupied, Slots
  <2>5. UNCHANGED <<slot_of, size, older, erase>> /\ ret' = TRUE
    BY <1>4 DEF InsertOver
  <2> QED BY <2>2, <2>4, <2>5 DEF TypeOK, erase, Slots
<1>5. ASSUME NEW k \in Keys, Find(k) PROVE TableInv'
  <2>1. PICK s \in Slots : ret' = IF slots[s].key = k THEN slots[s].val ELSE NoVal
    BY <1>5 DEF Find, ProbeStops
  <2>2. ret' \in Vals \union {NoVal}
    BY <2>1 DEF TypeOK
  <2> QED BY <1>5, <2>2 DEF Find, table, erase, TypeOK, Occupied, Slots
<1>6. ASSUME NEW k \in Keys, EraseAbsent(k) PROVE TableInv'
  BY <1>6 DEF EraseAbsent, table, erase, TypeOK, Occupied, Slots
<1>7. ASSUME NEW k \in Keys, EraseBegin(k) PROVE TableInv'
  <2>1. PICK s \in Slots : slots[s].key = k /\ i' = s /\ j' = s
    BY <1>7 DEF EraseBegin, ProbeStops
  <2>2. s \in Occupied
    BY <2>1, HashAssumption DEF Occupied
  <2> QED BY <1>7, <2>1, <2>2 DEF EraseBegin, table, TypeOK, Occupied, Slots
<1>8. CASE Shift
  <2> DEFINE s == After(j)
  <2>1. s \in Slots /\ slots[s].key # NoKey /\ j' = s /\ i \in Slots /\ i \in Occupied
    BY <1>8, AfterType DEF Shift, TypeOK
  <2>2. UNCHANGED <<slot_of, size, older, pc, key, ret>>
    BY <1>8 DEF Shift
  <2>3. CASE i' = s /\ slots' = [slots EXCEPT ![i] = slots[s]]
    <3>1. slots' \in [Slots -> [key : Keys \union {NoKey}, val : Vals \union {NoVal}]]
      BY <2>1, <2>3 DEF TypeOK
    <3>2. \A r \in Slots : (slots'[r].key # NoKey) <=> (slots[r].key # NoKey)
      BY <2>1, <2>3 DEF TypeOK, Occupied
    <3>3. Occupied' = Occupied
      BY <3>2 DEF Occupied, Slots
    <3>4. i' \in Occupied
      BY <2>1, <2>3 DEF Occupied
    <3> HIDE DEF s
    <3> QED BY <2>1, <2>2, <2>3, <3>1, <3>3, <3>4 DEF TypeOK, Slots
  <2>4. CASE UNCHANGED <<i, slots>>
    <3> HIDE DEF s
    <3> QED BY <2>1, <2>2, <2>4 DEF TypeOK, Occupied, Slots
  <2> QED BY <1>8, <2>3, <2>4 DEF Shift
<1>9. CASE EraseEnd
  <2>1. i \in Slots /\ i \in Occupied /\ slots' = [slots EXCEPT ![i].key = NoKey]
    BY <1>9 DEF EraseEnd, TypeOK
  <2>2. slots' \in [Slots -> [key : Keys \union {NoKey}, val : Vals \union {NoVal}]]
    BY <2>1 DEF TypeOK
  <2>3. \A r \in Slots : slots'[r].key = IF r = i THEN NoKey ELSE slots[r].key
    BY <2>1 DEF TypeOK
  <2>4. Occupied' = Occupied \ {i}
    BY <2>3 DEF Occupied, Slots
  <2>5. Cardinality(Occupied') = Cardinality(Occupied) - 1
    BY <1>0, <2>1, <2>4, FS_RemoveElement
  <2>6. Cardinality(Occupied') \in Nat
    <3>1. IsFiniteSet(Occupied')
      BY <1>0, <2>1, <2>4, FS_RemoveElement
    <3> QED BY <3>1, FS_CardinalityType
  <2>7. size' = size - 1 /\ size' \in 0 .. LoadCap
    BY <1>0, <1>9, <2>5, <2>6 DEF EraseEnd
  <2>8. older' \in SUBSET (Keys \X Keys)
    BY <1>9 DEF EraseEnd, TypeOK
  <2>9. 0 \in Slots
    BY HashAssumption DEF Slots
  <2>10. UNCHANGED slot_of /\ pc' = "idle" /\ key' = NoKey /\ i' = 0 /\ j' = 0 /\ ret' = TRUE
    BY <1>9 DEF EraseEnd
  <2>11. TypeOK'
    BY <2>2, <2>7, <2>8, <2>9, <2>10 DEF TypeOK, Slots
  <2> QED BY <2>5, <2>7, <2>10, <2>11
<1> QED BY <1>1, <1>2, <1>3, <1>4, <1>5, <1>6, <1>7, <1>8, <1>9 DEF Next, Call

LEMMA TableCorrect == Spec => []TableInv
BY TableInit, TableStep, PTL DEF Spec

\* The table's variables keep their types, and the count its cap.
THEOREM TableTypes == Spec => []TypeOK
BY TableCorrect, PTL DEF TableInv

LEMMA EmptySlot == TableInv => RoomToStop
<1> SUFFICES ASSUME TableInv, ~RoomToStop PROVE FALSE
  OBVIOUS
<1>1. Occupied = Slots
  BY DEF RoomToStop, Occupied
<1>2. size = CapacityPow2 /\ size <= LoadCap
  BY <1>1, SlotsFinite, LoadCapBelow DEF TableInv, TypeOK
<1> QED BY <1>2, LoadCapBelow, HashAssumption

\* There is always an empty slot, so every probe and every shift comes to one.
THEOREM NeverFull == Spec => []RoomToStop
BY EmptySlot, TableCorrect, PTL

-----------------------------------------------------------------------------
(* Distances around the table *)

LEMMA ModSmall == \A n \in Nat \ {0} : \A x \in Int : 0 <= x /\ x < n => x % n = x
OBVIOUS

LEMMA ModNeg == \A n \in Nat \ {0} : \A x \in Int : 0 - n <= x /\ x < 0 => x % n = x + n
OBVIOUS

LEMMA DistIs ==
  ASSUME NEW a \in Slots, NEW b \in Slots
  PROVE  /\ Dist(a, b) = IF b >= a THEN b - a ELSE (b - a) + CapacityPow2
         /\ Dist(a, b) \in Nat /\ Dist(a, b) < CapacityPow2
         /\ a \in Nat /\ b \in Nat /\ CapacityPow2 \in Nat
         /\ a < CapacityPow2 /\ b < CapacityPow2
<1>1. CapacityPow2 \in Nat \ {0} /\ a \in Nat /\ b \in Nat /\ a < CapacityPow2 /\ b < CapacityPow2
  BY HashAssumption DEF Slots
<1>2. CASE b >= a
  <2>1. (b - a) % CapacityPow2 = b - a
    BY <1>1, <1>2, ModSmall
  <2> QED BY <1>1, <1>2, <2>1 DEF Dist
<1>3. CASE ~ b >= a
  <2>1. (b - a) % CapacityPow2 = (b - a) + CapacityPow2
    BY <1>1, <1>3, ModNeg
  <2> QED BY <1>1, <1>3, <2>1 DEF Dist
<1> QED BY <1>1, <1>2, <1>3

LEMMA DistZero ==
  ASSUME NEW a \in Slots, NEW b \in Slots
  PROVE  Dist(a, b) = 0 <=> a = b
BY DistIs

LEMMA DistSame ==
  ASSUME NEW a \in Slots, NEW b \in Slots, NEW c \in Slots, Dist(a, b) = Dist(a, c)
  PROVE  b = c
BY DistIs

\* A slot on the way divides it, seen from the start and seen from the end.
LEMMA DistSplit ==
  ASSUME NEW a \in Slots, NEW b \in Slots, NEW c \in Slots,
         Dist(a, b) <= Dist(a, c) \/ Dist(b, c) <= Dist(a, c)
  PROVE  Dist(a, c) = Dist(a, b) + Dist(b, c)
<1> DEFINE ab == Dist(a, b)
           ac == Dist(a, c)
           bc == Dist(b, c)
           N == CapacityPow2
<1>1. /\ ab = IF b >= a THEN b - a ELSE (b - a) + N
      /\ ac = IF c >= a THEN c - a ELSE (c - a) + N
      /\ bc = IF c >= b THEN c - b ELSE (c - b) + N
      /\ a \in Nat /\ b \in Nat /\ c \in Nat /\ N \in Nat /\ a < N /\ b < N /\ c < N
  BY DistIs
<1>2. ab <= ac \/ bc <= ac
  OBVIOUS
<1> HIDE DEF ab, ac, bc, N
<1>3. ac = ab + bc
  BY <1>1, <1>2
<1> QED BY <1>3 DEF ab, ac, bc

LEMMA DistAfter ==
  ASSUME NEW a \in Slots, NEW b \in Slots
  PROVE  /\ After(b) \in Slots
         /\ Dist(a, After(b)) = IF Dist(a, b) + 1 = CapacityPow2 THEN 0 ELSE Dist(a, b) + 1
<1>1. /\ b \in Nat /\ CapacityPow2 \in Nat /\ b < CapacityPow2
      /\ \A n \in Nat \ {0} : \A x \in Int : 0 <= x /\ x < n => (x + 1) % n = IF x + 1 = n THEN 0 ELSE x + 1
  BY DistIs
<1>2. After(b) = IF b + 1 = CapacityPow2 THEN 0 ELSE b + 1
  BY <1>1 DEF After
<1>3. After(b) \in Slots
  BY AfterType
<1> QED BY <1>2, <1>3, DistIs

\* What lies past a slot on the way, and short of its end, is on the way.
LEMMA DistPassing ==
  ASSUME NEW a \in Slots, NEW b \in Slots, NEW c \in Slots, NEW d \in Slots,
         Dist(a, b) < Dist(a, d), Dist(b, c) < Dist(b, d)
  PROVE  Dist(a, c) < Dist(a, d)
<1>0. \A x, y \in Slots : Dist(x, y) \in Nat
  BY DistIs
<1>1. Dist(a, d) = Dist(a, b) + Dist(b, d)
  BY <1>0, DistSplit
<1>2. Dist(b, d) = Dist(b, c) + Dist(c, d)
  BY <1>0, DistSplit
<1>3. Dist(c, d) <= Dist(a, d)
  BY <1>0, <1>1, <1>2
<1>4. Dist(a, d) = Dist(a, c) + Dist(c, d)
  BY <1>3, DistSplit
<1> QED BY <1>0, <1>2, <1>4

\* One slot further.
LEMMA DistNext ==
  ASSUME NEW a \in Slots, NEW b \in Slots, NEW c \in Slots, After(b) # a
  PROVE  /\ Dist(a, After(b)) = Dist(a, b) + 1
         /\ c # After(b) => (Dist(a, c) <= Dist(a, After(b)) <=> Dist(a, c) <= Dist(a, b))
<1>0. \A x, y \in Slots : Dist(x, y) \in Nat
  BY DistIs
<1>1. After(b) \in Slots /\ Dist(a, After(b)) # 0
  BY DistAfter, DistZero
<1>2. Dist(a, After(b)) = Dist(a, b) + 1
  BY <1>1, DistAfter
<1>3. c # After(b) => Dist(a, c) # Dist(a, After(b))
  BY <1>1, DistSame
<1> QED BY <1>0, <1>1, <1>2, <1>3

-----------------------------------------------------------------------------
(* What a probe and a scan find *)

\* A stored entry: the hole of a running erase holds none.
Settled(t) == slots[t].key # NoKey /\ ~(pc = "shift" /\ t = i)

\* r comes before t on a probe for k.
Before(k, r, t) == Dist(slot_of[k], r) < Dist(slot_of[k], t)

\* The way of an entry is taken by older ones, but for a hole it has still to
\* be tried against.
WayTaken ==
  \A t, r \in Slots : Settled(t) /\ Before(slots[t].key, r, t) =>
    \/ Settled(r) /\ <<slots[r].key, slots[t].key>> \in older
    \/ pc = "shift" /\ r = i /\ Dist(i, j) < Dist(i, t)

KeysOnce == \A t, r \in Slots : Settled(t) /\ Settled(r) /\ slots[t].key = slots[r].key => t = r

\* While a shift runs its key is gone, and the hole holds that key's entry
\* still, or a copy of the one that moved last.
HoleStale ==
  IF pc = "shift"
  THEN /\ key \in Keys /\ \A t \in Slots : Settled(t) => slots[t].key # key
       /\ slots[i].key = key \/ \E t \in Slots : Settled(t) /\ slots[t] = slots[i]
       /\ \A r \in Slots : Dist(i, r) <= Dist(i, j) => slots[r].key # NoKey
  ELSE key = NoKey

ValsStored == \A t \in Slots : slots[t].key # NoKey => slots[t].val \in Vals

ProbeInv == WayTaken /\ KeysOnce /\ HoleStale /\ ValsStored

LEMMA SlotTypes ==
  ASSUME TypeOK
  PROVE  /\ \A s \in Slots : /\ slots[s].key \in Keys \union {NoKey}
                             /\ slots[s].val \in Vals \union {NoVal}
                             /\ slots[s] = [key |-> slots[s].key, val |-> slots[s].val]
         /\ \A k \in Keys : slot_of[k] \in Slots /\ k # NoKey
         /\ i \in Slots /\ j \in Slots
BY HashAssumption DEF TypeOK

\* Where a probe stops says whether its key is stored.
LEMMA ProbeSays ==
  ASSUME TypeOK, ProbeInv, pc = "idle", NEW k \in Keys, NEW s \in ProbeStops(k)
  PROVE  /\ s \in Slots /\ slots[s].key \in {k, NoKey}
         /\ \A r \in Slots : Before(k, r, s) => slots[r].key # NoKey /\ slots[r].key # k
         /\ slots[s].key = NoKey => \A t \in Slots : slots[t].key # k
<1>1. /\ s \in Slots /\ slots[s].key \in {k, NoKey}
      /\ \A r \in Slots : Before(k, r, s) => slots[r].key # NoKey /\ slots[r].key # k
  BY DEF ProbeStops, Before
<1>2. ASSUME slots[s].key = NoKey, NEW t \in Slots, slots[t].key = k PROVE FALSE
  <2>1. Settled(t) /\ t # s /\ slot_of[k] \in Slots /\ pc # "shift"
    BY <1>2, SlotTypes DEF Settled
  <2>2. ~ Before(k, t, s)
    BY <1>1, <1>2
  <2>3. Dist(slot_of[k], s) # Dist(slot_of[k], t)
    BY <1>1, <2>1, DistSame
  <2>4. Before(k, s, t)
    BY <1>1, <2>1, <2>2, <2>3, DistIs DEF Before
  <2>5. Settled(s)
    BY <1>1, <1>2, <2>1, <2>4 DEF ProbeInv, WayTaken
  <2> QED BY <1>2, <2>5 DEF Settled
<1> QED BY <1>1, <1>2

-----------------------------------------------------------------------------
(* The steps *)

LEMMA ProbeInit == Init => ProbeInv
<1> SUFFICES ASSUME Init PROVE ProbeInv
  OBVIOUS
<1>1. \A s \in Slots : slots[s].key = NoKey
  BY DEF Init
<1>2. \A s \in Slots : ~ Settled(s)
  BY <1>1 DEF Settled
<1> QED BY <1>1, <1>2 DEF Init, ProbeInv, WayTaken, KeysOnce, HoleStale, ValsStored

LEMMA ProbeInsert ==
  ASSUME TypeOK, ProbeInv, NEW k \in Keys, NEW v \in Vals, InsertNew(k, v)
  PROVE  ProbeInv'
<1>1. PICK s \in ProbeStops(k) : slots[s].key = NoKey /\ slots' = [slots EXCEPT ![s] = [key |-> k, val |-> v]]
  BY DEF InsertNew
<1>2. /\ pc = "idle" /\ UNCHANGED <<slot_of, pc, key, i, j>>
      /\ older' = older \union ({slots[r].key : r \in Slots} \ {NoKey}) \X {k}
  BY DEF InsertNew, erase
<1>3. /\ s \in Slots /\ k # NoKey
      /\ \A r \in Slots : Before(k, r, s) => slots[r].key # NoKey
      /\ \A t \in Slots : slots[t].key # k
  BY <1>1, <1>2, ProbeSays, SlotTypes
<1>4. \A t \in Slots : slots'[t] = IF t = s THEN [key |-> k, val |-> v] ELSE slots[t]
  BY <1>1, <1>3 DEF TypeOK
<1>5. \A t \in Slots : /\ t # s => slots'[t].key = slots[t].key
                       /\ Settled(t)' <=> t = s \/ Settled(t)
                       /\ Settled(t) <=> slots[t].key # NoKey
  BY <1>2, <1>3, <1>4 DEF Settled
<1>6. slots'[s].key = k /\ slots'[s].val = v /\ ~ Settled(s)
  BY <1>1, <1>3, <1>4 DEF Settled
<1>7. WayTaken'
  <2> SUFFICES ASSUME NEW t \in Slots, NEW r \in Slots, Settled(t)', Before(slots[t].key, r, t)'
               PROVE  Settled(r)' /\ <<slots'[r].key, slots'[t].key>> \in older'
    BY DEF WayTaken
  <2>1. Before(slots'[t].key, r, t)
    BY <1>2 DEF Before
  <2>2. CASE t = s
    <3>1. slots[r].key # NoKey /\ r # s
      BY <1>3, <1>6, <2>1, <2>2, <1>1
    <3> QED BY <1>2, <1>5, <1>6, <2>2, <3>1
  <2>3. CASE t # s
    <3>1. Settled(t) /\ slots'[t].key = slots[t].key
      BY <1>5, <2>3
    <3>2. Settled(r) /\ <<slots[r].key, slots[t].key>> \in older
      BY <1>2, <2>1, <3>1 DEF ProbeInv, WayTaken
    <3>3. r # s
      BY <1>6, <3>2
    <3> QED BY <1>2, <1>5, <3>1, <3>2, <3>3
  <2> QED BY <2>2, <2>3
<1>8. KeysOnce'
  BY <1>3, <1>5, <1>6 DEF ProbeInv, KeysOnce
<1>9. HoleStale'
  BY <1>2 DEF ProbeInv, HoleStale
<1>10. ValsStored'
  BY <1>4, <1>6 DEF ProbeInv, ValsStored
<1> QED BY <1>7, <1>8, <1>9, <1>10 DEF ProbeInv

LEMMA ProbeBegin ==
  ASSUME TypeOK, ProbeInv, NEW k \in Keys, EraseBegin(k)
  PROVE  ProbeInv'
<1>1. PICK s \in ProbeStops(k) : slots[s].key = k /\ i' = s /\ j' = s
  BY DEF EraseBegin
<1>2. pc = "idle" /\ pc' = "shift" /\ key' = k /\ UNCHANGED <<slot_of, slots, older>>
  BY DEF EraseBegin, table
<1>3. s \in Slots /\ k # NoKey
  BY <1>1, <1>2, ProbeSays, SlotTypes
<1>4. \A t \in Slots : /\ Settled(t)' <=> t # s /\ slots[t].key # NoKey
                       /\ Settled(t) <=> slots[t].key # NoKey
  BY <1>1, <1>2 DEF Settled
<1>5. \A t \in Slots : t # s => Dist(s, s) < Dist(s, t)
  BY <1>3, DistZero, DistIs
<1>6. WayTaken'
  <2> SUFFICES ASSUME NEW t \in Slots, NEW r \in Slots, Settled(t)', Before(slots[t].key, r, t)'
               PROVE  \/ Settled(r)' /\ <<slots'[r].key, slots'[t].key>> \in older'
                      \/ pc' = "shift" /\ r = i' /\ Dist(i', j') < Dist(i', t)
    BY DEF WayTaken, Dist
  <2>1. Before(slots[t].key, r, t) /\ Settled(t) /\ t # s
    BY <1>2, <1>4 DEF Before
  <2>2. Settled(r) /\ <<slots[r].key, slots[t].key>> \in older
    BY <1>2, <2>1 DEF ProbeInv, WayTaken
  <2> QED BY <1>1, <1>2, <1>4, <1>5, <2>1, <2>2
<1>7. KeysOnce'
  BY <1>2, <1>4 DEF ProbeInv, KeysOnce
<1>8. \A t \in Slots : Settled(t)' => slots'[t].key # k
  BY <1>1, <1>2, <1>3, <1>4 DEF ProbeInv, KeysOnce
<1>9. \A r \in Slots : Dist(s, r) <= Dist(s, s) => r = s
  BY <1>3, DistZero, DistIs
<1>10. HoleStale'
  BY <1>1, <1>2, <1>3, <1>8, <1>9 DEF HoleStale, Dist
<1>11. ValsStored'
  BY <1>2 DEF ProbeInv, ValsStored
<1> QED BY <1>6, <1>7, <1>10, <1>11 DEF ProbeInv

\* The scan behind the hole does not come round to it.
LEMMA ScanNotRound ==
  ASSUME TableInv, ProbeInv, pc = "shift"
  PROVE  After(j) # i
<1> SUFFICES ASSUME After(j) = i PROVE FALSE
  OBVIOUS
<1>1. i \in Slots /\ j \in Slots
  BY DEF TableInv, TypeOK
<1>2. Dist(i, j) + 1 = CapacityPow2
  BY <1>1, DistAfter, DistZero, DistIs
<1>3. \A r \in Slots : Dist(i, r) <= Dist(i, j)
  BY <1>1, <1>2, DistIs
<1>4. \A r \in Slots : slots[r].key # NoKey
  BY <1>3 DEF ProbeInv, HoleStale
<1> QED BY <1>4, EmptySlot DEF RoomToStop

\* A turn of the scan that leaves its entry: the hole is not on the entry's way.
LEMMA ProbeStay ==
  ASSUME TableInv, ProbeInv, Shift, UNCHANGED <<i, slots>>
  PROVE  ProbeInv'
<1> DEFINE s == After(j)
<1>1. /\ s \in Slots /\ i \in Slots /\ j \in Slots /\ slots[s].key \in Keys
      /\ slot_of[slots[s].key] \in Slots
      /\ j' = s /\ pc = "shift" /\ UNCHANGED <<slot_of, older, pc, key, slots, i>>
  BY AfterType, SlotTypes DEF TableInv, Shift
<1>2. s # i
  BY <1>1, ScanNotRound
<1>3. Moves(slot_of[slots[s].key], i, s) => i' = s
  BY DEF Shift
<1>4. ~ Moves(slot_of[slots[s].key], i, s)
  BY <1>1, <1>2, <1>3
<1> HIDE DEF s
<1>5. ~ Before(slots[s].key, i, s)
  <2> SUFFICES ASSUME Before(slots[s].key, i, s) PROVE FALSE
    OBVIOUS
  <2> DEFINE h == slot_of[slots[s].key]
  <2>1. h \in Slots /\ Dist(h, i) < Dist(h, s) /\ ~ Dist(h, s) >= Dist(i, s)
    BY <1>1, <1>4 DEF Before, Moves
  <2> HIDE DEF h
  <2>2. Dist(h, i) \in Nat /\ Dist(h, s) \in Nat /\ Dist(i, s) \in Nat
    BY <1>1, <2>1, DistIs
  <2>3. Dist(h, s) = Dist(h, i) + Dist(i, s)
    BY <1>1, <2>1, <2>2, DistSplit
  <2> QED BY <2>1, <2>2, <2>3
<1>6. \A t \in Slots : Settled(t)' <=> Settled(t)
  BY <1>1 DEF Settled
<1>7. WayTaken'
  <2> SUFFICES ASSUME NEW t \in Slots, NEW r \in Slots, Settled(t)', Before(slots[t].key, r, t)'
               PROVE  \/ Settled(r)' /\ <<slots'[r].key, slots'[t].key>> \in older'
                      \/ pc' = "shift" /\ r = i' /\ Dist(i', j') < Dist(i', t)
    BY DEF WayTaken, Dist
  <2>1. Settled(t) /\ Before(slots[t].key, r, t)
    BY <1>1, <1>6 DEF Before
  <2>2. CASE Settled(r) /\ <<slots[r].key, slots[t].key>> \in older
    BY <1>1, <1>6, <2>2
  <2>3. CASE pc = "shift" /\ r = i /\ Dist(i, j) < Dist(i, t)
    <3>1. t # s
      BY <1>5, <2>1, <2>3
    <3>2. Dist(i, t) <= Dist(i, s) <=> Dist(i, t) <= Dist(i, j)
      BY <1>1, <1>2, <3>1, DistNext DEF s
    <3>3. Dist(i, s) < Dist(i, t)
      BY <1>1, <2>3, <3>2, DistIs
    <3> QED BY <1>1, <2>3, <3>3
  <2> QED BY <2>1, <2>2, <2>3 DEF ProbeInv, WayTaken
<1>8. KeysOnce'
  BY <1>1, <1>6 DEF ProbeInv, KeysOnce
<1>9. \A r \in Slots : Dist(i, r) <= Dist(i, s) => slots[r].key # NoKey
  <2> SUFFICES ASSUME NEW r \in Slots, Dist(i, r) <= Dist(i, s), r # s PROVE slots[r].key # NoKey
    BY <1>1, HashAssumption
  <2>1. Dist(i, r) <= Dist(i, j)
    BY <1>1, <1>2, DistNext DEF s
  <2> QED BY <1>1, <2>1 DEF ProbeInv, HoleStale
<1>10. HoleStale'
  BY <1>1, <1>6, <1>9 DEF ProbeInv, HoleStale, Dist
<1>11. ValsStored'
  BY <1>1 DEF ProbeInv, ValsStored
<1> QED BY <1>7, <1>8, <1>10, <1>11 DEF ProbeInv

\* A turn that moves its entry: what the entry passed over on the rest of its
\* way it passes no longer, and whoever passed over the hole passed over the
\* entry too.
LEMMA ProbeMove ==
  ASSUME TableInv, ProbeInv, Shift, ~ UNCHANGED <<i, slots>>
  PROVE  ProbeInv'
<1> DEFINE s == After(j)
<1>1. /\ s \in Slots /\ i \in Slots /\ j \in Slots /\ slots[s].key \in Keys
      /\ slot_of[slots[s].key] \in Slots
      /\ i' = s /\ j' = s /\ pc = "shift" /\ UNCHANGED <<slot_of, older, pc, key>>
      /\ slots' = [slots EXCEPT ![i] = slots[s]]
      /\ Moves(slot_of[slots[s].key], i, s)
  BY AfterType, SlotTypes DEF TableInv, Shift
<1>2. s # i
  BY <1>1, ScanNotRound
<1>3. \A t \in Slots : slots'[t] = IF t = i THEN slots[s] ELSE slots[t]
  BY <1>1 DEF TableInv, TypeOK
<1>4. \A t \in Slots : Settled(t) <=> slots[t].key # NoKey /\ t # i
  BY <1>1 DEF Settled
<1>5. Settled(s)
  BY <1>1, <1>2, <1>4, HashAssumption
<1>6. \A t \in Slots : Settled(t)' <=> t = i \/ (t # s /\ Settled(t))
  BY <1>1, <1>2, <1>3, <1>4, <1>5 DEF Settled
<1>7. \A x, y \in Slots : Dist(x, y) \in Nat
  BY DistIs
<1>8. \A t \in Slots : t # s => Dist(s, s) < Dist(s, t)
  BY <1>1, <1>7, DistZero
<1>9. \A t \in Slots : Dist(i, j) < Dist(i, t) /\ t # s => Dist(i, s) < Dist(i, t)
  <2> SUFFICES ASSUME NEW t \in Slots, Dist(i, j) < Dist(i, t), t # s PROVE Dist(i, s) < Dist(i, t)
    OBVIOUS
  <2>1. Dist(i, t) <= Dist(i, s) <=> Dist(i, t) <= Dist(i, j)
    BY <1>1, <1>2, DistNext
  <2> QED BY <1>1, <1>7, <2>1
<1> HIDE DEF s
<1>10. Before(slots[s].key, i, s)
  <2> DEFINE h == slot_of[slots[s].key]
  <2>1. h \in Slots /\ Dist(i, s) <= Dist(h, s)
    BY <1>1, <1>7 DEF Moves
  <2> HIDE DEF h
  <2>2. Dist(h, s) = Dist(h, i) + Dist(i, s)
    BY <1>1, <2>1, DistSplit
  <2>3. Dist(i, s) # 0
    BY <1>1, <1>2, DistZero
  <2>4. Dist(h, i) < Dist(h, s)
    BY <1>1, <1>7, <2>1, <2>2, <2>3
  <2> QED BY <2>4 DEF Before, h
<1>11. WayTaken'
  <2> SUFFICES ASSUME NEW t \in Slots, NEW r \in Slots, Settled(t)', Before(slots[t].key, r, t)'
               PROVE  \/ Settled(r)' /\ <<slots'[r].key, slots'[t].key>> \in older
                      \/ r = s /\ Dist(s, s) < Dist(s, t)
    BY <1>1 DEF WayTaken, Dist
  <2>1. Before(slots'[t].key, r, t)
    BY <1>1 DEF Before
  <2>2. CASE t = i
    <3>1. slots'[t].key = slots[s].key /\ Before(slots[s].key, r, i)
      BY <1>3, <2>1, <2>2
    <3>2. Before(slots[s].key, r, s) /\ r # i /\ r # s
      BY <1>1, <1>7, <1>10, <3>1 DEF Before
    <3>3. Settled(r) /\ <<slots[r].key, slots[s].key>> \in older
      BY <1>5, <1>1, <3>2 DEF ProbeInv, WayTaken
    <3> QED BY <1>3, <1>6, <3>1, <3>2, <3>3
  <2>3. CASE t # i
    <3>1. t # s /\ Settled(t) /\ slots'[t].key = slots[t].key /\ Before(slots[t].key, r, t)
      BY <1>3, <1>6, <2>1, <2>3
    <3>2. slot_of[slots[t].key] \in Slots
      BY <3>1, SlotTypes DEF TableInv, Settled
    <3>3. CASE r = s
      BY <1>8, <3>1, <3>3
    <3>4. CASE r = i
      <4>1. Dist(i, j) < Dist(i, t)
        BY <1>1, <1>4, <3>1, <3>4 DEF ProbeInv, WayTaken
      <4>2. Dist(i, s) < Dist(i, t)
        BY <1>9, <3>1, <4>1
      <4>3. Before(slots[t].key, s, t)
        BY <1>1, <3>1, <3>2, <3>4, <4>2, DistPassing DEF Before
      <4>4. <<slots[s].key, slots[t].key>> \in older
        BY <1>1, <1>2, <3>1, <4>3 DEF ProbeInv, WayTaken
      <4> QED BY <1>3, <1>6, <3>1, <3>4, <4>4
    <3>5. CASE r # s /\ r # i
      <4>1. Settled(r) /\ <<slots[r].key, slots[t].key>> \in older
        BY <3>1, <3>5 DEF ProbeInv, WayTaken
      <4> QED BY <1>3, <1>6, <3>1, <3>5, <4>1
    <3> QED BY <3>3, <3>4, <3>5
  <2> QED BY <2>2, <2>3
<1>12. KeysOnce'
  <2> SUFFICES ASSUME NEW t \in Slots, NEW r \in Slots, Settled(t)', Settled(r)', slots'[t].key = slots'[r].key
               PROVE  t = r
    BY DEF KeysOnce
  <2> QED BY <1>1, <1>3, <1>5, <1>6 DEF ProbeInv, KeysOnce
<1>13. \A t \in Slots : Settled(t)' => slots'[t].key # key
  BY <1>1, <1>3, <1>5, <1>6 DEF ProbeInv, HoleStale
<1>14. slots'[s] = slots[s] /\ \E t \in Slots : Settled(t)' /\ slots'[t] = slots'[s]
  <2>1. PICK hole \in Slots : hole = i
    BY <1>1
  <2>2. Settled(hole)' /\ slots'[hole] = slots'[s] /\ slots'[s] = slots[s]
    BY <1>1, <1>2, <1>3, <1>6, <2>1
  <2> QED BY <2>2
<1>15. \A r \in Slots : Dist(s, r) <= Dist(s, s) => r = s
  BY <1>1, <1>7, <1>8
<1>16. HoleStale'
  <2>1. key \in Keys
    BY <1>1 DEF ProbeInv, HoleStale
  <2>2. \E t \in Slots : Settled(t)' /\ slots'[t] = slots'[i']
    BY <1>1, <1>14
  <2>3. \A r \in Slots : Dist(i', r) <= Dist(i', j') => slots'[r].key # NoKey
    BY <1>1, <1>14, <1>15, HashAssumption
  <2> QED BY <1>1, <1>13, <2>1, <2>2, <2>3 DEF HoleStale, Dist
<1>17. ValsStored'
  BY <1>1, <1>3 DEF ProbeInv, ValsStored
<1> QED BY <1>11, <1>12, <1>16, <1>17 DEF ProbeInv

\* No entry's way still held the hole: it would have passed the empty slot that
\* ends the scan.
LEMMA ProbeEnd ==
  ASSUME TableInv, ProbeInv, EraseEnd
  PROVE  ProbeInv'
<1> DEFINE s == After(j)
<1>1. /\ s \in Slots /\ i \in Slots /\ j \in Slots /\ slots[s].key = NoKey
      /\ pc = "shift" /\ pc' = "idle" /\ key' = NoKey /\ UNCHANGED slot_of
      /\ slots' = [slots EXCEPT ![i].key = NoKey]
      /\ older' = {p \in older : key \notin {p[1], p[2]}}
  BY AfterType, SlotTypes DEF TableInv, EraseEnd
<1>2. s # i
  BY <1>1 DEF TableInv, Occupied
<1>3. \A t \in Slots : slots'[t].key = (IF t = i THEN NoKey ELSE slots[t].key)
                       /\ slots'[t].val = slots[t].val
  BY <1>1 DEF TableInv, TypeOK
<1>4. \A t \in Slots : Settled(t)' <=> Settled(t)
  BY <1>1, <1>3 DEF Settled
<1>5. \A t \in Slots : Settled(t) => slots'[t].key = slots[t].key /\ slots[t].key # key /\ t # i
  BY <1>1, <1>3 DEF Settled, ProbeInv, HoleStale
<1>6. \A t \in Slots : Dist(i, j) < Dist(i, t) /\ t # s => Dist(i, s) < Dist(i, t)
  <2> SUFFICES ASSUME NEW t \in Slots, Dist(i, j) < Dist(i, t), t # s PROVE Dist(i, s) < Dist(i, t)
    OBVIOUS
  <2>1. Dist(i, t) <= Dist(i, s) <=> Dist(i, t) <= Dist(i, j)
    BY <1>1, <1>2, DistNext
  <2> QED BY <1>1, <2>1, DistIs
<1> HIDE DEF s
<1>7. WayTaken'
  <2> SUFFICES ASSUME NEW t \in Slots, NEW r \in Slots, Settled(t)', Before(slots[t].key, r, t)'
               PROVE  Settled(r)' /\ <<slots'[r].key, slots'[t].key>> \in older'
    BY DEF WayTaken
  <2>1. Settled(t) /\ Before(slots[t].key, r, t)
    BY <1>1, <1>4, <1>5 DEF Before
  <2>2. slot_of[slots[t].key] \in Slots
    BY <2>1, SlotTypes DEF TableInv, Settled
  <2>3. CASE Settled(r) /\ <<slots[r].key, slots[t].key>> \in older
    <3>1. slots[r].key # key /\ slots[t].key # key
      BY <1>5, <2>1, <2>3
    <3>2. <<slots[r].key, slots[t].key>> \in older'
      BY <1>1, <2>3, <3>1
    <3> QED BY <1>4, <1>5, <2>1, <2>3, <3>2
  <2>4. CASE r = i /\ Dist(i, j) < Dist(i, t)
    <3>1. t # s
      BY <1>1, <2>1 DEF Settled
    <3>2. Dist(i, s) < Dist(i, t)
      BY <1>6, <2>4, <3>1
    <3>3. Before(slots[t].key, s, t)
      BY <1>1, <2>1, <2>2, <2>4, <3>2, DistPassing DEF Before
    <3>4. Settled(s)
      BY <1>1, <1>2, <2>1, <3>3 DEF ProbeInv, WayTaken
    <3> QED BY <1>1, <3>4 DEF Settled
  <2> QED BY <2>1, <2>3, <2>4 DEF ProbeInv, WayTaken
<1>8. KeysOnce'
  BY <1>4, <1>5 DEF ProbeInv, KeysOnce
<1>9. HoleStale'
  BY <1>1 DEF HoleStale
<1>10. ValsStored'
  BY <1>3 DEF ProbeInv, ValsStored
<1> QED BY <1>7, <1>8, <1>9, <1>10 DEF ProbeInv

LEMMA ProbeStep == TableInv /\ ProbeInv /\ [Next]_vars => ProbeInv'
<1> SUFFICES ASSUME TableInv, ProbeInv, [Next]_vars PROVE ProbeInv'
  OBVIOUS
<1>0. TypeOK
  BY DEF TableInv
<1>1. CASE UNCHANGED <<table, erase>>
  BY <1>1 DEF table, erase, ProbeInv, WayTaken, KeysOnce, HoleStale, ValsStored, Settled, Before, Dist
<1>2. ASSUME NEW k \in Keys, NEW v \in Vals, InsertNew(k, v) PROVE ProbeInv'
  BY <1>0, <1>2, ProbeInsert
<1>3. ASSUME NEW k \in Keys, NEW v \in Vals, InsertOver(k, v) PROVE ProbeInv'
  <2>1. PICK s \in ProbeStops(k) : slots[s].key = k /\ slots' = [slots EXCEPT ![s].val = v]
    BY <1>3 DEF InsertOver
  <2>2. pc = "idle" /\ UNCHANGED <<slot_of, size, older, erase>>
    BY <1>3 DEF InsertOver
  <2>3. s \in Slots
    BY DEF ProbeStops
  <2>4. \A t \in Slots : slots'[t].key = slots[t].key /\ slots'[t].val = IF t = s THEN v ELSE slots[t].val
    BY <1>0, <2>1, <2>3 DEF TypeOK
  <2>5. \A t \in Slots : Settled(t)' <=> Settled(t)
    BY <2>2, <2>4 DEF Settled, erase
  <2>6. WayTaken'
    <3> SUFFICES ASSUME NEW t \in Slots, NEW r \in Slots, Settled(t)', Before(slots[t].key, r, t)'
                 PROVE  Settled(r)' /\ <<slots'[r].key, slots'[t].key>> \in older'
      BY DEF WayTaken
    <3>1. Settled(t) /\ Before(slots[t].key, r, t)
      BY <2>2, <2>4, <2>5 DEF Before
    <3> QED BY <2>2, <2>4, <2>5, <3>1 DEF ProbeInv, WayTaken
  <2>7. KeysOnce'
    BY <2>4, <2>5 DEF ProbeInv, KeysOnce
  <2>8. HoleStale'
    BY <2>2 DEF ProbeInv, HoleStale, erase
  <2>9. ValsStored'
    BY <2>4 DEF ProbeInv, ValsStored
  <2> QED BY <2>6, <2>7, <2>8, <2>9 DEF ProbeInv
<1>4. ASSUME NEW k \in Keys, EraseBegin(k) PROVE ProbeInv'
  BY <1>0, <1>4, ProbeBegin
<1>5. CASE Shift
  BY <1>5, ProbeStay, ProbeMove
<1>6. CASE EraseEnd
  BY <1>6, ProbeEnd
<1>7. ASSUME NEW k \in Keys, Find(k) \/ EraseAbsent(k) PROVE UNCHANGED <<table, erase>>
  BY <1>7 DEF Find, EraseAbsent
<1>8. InsertRefused \/ UNCHANGED vars => UNCHANGED <<table, erase>>
  BY DEF InsertRefused, vars
<1> QED BY <1>1, <1>2, <1>3, <1>4, <1>5, <1>6, <1>7, <1>8 DEF Next, Call

LEMMA ProbeCorrect == Spec => []ProbeInv
BY TableCorrect, ProbeInit, ProbeStep, PTL DEF Spec

\* Between calls only older keys lie between a key's home and its slot: the
\* backward shift leaves the table as if the erased key had never been there.
THEOREM OlderKept == Spec => []OlderInTheWay
<1>1. ProbeInv => OlderInTheWay
  BY DEF ProbeInv, WayTaken, OlderInTheWay, Settled, Before
<1> QED BY <1>1, ProbeCorrect, PTL

-----------------------------------------------------------------------------
(* The table as a map *)

LEMMA MapCardinality == \A S : Map!Cardinality(S) = Cardinality(S)
BY DEF Map!Cardinality, Cardinality

\* The scan answers with the value in any slot that holds the key.
ScanReads ==
  \A k \in Keys :
    /\ \A s \in Slots : slots[s].key = k => Scan[k] = slots[s].val /\ Scan[k] \in Vals
    /\ (\A s \in Slots : slots[s].key # k) => Scan[k] = NoVal

MapInv == TableInv /\ ProbeInv /\ ScanReads

LEMMA ScanFinds == TypeOK /\ ProbeInv => ScanReads
<1> SUFFICES ASSUME TypeOK, ProbeInv, NEW k \in Keys
             PROVE  /\ \A s \in Slots : slots[s].key = k => Scan[k] = slots[s].val /\ Scan[k] \in Vals
                    /\ (\A s \in Slots : slots[s].key # k) => Scan[k] = NoVal
  BY DEF ScanReads
<1>1. k # NoKey
  BY HashAssumption
<1>2. ASSUME NEW t \in Slots, NEW r \in Slots, slots[t].key = k, slots[r].key = k
      PROVE  slots[t].val = slots[r].val
  <2>1. CASE Settled(t) /\ Settled(r)
    BY <1>2, <2>1 DEF ProbeInv, KeysOnce
  <2>2. ASSUME NEW u \in Slots, NEW w \in Slots, slots[u].key = k, slots[w].key = k,
               ~ Settled(u), Settled(w)
        PROVE  slots[u].val = slots[w].val
    <3>1. pc = "shift" /\ u = i /\ k # key
      BY <1>1, <2>2 DEF Settled, ProbeInv, HoleStale
    <3>2. PICK x \in Slots : Settled(x) /\ slots[x] = slots[i]
      BY <2>2, <3>1 DEF ProbeInv, HoleStale
    <3>3. x = w
      BY <2>2, <3>1, <3>2 DEF ProbeInv, KeysOnce
    <3> QED BY <3>1, <3>2, <3>3
  <2>3. CASE ~ Settled(t) /\ ~ Settled(r)
    BY <1>1, <1>2, <2>3 DEF Settled
  <2> QED BY <1>2, <2>1, <2>2, <2>3
<1>3. ASSUME NEW s \in Slots, slots[s].key = k PROVE Scan[k] = slots[s].val /\ Scan[k] \in Vals
  <2>1. PICK c \in Slots : slots[c].key = k /\ c = CHOOSE r \in Slots : slots[r].key = k
    BY <1>3
  <2>2. Scan[k] = slots[c].val
    BY <1>3, <2>1 DEF Scan
  <2>3. slots[c].val \in Vals /\ slots[c].val = slots[s].val
    BY <1>1, <1>2, <1>3, <2>1 DEF ProbeInv, ValsStored
  <2> QED BY <2>2, <2>3
<1>4. (\A s \in Slots : slots[s].key # k) => Scan[k] = NoVal
  BY DEF Scan
<1> QED BY <1>3, <1>4

\* Between calls size counts the keys that are stored.
LEMMA SizeIsStored ==
  ASSUME MapInv, pc = "idle"
  PROVE  Map!Cardinality(Map!Stored) = size
<1> DEFINE f == [s \in Occupied |-> slots[s].key]
<1>1. \A s \in Slots : Settled(s) <=> s \in Occupied
  BY DEF Settled, Occupied
<1>2. \A s \in Occupied : slots[s].key \in Map!Stored
  <2> SUFFICES ASSUME NEW s \in Occupied PROVE slots[s].key \in Map!Stored
    OBVIOUS
  <2>1. s \in Slots /\ slots[s].key \in Keys
    BY SlotTypes DEF Occupied, MapInv, TableInv
  <2>2. Scan[slots[s].key] # NoVal
    BY <2>1, HashAssumption DEF MapInv, ScanReads
  <2> QED BY <2>1, <2>2 DEF Map!Stored
<1>3. \A k \in Map!Stored : \E s \in Occupied : slots[s].key = k
  BY HashAssumption DEF Map!Stored, MapInv, ScanReads, Occupied
<1>4. \A s, r \in Occupied : slots[s].key = slots[r].key => s = r
  BY <1>1 DEF MapInv, ProbeInv, KeysOnce, Occupied
<1>5. f \in [Occupied -> Map!Stored] /\ \A s \in Occupied : f[s] = slots[s].key
  BY <1>2
<1> HIDE DEF f
<1>6. f \in Surjection(Occupied, Map!Stored)
  BY <1>3, <1>5 DEF Surjection
<1>7. f \in Injection(Occupied, Map!Stored)
  BY <1>4, <1>5 DEF Injection, IsInjective
<1>8. Cardinality(Map!Stored) = Cardinality(Occupied)
  BY <1>6, <1>7, OccupiedFinite, FS_Surjection
<1> QED BY <1>8, MapCardinality DEF MapInv, TableInv

LEMMA ScanDomain == Scan = [k \in Keys |-> Scan[k]]
BY DEF Scan

\* A change that leaves every key but one where it was.
LEMMA ScanChanges ==
  ASSUME MapInv, MapInv', NEW k \in Keys,
         \A l \in Keys \ {k} : Scan'[l] = Scan[l]
  PROVE  Scan' = [Scan EXCEPT ![k] = Scan'[k]]
<1>1. Scan' = [l \in Keys |-> Scan'[l]] /\ Scan = [l \in Keys |-> Scan[l]]
  BY DEF Scan
<1> HIDE DEF Scan
<1> QED BY <1>1

\* A key whose slots keep their entries.
LEMMA ScanKeeps ==
  ASSUME MapInv, MapInv', NEW k \in Keys,
         \A t \in Slots : slots[t].key = k => \E u \in Slots : slots'[u].key = k /\ slots'[u].val = slots[t].val,
         \A u \in Slots : slots'[u].key = k => \E t \in Slots : slots[t].key = k
  PROVE  Scan'[k] = Scan[k]
<1>1. /\ \A s \in Slots : slots'[s].key = k => Scan'[k] = slots'[s].val
      /\ (\A s \in Slots : slots'[s].key # k) => Scan'[k] = NoVal
  BY DEF MapInv, ScanReads, Slots
<1>2. /\ \A s \in Slots : slots[s].key = k => Scan[k] = slots[s].val
      /\ (\A s \in Slots : slots[s].key # k) => Scan[k] = NoVal
  BY DEF MapInv, ScanReads
<1> QED BY <1>1, <1>2

\* A call that inserts.
LEMMA InsertImplements ==
  ASSUME MapInv, MapInv', NEW k \in Keys, NEW v \in Vals,
         InsertNew(k, v) \/ InsertOver(k, v)
  PROVE  Map!Insert(k, v)
<1>1. PICK s \in ProbeStops(k) : /\ slots[s].key \in {k, NoKey}
                                 /\ slots'[s].key = k /\ slots'[s].val = v
                                 /\ \A t \in Slots \ {s} : slots'[t] = slots[t]
  <2>1. CASE InsertNew(k, v)
    <3>1. PICK s \in ProbeStops(k) : slots[s].key = NoKey /\ slots' = [slots EXCEPT ![s] = [key |-> k, val |-> v]]
      BY <2>1 DEF InsertNew
    <3>2. s \in Slots
      BY DEF ProbeStops
    <3> QED BY <3>1, <3>2 DEF MapInv, TableInv, TypeOK
  <2>2. CASE InsertOver(k, v)
    <3>1. PICK s \in ProbeStops(k) : slots[s].key = k /\ slots' = [slots EXCEPT ![s].val = v]
      BY <2>2 DEF InsertOver
    <3>2. s \in Slots
      BY DEF ProbeStops
    <3>3. slots'[s].key = k /\ slots'[s].val = v
      BY <3>1, <3>2 DEF MapInv, TableInv, TypeOK
    <3>4. \A t \in Slots \ {s} : slots'[t] = slots[t]
      BY <3>1, <3>2 DEF MapInv, TableInv, TypeOK
    <3> QED BY <3>1, <3>3, <3>4
  <2> QED BY <2>1, <2>2
<1>2. /\ pc = "idle" /\ size < LoadCap /\ ret' = TRUE /\ key' = key
  BY DEF InsertNew, InsertOver, erase
<1>3. s \in Slots /\ k # NoKey
  BY HashAssumption DEF ProbeStops
<1>4. Scan'[k] = v
  BY <1>1, <1>3 DEF MapInv, ScanReads, Slots
<1>5. ASSUME NEW l \in Keys \ {k} PROVE Scan'[l] = Scan[l]
  <2>1. \A t \in Slots : slots[t].key = l \/ slots'[t].key = l => t # s
    BY <1>1, HashAssumption
  <2>2. \A t \in Slots : slots[t].key = l => \E u \in Slots : slots'[u].key = l /\ slots'[u].val = slots[t].val
    BY <1>1, <2>1
  <2>3. \A u \in Slots : slots'[u].key = l => \E t \in Slots : slots[t].key = l
    BY <1>1, <2>1
  <2> QED BY <2>2, <2>3, ScanKeeps
<1>6. Scan' = [Scan EXCEPT ![k] = v]
  BY <1>4, <1>5, ScanChanges
<1>7. key = NoKey /\ Map!Cardinality(Map!Stored) < LoadCap
  BY <1>2, SizeIsStored DEF MapInv, ProbeInv, HoleStale
<1> QED BY <1>2, <1>6, <1>7 DEF Map!Insert

\* A call that reads only.
LEMMA ReadImplements ==
  ASSUME MapInv, NEW k \in Keys, Find(k) \/ EraseAbsent(k) \/ EraseBegin(k)
  PROVE  Map!Find(k) \/ Map!EraseAbsent(k) \/ Map!EraseBegin(k)
<1>1. /\ pc = "idle" /\ key = NoKey /\ Scan' = Scan
      /\ Find(k) \/ EraseAbsent(k) => key' = key
  BY DEF Find, EraseAbsent, EraseBegin, table, erase, MapInv, ProbeInv, HoleStale, Scan, Slots
<1>2. ASSUME NEW s \in ProbeStops(k)
      PROVE  Scan[k] = (IF slots[s].key = k THEN slots[s].val ELSE NoVal)
             /\ (slots[s].key = k => Scan[k] \in Vals)
             /\ (slots[s].key = NoKey => Scan[k] = NoVal)
  BY <1>1, ProbeSays, HashAssumption DEF MapInv, TableInv, ScanReads
<1>3. CASE Find(k)
  BY <1>1, <1>2, <1>3 DEF Find, Map!Find
<1>4. CASE EraseAbsent(k)
  BY <1>1, <1>2, <1>4 DEF EraseAbsent, Map!EraseAbsent
<1>5. CASE EraseBegin(k)
  BY <1>1, <1>2, <1>5, HashAssumption DEF EraseBegin, Map!EraseBegin
<1> QED BY <1>3, <1>4, <1>5

\* The key of a running erase goes when its entry is overwritten, at the first
\* move or at the end.
LEMMA ShiftImplements ==
  ASSUME MapInv, MapInv', Shift
  PROVE  Map!Forget \/ UNCHANGED Map!vars
<1> DEFINE s == After(j)
<1>1. /\ s \in Slots /\ i \in Slots /\ slots[s].key # NoKey /\ pc = "shift" /\ pc' = "shift"
      /\ key \in Keys /\ key # NoKey /\ UNCHANGED <<key, ret>>
      /\ (i' = i /\ slots' = slots) \/ (i' = s /\ slots' = [slots EXCEPT ![i] = slots[s]])
  <2>1. i \in Slots /\ j \in Slots
    BY DEF MapInv, TableInv, TypeOK
  <2>2. pc = "shift" /\ pc' = "shift" /\ key \in Keys
    BY DEF Shift, MapInv, ProbeInv, HoleStale
  <2>3. (i' = i /\ slots' = slots) \/ (i' = s /\ slots' = [slots EXCEPT ![i] = slots[s]])
    BY DEF Shift
  <2> QED BY <2>1, <2>2, <2>3, AfterType, HashAssumption DEF Shift
<1> HIDE DEF s
<1>2. CASE i' = i /\ slots' = slots
  <2>1. Scan' = Scan
    BY <1>2 DEF Scan, Slots
  <2> QED BY <1>1, <2>1 DEF Map!vars
<1>3. CASE i' = s /\ slots' = [slots EXCEPT ![i] = slots[s]]
  <2>1. \A t \in Slots : slots'[t] = IF t = i THEN slots[s] ELSE slots[t]
    BY <1>1, <1>3 DEF MapInv, TableInv, TypeOK
  <2>2. \A t \in Slots : t # i /\ slots[t].key # NoKey => Settled(t)
    BY DEF Settled
  <2>3. \A t \in Slots : t # i => slots[t].key # key
    BY <1>1, <2>2 DEF MapInv, ProbeInv, HoleStale
  <2>4. slots[i].key # NoKey
    BY <1>1 DEF MapInv, TableInv, Occupied
  <2>5. CASE s = i
    <3>1. slots' = slots
      BY <1>1, <1>3, <2>5 DEF MapInv, TableInv, TypeOK
    <3>2. Scan' = Scan
      BY <3>1 DEF Scan, Slots
    <3> QED BY <1>1, <3>2 DEF Map!vars
  <2>6. CASE s # i
    <3>1. \A t \in Slots : slots'[t].key # key
      BY <1>1, <2>1, <2>3, <2>6
    <3>2. Scan'[key] = NoVal
      BY <1>1, <3>1 DEF MapInv, ScanReads, Slots
    <3>3. ASSUME NEW l \in Keys \ {key} PROVE Scan'[l] = Scan[l]
      <4>1. ASSUME NEW t \in Slots, slots[t].key = l
            PROVE  \E u \in Slots : slots'[u].key = l /\ slots'[u].val = slots[t].val
        <5>1. CASE t # i
          BY <2>1, <4>1, <5>1
        <5>2. CASE t = i
          <6>1. PICK u \in Slots : Settled(u) /\ slots[u] = slots[i]
            BY <1>1, <4>1, <5>2 DEF MapInv, ProbeInv, HoleStale
          <6>2. u # i
            BY <1>1, <6>1 DEF Settled
          <6> QED BY <2>1, <4>1, <5>2, <6>1, <6>2
        <5> QED BY <5>1, <5>2
      <4>2. \A u \in Slots : slots'[u].key = l => \E t \in Slots : slots[t].key = l
        BY <1>1, <2>1
      <4> QED BY <4>1, <4>2, ScanKeeps
    <3>4. Scan' = [Scan EXCEPT ![key] = NoVal]
      <4>1. PICK k \in Keys : k = key
        BY <1>1
      <4> QED BY <3>2, <3>3, <4>1, ScanChanges
    <3> QED BY <1>1, <3>4 DEF Map!Forget
  <2> QED BY <2>5, <2>6
<1> QED BY <1>1, <1>2, <1>3

LEMMA EndImplements ==
  ASSUME MapInv, MapInv', EraseEnd
  PROVE  Map!EraseEnd
<1>1. /\ i \in Slots /\ pc = "shift" /\ key \in Keys /\ key # NoKey /\ key' = NoKey /\ ret' = TRUE
      /\ slots' = [slots EXCEPT ![i].key = NoKey]
  BY HashAssumption DEF EraseEnd, MapInv, TableInv, TypeOK, ProbeInv, HoleStale
<1>2. \A t \in Slots : /\ slots'[t].key = (IF t = i THEN NoKey ELSE slots[t].key)
                       /\ slots'[t].val = slots[t].val
  BY <1>1 DEF MapInv, TableInv, TypeOK
<1>3. \A t \in Slots : t # i /\ slots[t].key # NoKey => Settled(t)
  BY DEF Settled
<1>4. \A t \in Slots : slots'[t].key # key
  BY <1>1, <1>2, <1>3 DEF MapInv, ProbeInv, HoleStale
<1>5. Scan'[key] = NoVal
  BY <1>1, <1>4 DEF MapInv, ScanReads, Slots
<1>6. ASSUME NEW l \in Keys \ {key} PROVE Scan'[l] = Scan[l]
  <2>0. l # NoKey
    BY HashAssumption
  <2>1. ASSUME NEW t \in Slots, slots[t].key = l
        PROVE  \E u \in Slots : slots'[u].key = l /\ slots'[u].val = slots[t].val
    <3>1. CASE t # i
      BY <1>2, <2>1, <3>1
    <3>2. CASE t = i
      <4>1. PICK u \in Slots : Settled(u) /\ slots[u] = slots[i]
        BY <1>1, <2>1, <3>2 DEF MapInv, ProbeInv, HoleStale
      <4>2. u # i
        BY <1>1, <4>1 DEF Settled
      <4> QED BY <1>2, <2>1, <3>2, <4>1, <4>2
    <3> QED BY <3>1, <3>2
  <2>2. \A u \in Slots : slots'[u].key = l => \E t \in Slots : slots[t].key = l
    BY <1>2, <2>0
  <2> QED BY <2>1, <2>2, ScanKeeps
<1>7. Scan' = [Scan EXCEPT ![key] = NoVal]
  <2>1. PICK k \in Keys : k = key
    BY <1>1
  <2> QED BY <1>5, <1>6, <2>1, ScanChanges
<1> QED BY <1>1, <1>7 DEF Map!EraseEnd

LEMMA MapStep == MapInv /\ MapInv' /\ [Next]_vars => [Map!Next]_(Map!vars)
<1> SUFFICES ASSUME MapInv, MapInv', [Next]_vars PROVE Map!Next \/ UNCHANGED Map!vars
  OBVIOUS
<1>1. CASE UNCHANGED vars
  <2>1. Scan' = Scan
    BY <1>1 DEF vars, table, Scan, Slots
  <2> QED BY <1>1, <2>1 DEF vars, erase, Map!vars
<1>2. CASE InsertRefused
  <2>1. Scan' = Scan /\ key' = key /\ pc = "idle" /\ size >= LoadCap /\ ret' = FALSE
    BY <1>2 DEF InsertRefused, table, erase, Scan, Slots
  <2>2. key = NoKey /\ Map!Cardinality(Map!Stored) >= LoadCap
    BY <2>1, SizeIsStored DEF MapInv, ProbeInv, HoleStale
  <2> QED BY <2>1, <2>2 DEF Map!InsertRefused, Map!Next
<1>3. ASSUME NEW k \in Keys, Call(k) PROVE Map!Next
  <2>1. CASE \E v \in Vals : InsertNew(k, v) \/ InsertOver(k, v)
    BY <2>1, InsertImplements DEF Map!Next
  <2>2. CASE Find(k) \/ EraseAbsent(k) \/ EraseBegin(k)
    BY <2>2, ReadImplements DEF Map!Next
  <2> QED BY <1>3, <2>1, <2>2 DEF Call
<1>4. CASE Shift
  BY <1>4, ShiftImplements DEF Map!Next
<1>5. CASE EraseEnd
  BY <1>5, EndImplements DEF Map!Next
<1> QED BY <1>1, <1>2, <1>3, <1>4, <1>5 DEF Next

\* The table is a map of bounded size: every call answers as a scan of the whole
\* table would, an insertion is refused exactly when size keys are stored, and an
\* erase takes its own key out and no other.
THEOREM TableIsMap == Spec => Map!Spec
<1>1. Init => Map!Init
  <2> SUFFICES ASSUME Init PROVE Map!Init
    OBVIOUS
  <2>1. \A k \in Keys : \A s \in Slots : slots[s].key # k
    BY HashAssumption DEF Init
  <2>2. Scan = [k \in Keys |-> NoVal]
    BY <2>1 DEF Scan
  <2> QED BY <2>2 DEF Init, Map!Init
<1>2. TableInv /\ ProbeInv => MapInv
  BY ScanFinds DEF MapInv, TableInv
<1>3. Spec => []MapInv
  BY <1>2, TableCorrect, ProbeCorrect, PTL
<1> QED BY <1>1, <1>3, MapStep, PTL DEF Spec, Map!Spec
=============================================================================
