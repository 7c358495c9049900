------------------------------- MODULE FlatHash -------------------------------
(***************************************************************************)
(* The open-addressing hash map of src/include/lob/flat_hash.hpp: linear   *)
(* probing, a load cap, deletion by backward shift.                        *)
(*                                                                         *)
(* slot_of is the home slot of each key: a function fixed in the initial   *)
(* state, which stands for what the multiplicative hash does to the keys   *)
(* at hand.  A probe is one step; erase is split at each turn of its shift *)
(* loop, whose hole is i and whose last slot examined is j.  older relates *)
(* the stored keys by the order of their insertion; it is not in the code. *)
(***************************************************************************)
EXTENDS Integers, FiniteSets

CONSTANTS CapacityPow2, MaxLoadPct,
          Keys, Vals,
          Homes,        \* what the hash may do to the keys at hand
          NoKey,        \* the empty slot's key, 0 in the code
          NoVal         \* find's answer for a key not stored, 0 in the code

ASSUME HashAssumption ==
  /\ CapacityPow2 \in Nat /\ CapacityPow2 >= 4
  /\ MaxLoadPct \in 10 .. 90
  /\ NoKey \notin Keys /\ NoVal \notin Vals
  /\ Homes \subseteq [Keys -> 0 .. CapacityPow2 - 1]

VARIABLES slot_of, slots, size,
          pc, key, i, j,      \* a running erase: its argument and locals
          ret,                \* the answer of the last call
          older

table == <<slot_of, slots, size, older>>
erase == <<pc, key, i, j>>
vars == <<table, erase, ret>>

Slots == 0 .. CapacityPow2 - 1

\* Mutant: no load cap.
NoLoadCap == CapacityPow2
LoadCap == (CapacityPow2 * MaxLoadPct) \div 100

\* (b - a) & MASK, the way from slot a forward to slot b.
Dist(a, b) == (b - a) % CapacityPow2
After(s) == (s + 1) % CapacityPow2

\* The slot a probe for k stops at: the first that is empty or holds k.
\* Without an empty slot a probe for an absent key would not stop.
ProbeStops(k) ==
  LET Stops(s) == slots[s].key \in {k, NoKey}
  IN {s \in Slots : Stops(s) /\
        \A r \in Slots : Dist(slot_of[k], r) < Dist(slot_of[k], s) => ~Stops(r)}

Init ==
  /\ slot_of \in Homes
  /\ slots = [s \in Slots |-> [key |-> NoKey, val |-> NoVal]]
  /\ size = 0 /\ older = {}
  /\ pc = "idle" /\ key = NoKey /\ i = 0 /\ j = 0 /\ ret = NoVal

-----------------------------------------------------------------------------
(* insert, find *)

\* The load cap is tested first, for a stored key too.
InsertRefused ==
  /\ pc = "idle" /\ size >= LoadCap
  /\ ret' = FALSE
  /\ UNCHANGED <<table, erase>>

InsertNew(k, v) ==
  /\ pc = "idle" /\ size < LoadCap
  /\ \E s \in ProbeStops(k) :
       /\ slots[s].key = NoKey
       /\ slots' = [slots EXCEPT ![s] = [key |-> k, val |-> v]]
  /\ size' = size + 1
  /\ older' = older \union ({slots[s].key : s \in Slots} \ {NoKey}) \X {k}
  /\ ret' = TRUE
  /\ UNCHANGED <<slot_of, erase>>

InsertOver(k, v) ==
  /\ pc = "idle" /\ size < LoadCap
  /\ \E s \in ProbeStops(k) :
       /\ slots[s].key = k
       /\ slots' = [slots EXCEPT ![s].val = v]
  /\ ret' = TRUE
  /\ UNCHANGED <<slot_of, size, older, erase>>

Find(k) ==
  /\ pc = "idle"
  /\ \E s \in ProbeStops(k) : ret' = IF slots[s].key = k THEN slots[s].val ELSE NoVal
  /\ UNCHANGED <<table, erase>>

-----------------------------------------------------------------------------
(* erase *)

EraseAbsent(k) ==
  /\ pc = "idle"
  /\ \E s \in ProbeStops(k) : slots[s].key = NoKey
  /\ ret' = FALSE
  /\ UNCHANGED <<table, erase>>

EraseBegin(k) ==
  /\ pc = "idle"
  /\ \E s \in ProbeStops(k) : slots[s].key = k /\ i' = s /\ j' = s
  /\ pc' = "shift" /\ key' = k
  /\ UNCHANGED <<table, ret>>

\* Mutants: every successor moves; distances that do not wrap.
MovesAlways(h, hole, s) == TRUE
MovesUnmasked(h, hole, s) == s - h >= s - hole
\* The hole lies on the way from the entry's home h to its slot s.
Moves(h, hole, s) == Dist(h, s) >= Dist(hole, s)

\* One turn of the loop: the entry after j moves into the hole or stays.
Shift ==
  LET s == After(j)
  IN /\ pc = "shift" /\ slots[s].key # NoKey
     /\ j' = s
     /\ IF Moves(slot_of[slots[s].key], i, s)
        THEN i' = s /\ slots' = [slots EXCEPT ![i] = slots[s]]
        ELSE UNCHANGED <<i, slots>>
     /\ UNCHANGED <<slot_of, size, older, pc, key, ret>>

\* The chain ends: the hole becomes empty, its value left behind.
EraseEnd ==
  /\ pc = "shift" /\ slots[After(j)].key = NoKey
  /\ slots' = [slots EXCEPT ![i].key = NoKey]
  /\ size' = size - 1
  /\ older' = {p \in older : key \notin {p[1], p[2]}}
  /\ pc' = "idle" /\ key' = NoKey /\ i' = 0 /\ j' = 0 /\ ret' = TRUE
  /\ UNCHANGED slot_of

Call(k) ==
  \/ \E v \in Vals : InsertNew(k, v) \/ InsertOver(k, v)
  \/ Find(k) \/ EraseAbsent(k) \/ EraseBegin(k)

Next == (\E k \in Keys : Call(k)) \/ InsertRefused \/ Shift \/ EraseEnd

Spec == Init /\ [][Next]_vars

\* The calling thread goes on with the loop it is in.
FairSpec == Spec /\ WF_vars(Shift \/ EraseEnd)

-----------------------------------------------------------------------------
(* The properties of the map *)

\* Types, the load cap included.
TypeOK ==
  /\ slot_of \in [Keys -> Slots]
  /\ slots \in [Slots -> [key : Keys \union {NoKey}, val : Vals \union {NoVal}]]
  /\ size \in 0 .. LoadCap
  /\ pc \in {"idle", "shift"} /\ key \in Keys \union {NoKey} /\ i \in Slots /\ j \in Slots
  /\ ret \in Vals \union {NoVal} \union BOOLEAN
  /\ older \in SUBSET (Keys \X Keys)

\* Some slot is always empty: what ends every probe and every shift, which have
\* no other bound.
RoomToStop == \E s \in Slots : slots[s].key = NoKey

\* "The exact state as if the erased key had never been inserted"
\* (flat_hash.hpp:46): between calls every key sits where inserting the stored
\* keys in the order of their insertion would have put it, so only older keys
\* lie between its home and its slot.
OlderInTheWay ==
  pc = "idle" =>
    \A s, r \in Slots :
      LET k == slots[s].key
      IN k # NoKey /\ Dist(slot_of[k], r) < Dist(slot_of[k], s) => <<slots[r].key, k>> \in older

\* The values as a full scan of the table would read them.
Scan ==
  [k \in Keys |->
     IF \E s \in Slots : slots[s].key = k
     THEN slots[CHOOSE s \in Slots : slots[s].key = k].val
     ELSE NoVal]

Map == INSTANCE KeyValueMap
  WITH map <- Scan, erasing <- key, Limit <- LoadCap

\* The table is a map of bounded size: lookups find what a scan would, the
\* refusal is exact, and erase removes its key alone and returns, the scan behind
\* its hole having met an empty slot.
ImplementsMap == Map!FairSpec
=============================================================================
