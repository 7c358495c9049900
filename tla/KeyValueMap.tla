----------------------------- MODULE KeyValueMap -----------------------------
(***************************************************************************)
(* What a hash map of bounded size promises: a function from keys to       *)
(* values, an insertion refused only when the map is full, a lookup that   *)
(* answers what was inserted last, and an erasure that takes effect at     *)
(* some moment of the call.                                                *)
(***************************************************************************)
EXTENDS Integers, FiniteSets

CONSTANTS Keys, Vals, NoKey, NoVal, Limit

VARIABLES map,       \* NoVal for a key that is not stored
          erasing,   \* the argument of a running erase
          ret        \* what the last call answered

vars == <<map, erasing, ret>>

Stored == {k \in Keys : map[k] # NoVal}

Init == map = [k \in Keys |-> NoVal] /\ erasing = NoKey /\ ret = NoVal

Insert(k, v) ==
  /\ erasing = NoKey /\ Cardinality(Stored) < Limit
  /\ map' = [map EXCEPT ![k] = v] /\ ret' = TRUE
  /\ UNCHANGED erasing

InsertRefused ==
  /\ erasing = NoKey /\ Cardinality(Stored) >= Limit
  /\ ret' = FALSE
  /\ UNCHANGED <<map, erasing>>

Find(k) ==
  /\ erasing = NoKey
  /\ ret' = map[k]
  /\ UNCHANGED <<map, erasing>>

EraseAbsent(k) ==
  /\ erasing = NoKey /\ map[k] = NoVal
  /\ ret' = FALSE
  /\ UNCHANGED <<map, erasing>>

EraseBegin(k) ==
  /\ erasing = NoKey /\ map[k] # NoVal
  /\ erasing' = k
  /\ UNCHANGED <<map, ret>>

Forget ==
  /\ erasing # NoKey
  /\ map' = [map EXCEPT ![erasing] = NoVal]
  /\ UNCHANGED <<erasing, ret>>

EraseEnd ==
  /\ erasing # NoKey
  /\ map' = [map EXCEPT ![erasing] = NoVal]
  /\ erasing' = NoKey /\ ret' = TRUE

Next ==
  \/ \E k \in Keys : (\E v \in Vals : Insert(k, v)) \/ Find(k) \/ EraseAbsent(k) \/ EraseBegin(k)
  \/ InsertRefused \/ Forget \/ EraseEnd

Spec == Init /\ [][Next]_vars

\* Every erase that began returns.
FairSpec == Spec /\ WF_vars(EraseEnd)
=============================================================================
