---------------------------- MODULE MCFlatHash ----------------------------
(* Model checking of FlatHash: constants in the .cfg and here *)
EXTENDS FlatHash

\* Keys differ by their homes alone, so homes that do not decrease from key to
\* key stand for all.
SortedHomes ==
  {h \in [Keys -> 0 .. CapacityPow2 - 1] : \A k, l \in Keys : k <= l => h[k] <= h[l]}
=============================================================================
