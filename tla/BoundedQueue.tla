----------------------------- MODULE BoundedQueue -----------------------------
(***************************************************************************)
(* What a ring between two threads promises: a FIFO channel that holds at  *)
(* most Capacity items, loses none, duplicates none and reorders none.     *)
(***************************************************************************)
EXTENDS Integers, Sequences

CONSTANTS Items, Capacity

VARIABLES accepted,    \* the items pushed so far
          delivered    \* the items popped so far

vars == <<accepted, delivered>>

Init == accepted = <<>> /\ delivered = <<>>

Push(x) ==
  /\ Len(accepted) - Len(delivered) < Capacity
  /\ accepted' = Append(accepted, x)
  /\ UNCHANGED delivered

Pop ==
  /\ Len(delivered) < Len(accepted)
  /\ delivered' = Append(delivered, accepted[Len(delivered) + 1])
  /\ UNCHANGED accepted

Next == (\E x \in Items : Push(x)) \/ Pop

Spec == Init /\ [][Next]_vars

\* With a consumer that keeps polling, nothing stays in the queue forever.
FairSpec == Spec /\ WF_vars(Pop)
=============================================================================
