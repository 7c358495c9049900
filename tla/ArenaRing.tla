------------------------------ MODULE ArenaRing ------------------------------
(***************************************************************************)
(* The zero-copy ring of src/include/lob/arena_ring.hpp.  The producer     *)
(* claims a slot, writes a frame into it word by word and publishes it;    *)
(* the consumer peeks at the oldest frame, reads it where it lies and      *)
(* hands the slot back.                                                    *)
(*                                                                         *)
(* Memory model.  A load of the peer's index returns any value stored      *)
(* since the one loaded last.  tail_ is stored with release and loaded     *)
(* with acquire.  head_ is stored and loaded relaxed: a store carries the  *)
(* slot writes before the last release fence (carried), and they become    *)
(* visible at the acquire fence after the load (knownHead).  A word read   *)
(* before its write is visible is Torn.                                    *)
(***************************************************************************)
EXTENDS Integers, Sequences

CONSTANTS Cap,       \* CapacityPow2
          Words,     \* a slot's words
          Items,     \* frames; every word of one holds its name
          MaxSeq,    \* bound: frames in a behaviour
          Torn       \* what a racing read yields

ASSUME ArenaAssumption ==
  Cap \in Nat /\ Cap >= 2 /\ MaxSeq \in Nat /\ Words # {} /\ Torn \notin Items

VARIABLES head, tail, tailCache, headCache, knownTail, knownHead,
          fenced,          \* slot writes before the producer's last fence
          carried,         \* carried[h]: what the store of h to head_ carries
          slots,
          pcP, item, todo, \* producer: step, frame, words not yet written
          pcC, view,       \* consumer: step, words read so far
          sent, rcvd

producerVars == <<head, tailCache, knownTail, fenced, carried, pcP, item, todo, sent>>
consumerVars == <<tail, headCache, knownHead, pcC, view, rcvd>>
vars == <<producerVars, consumerVars, slots>>

Slot(n) == n % Cap               \* n & MASK

Init ==
  /\ head = 0 /\ tail = 0 /\ tailCache = 0 /\ headCache = 0
  /\ knownTail = 0 /\ knownHead = 0 /\ fenced = 0 /\ carried = <<>>
  /\ slots = [i \in 0 .. Cap - 1 |-> [w \in Words |-> Torn]]
  /\ pcP = "idle" /\ item = Torn /\ todo = {} /\ pcC = "idle" /\ view = <<>>
  /\ sent = <<>> /\ rcvd = <<>>

-----------------------------------------------------------------------------
(* The producer: try_acquire, the frame's bytes, publish *)

LooksFull(cache) == head - cache >= Cap

AcquireStart(x) ==
  /\ pcP = "idle" /\ head < MaxSeq
  /\ item' = x /\ todo' = Words
  /\ pcP' = IF LooksFull(tailCache) THEN "refresh" ELSE "write"
  /\ UNCHANGED <<head, tailCache, knownTail, fenced, carried, sent, slots, consumerVars>>

\* try_acquire returns nullptr when the ring still looks full.
AcquireRefresh(t) ==
  /\ pcP = "refresh"
  /\ tailCache' = t /\ knownTail' = t
  /\ pcP' = IF LooksFull(t) THEN "idle" ELSE "write"
  /\ UNCHANGED <<head, fenced, carried, item, todo, sent, slots, consumerVars>>

Write(w) ==
  /\ pcP = "write" /\ w \in todo
  /\ slots' = [slots EXCEPT ![Slot(head)][w] = item]
  /\ todo' = todo \ {w}
  /\ UNCHANGED <<head, tailCache, knownTail, fenced, carried, pcP, item, sent, consumerVars>>

\* Mutant: no release fence.
NoReleaseFence == fenced' = fenced
ReleaseFence == fenced' = head + 1

PublishFence ==
  /\ pcP = "write" /\ todo = {}
  /\ ReleaseFence
  /\ pcP' = "publish"
  /\ UNCHANGED <<head, tailCache, knownTail, carried, item, todo, sent, slots, consumerVars>>

PublishStore ==
  /\ pcP = "publish"
  /\ head' = head + 1
  /\ carried' = Append(carried, fenced)
  /\ sent' = Append(sent, item)
  /\ pcP' = "idle"
  /\ UNCHANGED <<tailCache, knownTail, fenced, item, todo, slots, consumerVars>>

-----------------------------------------------------------------------------
(* The consumer: try_front, reading in place, release *)

\* Mutant: the last frame is left behind.
LooksEmptyEarly(cache) == tail + 1 >= cache
LooksEmpty(cache) == tail >= cache

FrontStart ==
  /\ pcC = "idle"
  /\ pcC' = IF LooksEmpty(headCache) THEN "refresh" ELSE "read"
  /\ view' = <<>>
  /\ UNCHANGED <<tail, headCache, knownHead, rcvd, slots, producerVars>>

\* The relaxed load; an empty ring is left without a fence.
FrontRefresh(h) ==
  /\ pcC = "refresh"
  /\ headCache' = h
  /\ pcC' = IF LooksEmpty(h) THEN "idle" ELSE "fence"
  /\ UNCHANGED <<tail, knownHead, view, rcvd, slots, producerVars>>

\* Mutant: no acquire fence.
NoAcquireFence == knownHead
AcquireFence == carried[headCache]

FrontFence ==
  /\ pcC = "fence"
  /\ knownHead' = AcquireFence
  /\ pcC' = "read"
  /\ UNCHANGED <<tail, headCache, view, rcvd, slots, producerVars>>

Read(w) ==
  /\ pcC = "read" /\ w \notin DOMAIN view
  /\ view' = [v \in DOMAIN view \union {w} |->
                IF v # w THEN view[v] ELSE IF tail < knownHead THEN slots[Slot(tail)][w] ELSE Torn]
  /\ UNCHANGED <<tail, headCache, knownHead, pcC, rcvd, slots, producerVars>>

ReadAll == DOMAIN view = Words

\* The release store of tail_.
ReleaseSlot ==
  /\ pcC = "read" /\ ReadAll
  /\ tail' = tail + 1
  /\ rcvd' = Append(rcvd, view)
  /\ pcC' = "idle"
  /\ UNCHANGED <<headCache, knownHead, view, slots, producerVars>>

-----------------------------------------------------------------------------
Producer ==
  \/ \E x \in Items : AcquireStart(x)
  \/ \E t \in tailCache .. tail : AcquireRefresh(t)
  \/ \E w \in Words : Write(w)
  \/ PublishFence \/ PublishStore

Consumer ==
  \/ FrontStart
  \/ \E h \in headCache .. head : FrontRefresh(h)
  \/ FrontFence
  \/ \E w \in Words : Read(w)
  \/ ReleaseSlot

Next == Producer \/ Consumer

Spec == Init /\ [][Next]_vars

\* As for the SPSC ring: the consumer polls, a frame that was begun is published,
\* a store becomes visible to a thread that keeps loading.
Fairness ==
  /\ WF_vars(Consumer)
  /\ WF_vars((\E w \in Words : Write(w)) \/ PublishFence \/ PublishStore
             \/ \E t \in tailCache .. tail : AcquireRefresh(t))
  /\ SF_vars(FrontRefresh(head))
  /\ SF_vars(AcquireRefresh(tail))

FairSpec == Spec /\ Fairness

-----------------------------------------------------------------------------
(* The properties of the arena ring *)

Frame == [Words -> Items \union {Torn}]

\* Types, and neither index nor cache beyond what it follows.
TypeOK ==
  /\ head \in Nat /\ tail \in 0 .. head /\ tailCache \in 0 .. tail /\ headCache \in 0 .. head
  /\ knownTail \in Nat /\ knownHead \in Nat /\ fenced \in Nat
  /\ carried \in Seq(Nat) /\ Len(carried) = head
  /\ slots \in [0 .. Cap - 1 -> Frame]
  /\ pcP \in {"idle", "refresh", "write", "publish"}
  /\ item \in Items \union {Torn} /\ todo \subseteq Words
  /\ pcC \in {"idle", "refresh", "fence", "read"}
  /\ DOMAIN view \subseteq Words /\ \A w \in DOMAIN view : view[w] \in Items \union {Torn}
  /\ sent \in Seq(Items) /\ rcvd \in Seq(Frame)

\* A word is written only after the consumer's reads of the slot's last frame
\* happened, and read only after its write did ("the consumer core can never
\* observe the new head yet read stale slot bytes", arena_ring.hpp:41), the fence
\* being skipped when the cached index is enough.
NoSlotRace ==
  /\ pcP = "write" => head - Cap < knownTail
  /\ pcC = "read" => tail < knownHead

Channel == INSTANCE BoundedQueue
  WITH Items <- [Words -> Items], Capacity <- Cap,
       accepted <- [i \in 1 .. Len(sent) |-> [w \in Words |-> sent[i]]],
       delivered <- rcvd

\* The arena ring implements the same bounded FIFO channel as the copying ring:
\* every frame read in place is the frame published, whole and in order.
ImplementsBoundedQueue == Channel!FairSpec
=============================================================================
