------------------------------- MODULE SpscRing -------------------------------
(***************************************************************************)
(* The lock-free single-producer single-consumer ring of                   *)
(* src/include/lob/spsc_ring.hpp, split at its accesses to shared memory.  *)
(*                                                                         *)
(* Memory model.  head_ and tail_ are atomics with one writer each.  A     *)
(* load by the other thread may return any value the writer has stored     *)
(* since the value that thread loaded last (coherence), so it can be       *)
(* stale; an acquire load makes the accesses that preceded the release     *)
(* store of that value visible.  knownHead is how many slot writes happen  *)
(* before the consumer's next step, knownTail how many slot reads happen   *)
(* before the producer's.  A read of a slot whose write is not among them  *)
(* is a data race and yields Torn.                                         *)
(*                                                                         *)
(* Indices are the code's uint64 sequence numbers, bounded by MaxSeq (a    *)
(* wrap takes centuries).  sent and rcvd record what was pushed and popped. *)
(***************************************************************************)
EXTENDS Integers, Sequences

CONSTANTS Cap,       \* CapacityPow2
          Items,     \* what is pushed
          MaxSeq,    \* bound: pushes in a behaviour
          Torn       \* what a racing read yields

ASSUME RingAssumption == Cap \in Nat /\ Cap >= 2 /\ MaxSeq \in Nat /\ Torn \notin Items

VARIABLES head, tail,            \* the published indices
          tailCache, headCache,  \* each side's cached copy of its peer's
          knownTail, knownHead,  \* what each side's acquires made visible
          buf,                   \* the slots
          pcP, item,             \* producer: its step and try_push's argument
          pcC, out,              \* consumer: its step and try_pop's result
          sent, rcvd

producerVars == <<head, tailCache, knownTail, pcP, item, sent>>
consumerVars == <<tail, headCache, knownHead, pcC, out, rcvd>>
vars == <<head, tail, tailCache, headCache, knownTail, knownHead, buf,
          pcP, item, pcC, out, sent, rcvd>>

Slot(n) == n % Cap               \* n & MASK

Init ==
  /\ head = 0 /\ tail = 0 /\ tailCache = 0 /\ headCache = 0
  /\ knownTail = 0 /\ knownHead = 0
  /\ buf = [i \in 0 .. Cap - 1 |-> Torn]
  /\ pcP = "idle" /\ item = Torn /\ pcC = "idle" /\ out = Torn
  /\ sent = <<>> /\ rcvd = <<>>

-----------------------------------------------------------------------------
(* try_push *)

LooksFull(cache) == head - cache >= Cap

\* The call: an own-variable load and the test against the cached tail.
PushStart(x) ==
  /\ pcP = "idle" /\ head < MaxSeq
  /\ item' = x
  /\ pcP' = IF LooksFull(tailCache) THEN "refresh" ELSE "write"
  /\ UNCHANGED <<head, tailCache, knownTail, sent, buf, consumerVars>>

\* Mutant: a relaxed load, which makes nothing visible.
RelaxedTail(t) == tailCache' = t /\ UNCHANGED knownTail

\* The acquire load of tail_ synchronises with the release store of t.
AcquireTail(t) == tailCache' = t /\ knownTail' = t

\* Refresh the cache; the call returns false when the ring still looks full.
PushRefresh(t) ==
  /\ pcP = "refresh"
  /\ AcquireTail(t)
  /\ pcP' = IF LooksFull(t) THEN "idle" ELSE "write"
  /\ UNCHANGED <<head, item, sent, buf, consumerVars>>

PushWrite ==
  /\ pcP = "write"
  /\ buf' = [buf EXCEPT ![Slot(head)] = item]
  /\ pcP' = "publish"
  /\ UNCHANGED <<head, tailCache, knownTail, item, sent, consumerVars>>

\* The release store of head_; the call returns true.
PushPublish ==
  /\ pcP = "publish"
  /\ head' = head + 1
  /\ sent' = Append(sent, item)
  /\ pcP' = "idle"
  /\ UNCHANGED <<tailCache, knownTail, item, buf, consumerVars>>

-----------------------------------------------------------------------------
(* try_pop *)

\* Mutant: the last item is left behind.
LooksEmptyEarly(cache) == tail + 1 >= cache
LooksEmpty(cache) == tail >= cache

PopStart ==
  /\ pcC = "idle"
  /\ pcC' = IF LooksEmpty(headCache) THEN "refresh" ELSE "read"
  /\ UNCHANGED <<tail, headCache, knownHead, out, rcvd, buf, producerVars>>

AcquireHead(h) == headCache' = h /\ knownHead' = h

PopRefresh(h) ==
  /\ pcC = "refresh"
  /\ AcquireHead(h)
  /\ pcC' = IF LooksEmpty(h) THEN "idle" ELSE "read"
  /\ UNCHANGED <<tail, out, rcvd, buf, producerVars>>

PopRead ==
  /\ pcC = "read"
  /\ out' = IF tail < knownHead THEN buf[Slot(tail)] ELSE Torn
  /\ pcC' = "release"
  /\ UNCHANGED <<tail, headCache, knownHead, rcvd, buf, producerVars>>

\* The release store of tail_; the call returns true with the item.
PopRelease ==
  /\ pcC = "release"
  /\ tail' = tail + 1
  /\ rcvd' = Append(rcvd, out)
  /\ pcC' = "idle"
  /\ UNCHANGED <<headCache, knownHead, out, buf, producerVars>>

-----------------------------------------------------------------------------
Producer ==
  \/ \E x \in Items : PushStart(x)
  \/ \E t \in tailCache .. tail : PushRefresh(t)
  \/ PushWrite \/ PushPublish

Consumer ==
  \/ PopStart
  \/ \E h \in headCache .. head : PopRefresh(h)
  \/ PopRead \/ PopRelease

Next == Producer \/ Consumer

Spec == Init /\ [][Next]_vars

\* The consumer polls, as every consumer loop in the repository does, a call of
\* try_push that has begun goes on, and a store becomes visible to a thread that
\* keeps loading the atomic.
Fairness ==
  /\ WF_vars(Consumer)
  /\ WF_vars(PushWrite \/ PushPublish \/ \E t \in tailCache .. tail : PushRefresh(t))
  /\ SF_vars(PopRefresh(head))
  /\ SF_vars(PushRefresh(tail))

FairSpec == Spec /\ Fairness

-----------------------------------------------------------------------------
(* The properties of the ring *)

\* Types, and the sequence numbers in the order the protocol keeps them.
TypeOK ==
  /\ head \in Nat /\ tail \in Nat /\ tailCache \in Nat /\ headCache \in Nat
  /\ knownTail \in Nat /\ knownHead \in Nat
  /\ buf \in [0 .. Cap - 1 -> Items \union {Torn}]
  /\ pcP \in {"idle", "refresh", "write", "publish"} /\ item \in Items \union {Torn}
  /\ pcC \in {"idle", "refresh", "read", "release"} /\ out \in Items \union {Torn}
  /\ sent \in Seq(Items) /\ rcvd \in Seq(Items \union {Torn})

\* The producer writes a slot only after the consumer's read of its previous
\* content happened, and the consumer reads one only after its write happened:
\* the claim of the ACQUIRE comments in try_push and try_pop.
NoSlotRace ==
  /\ pcP = "write" => head - Cap < knownTail
  /\ pcC = "read" => tail < knownHead

\* The two threads are never at work on the same slot.
SlotsDisjoint ==
  (pcP \in {"write", "publish"} /\ pcC \in {"read", "release"}) => Slot(head) # Slot(tail)

\* What is popped is what was pushed, in order: "strict FIFO, no loss, no
\* tearing" (tests/test_correctness.cpp:331).
PoppedIsPushedPrefix ==
  Len(rcvd) <= Len(sent) /\ \A i \in 1 .. Len(rcvd) : rcvd[i] = sent[i]

Channel == INSTANCE BoundedQueue
  WITH Capacity <- Cap, accepted <- sent, delivered <- rcvd

\* The ring implements the bounded FIFO channel, delivery included.
ImplementsBoundedQueue == Channel!FairSpec
=============================================================================
