------------------------------- MODULE BboFeed -------------------------------
(***************************************************************************)
(* The BBO publisher of src/include/lob/bbo.hpp, the ring it pushes to and *)
(* the subscriber that drains it (the head of the strategy's loop in       *)
(* src/bench/bench_trading_loop.cpp).                                      *)
(*                                                                         *)
(* A top of book is one value: its two prices and two quantities are only  *)
(* ever compared together and copied together.  The ring is a sequence     *)
(* that refuses a push when full, which is what SpscRing is shown to be.   *)
(* lost, got and sent record the numbers dropped, the numbers received and *)
(* the top pushed last.                                                    *)
(***************************************************************************)
EXTENDS Integers, Sequences, FiniteSets

CONSTANTS Tops, EmptyTop,
          Capacity,    \* of the ring
          MaxSeq       \* bound: changes of the top in a behaviour

ASSUME FeedAssumption == EmptyTop \in Tops /\ Capacity \in Nat \ {0} /\ MaxSeq \in Nat

VARIABLES last,                 \* the publisher's last_, without its number
          seq, published, dropped,
          ring,
          last_seq, gaps, view, \* the subscriber's: last number, gaps, last top
          lost, got, sent

publisherVars == <<last, seq, published, dropped, lost, sent>>
subscriberVars == <<last_seq, gaps, view, got>>
vars == <<publisherVars, ring, subscriberVars>>

Init ==
  /\ last = EmptyTop /\ seq = 0 /\ published = 0 /\ dropped = 0
  /\ ring = <<>>
  /\ last_seq = 0 /\ gaps = 0 /\ view = EmptyTop
  /\ lost = {} /\ got = {} /\ sent = EmptyTop

-----------------------------------------------------------------------------
(* on_message_applied, after a message that left the book with top t *)

\* Mutant: the quantities are not compared.
UnchangedPrices(t) ==
  /\ t.bp = last.bp /\ t.ap = last.ap
  /\ UNCHANGED vars

Unchanged(t) ==
  /\ t = last
  /\ UNCHANGED vars

NextSeq == seq + 1

\* Mutant: the snapshot is pushed before it is brought up to date.
SnapshotTooEarly(t) == [top |-> last, seq |-> NextSeq]
Snapshot(t) == [top |-> t, seq |-> NextSeq]

Publish(t) ==
  /\ t # last /\ seq < MaxSeq /\ Len(ring) < Capacity
  /\ last' = t
  /\ seq' = NextSeq
  /\ ring' = Append(ring, Snapshot(t))
  /\ published' = published + 1
  /\ sent' = Snapshot(t).top
  /\ UNCHANGED <<dropped, lost, subscriberVars>>

\* The ring is full: conflate, never spin.
Drop(t) ==
  /\ t # last /\ seq < MaxSeq /\ Len(ring) >= Capacity
  /\ last' = t
  /\ seq' = NextSeq
  /\ dropped' = dropped + 1
  /\ lost' = lost \union {seq + 1}
  /\ UNCHANGED <<ring, published, sent, subscriberVars>>

on_message_applied(t) == Unchanged(t) \/ Publish(t) \/ Drop(t)

-----------------------------------------------------------------------------
(* The subscriber *)

\* Mutant: the first update counts as a gap.
IsGapAlways(u) == u.seq # last_seq
IsGap(u) == last_seq # 0 /\ u.seq # last_seq + 1

Receive ==
  LET u == Head(ring)
  IN /\ ring # <<>>
     /\ ring' = Tail(ring)
     /\ gaps' = gaps + (IF IsGap(u) THEN 1 ELSE 0)
     /\ last_seq' = u.seq /\ view' = u.top
     /\ got' = got \union {u.seq}
     /\ UNCHANGED publisherVars

Next == (\E t \in Tops : on_message_applied(t)) \/ Receive

Spec == Init /\ [][Next]_vars

-----------------------------------------------------------------------------
(* The properties of the feed *)

TypeOK ==
  /\ last \in Tops /\ view \in Tops /\ sent \in Tops
  /\ seq \in 0 .. MaxSeq /\ published \in Nat /\ dropped \in Nat
  /\ published + dropped = seq
  /\ ring \in Seq([top : Tops, seq : 1 .. MaxSeq]) /\ Len(ring) <= Capacity
  /\ last_seq \in 0 .. MaxSeq /\ gaps \in Nat
  /\ lost \in SUBSET (1 .. MaxSeq) /\ got \in SUBSET (1 .. MaxSeq)

\* "The seq field lets the consumer DETECT the gap" (bbo.hpp:30): the subscriber
\* has counted one gap for each run of dropped updates in front of one it got.
GapsExact == gaps = Cardinality({s \in got : s - 1 \in lost})

\* A subscriber that drains its ring ends with the current top, unless the
\* newest change was dropped.
DrainedIsCurrent == (ring = <<>> /\ seq \notin lost) => view = last
=============================================================================
