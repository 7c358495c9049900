---------------------------- MODULE SpscRingProofs ----------------------------
(***************************************************************************)
(* The ring is a bounded FIFO channel for every capacity, every set of     *)
(* items and any number of operations.  The inductive invariant orders the *)
(* six indices, ties what each thread may touch to what it knows of the    *)
(* other, and says what the occupied slots hold.                           *)
(***************************************************************************)
EXTENDS SpscRing, TLAPS

\* Sequence numbers less than a lap apart have different slots.
LEMMA SlotInjective ==
  ASSUME NEW m \in Nat, NEW n \in Nat, m < n, n < m + Cap
  PROVE  Slot(m) # Slot(n)
<1>1. Cap \in Nat /\ Cap > 0
  BY RingAssumption
<1>2. Slot(m) \in 0 .. Cap - 1 /\ m = Cap * (m \div Cap) + Slot(m) /\ (m \div Cap) \in Int
  BY <1>1 DEF Slot
<1>3. Slot(n) \in 0 .. Cap - 1 /\ n = Cap * (n \div Cap) + Slot(n) /\ (n \div Cap) \in Int
  BY <1>1 DEF Slot
<1> SUFFICES ASSUME Slot(m) = Slot(n) PROVE FALSE
  OBVIOUS
<1> DEFINE k == (n \div Cap) - (m \div Cap)
<1>4. n - m = Cap * k /\ k \in Int
  BY <1>1, <1>2, <1>3
<1>5. CASE k >= 1
  <2>1. Cap * k >= Cap
    BY <1>1, <1>4, <1>5
  <2> QED BY <1>1, <1>4, <2>1
<1>6. CASE k <= 0
  <2>1. Cap * k <= 0
    BY <1>1, <1>4, <1>6
  <2> QED BY <1>4, <2>1
<1> QED BY <1>4, <1>5, <1>6
Indices ==
  /\ knownTail = tailCache /\ knownHead = headCache
  /\ tailCache <= tail /\ tail <= headCache /\ headCache <= head
  /\ head - tailCache <= Cap
  /\ pcP \in {"write", "publish"} => head - tailCache < Cap
  /\ pcC \in {"read", "release"} => tail < headCache

Contents ==
  /\ Len(sent) = head /\ Len(rcvd) = tail
  /\ \A n \in tail .. head - 1 : buf[Slot(n)] = sent[n + 1]
  /\ pcP # "idle" => item \in Items
  /\ pcP = "publish" => buf[Slot(head)] = item
  /\ pcC = "release" => out = sent[tail + 1]
  /\ \A i \in 1 .. tail : rcvd[i] = sent[i]

RingInv == TypeOK /\ Indices /\ Contents

LEMMA SlotType == \A n \in Nat : Slot(n) \in 0 .. Cap - 1
BY RingAssumption DEF Slot

LEMMA RingInit == Init => RingInv
<1> SUFFICES ASSUME Init PROVE RingInv
  OBVIOUS
<1>1. TypeOK
  BY RingAssumption DEF Init, TypeOK
<1>2. Indices
  BY RingAssumption DEF Init, Indices
<1>3. Contents
  BY DEF Init, Contents
<1> QED BY <1>1, <1>2, <1>3 DEF RingInv

LEMMA RingStep == RingInv /\ [Next]_vars => RingInv'
<1> SUFFICES ASSUME RingInv, [Next]_vars PROVE RingInv'
  OBVIOUS
<1> USE DEF RingInv
<1>0. Cap \in Nat /\ Cap >= 2
  BY RingAssumption
<1>1. CASE UNCHANGED vars
  BY <1>1 DEF vars, TypeOK, Indices, Contents
<1>2. ASSUME NEW x \in Items, PushStart(x) PROVE RingInv'
  <2>1. TypeOK'
    BY <1>2 DEF PushStart, consumerVars, TypeOK
  <2>2. Indices'
    BY <1>0, <1>2 DEF PushStart, consumerVars, TypeOK, Indices, LooksFull
  <2>3. Contents'
    BY <1>2 DEF PushStart, consumerVars, Contents
  <2> QED BY <2>1, <2>2, <2>3
<1>3. ASSUME NEW t \in tailCache .. tail, PushRefresh(t) PROVE RingInv'
  <2>1. TypeOK'
    BY <1>3 DEF PushRefresh, AcquireTail, consumerVars, TypeOK
  <2>2. Indices'
    BY <1>0, <1>3 DEF PushRefresh, AcquireTail, consumerVars, TypeOK, Indices, LooksFull
  <2>3. Contents'
    BY <1>3 DEF PushRefresh, AcquireTail, consumerVars, Contents
  <2> QED BY <2>1, <2>2, <2>3
<1>4. CASE PushWrite
  <2>0. item \in Items /\ Slot(head) \in 0 .. Cap - 1
    BY <1>4, SlotType DEF PushWrite, TypeOK, Contents
  <2>1. TypeOK'
    BY <1>4, <2>0 DEF PushWrite, consumerVars, TypeOK
  <2>2. Indices'
    BY <1>4 DEF PushWrite, consumerVars, Indices
  <2>3. \A n \in tail .. head - 1 : buf'[Slot(n)] = sent[n + 1]
    <3> SUFFICES ASSUME NEW n \in tail .. head - 1 PROVE buf'[Slot(n)] = sent[n + 1]
      OBVIOUS
    <3>1. n \in Nat /\ head \in Nat /\ n < head /\ head < n + Cap
      BY <1>0, <1>4 DEF PushWrite, TypeOK, Indices
    <3>2. Slot(n) # Slot(head) /\ Slot(n) \in 0 .. Cap - 1
      BY <3>1, SlotInjective, SlotType
    <3> QED BY <1>4, <3>2 DEF PushWrite, TypeOK, Contents
  <2>4. buf'[Slot(head)] = item
    BY <1>4, <2>0 DEF PushWrite, TypeOK
  <2>5. Contents'
    BY <1>4, <2>3, <2>4 DEF PushWrite, consumerVars, Contents
  <2> QED BY <2>1, <2>2, <2>5
<1>5. CASE PushPublish
  <2>0. item \in Items
    BY <1>5 DEF PushPublish, Contents
  <2>1. TypeOK'
    BY <1>5, <2>0 DEF PushPublish, consumerVars, TypeOK
  <2>2. Indices'
    BY <1>0, <1>5 DEF PushPublish, consumerVars, TypeOK, Indices
  <2>3. Len(sent') = head + 1 /\ sent'[head + 1] = item /\ \A i \in 1 .. head : sent'[i] = sent[i]
    BY <1>5, <2>0 DEF PushPublish, TypeOK, Contents
  <2>4. \A n \in tail .. head : buf[Slot(n)] = sent'[n + 1]
    <3> SUFFICES ASSUME NEW n \in tail .. head PROVE buf[Slot(n)] = sent'[n + 1]
      OBVIOUS
    <3>1. CASE n = head
      BY <1>5, <2>3, <3>1 DEF PushPublish, Contents
    <3>2. CASE n # head
      <4>1. n \in tail .. head - 1 /\ n + 1 \in 1 .. head
        BY <3>2 DEF TypeOK
      <4> QED BY <2>3, <4>1 DEF Contents
    <3> QED BY <3>1, <3>2
  <2>5. tail \in Nat /\ head \in Nat /\ tail <= head /\ (pcC = "release" => tail + 1 <= head)
    BY DEF TypeOK, Indices
  <2>6. Contents'
    <3>1. \A n \in tail' .. head' - 1 : buf'[Slot(n)] = sent'[n + 1]
      <4>1. tail' = tail /\ head' - 1 = head /\ buf' = buf
        BY <1>5, <2>5 DEF PushPublish, consumerVars
      <4> QED BY <2>4, <4>1
    <3>2. pcC' = "release" => out' = sent'[tail' + 1]
      BY <1>5, <2>3, <2>5 DEF PushPublish, consumerVars, Contents
    <3>3. \A i \in 1 .. tail' : rcvd'[i] = sent'[i]
      BY <1>5, <2>3, <2>5 DEF PushPublish, consumerVars, Contents
    <3> QED BY <1>5, <2>3, <3>1, <3>2, <3>3 DEF PushPublish, consumerVars, Contents
  <2> QED BY <2>1, <2>2, <2>6
<1>6. CASE PopStart
  <2>1. TypeOK'
    BY <1>6 DEF PopStart, producerVars, TypeOK
  <2>2. Indices'
    BY <1>6 DEF PopStart, producerVars, TypeOK, Indices, LooksEmpty
  <2>3. Contents'
    BY <1>6 DEF PopStart, producerVars, Contents
  <2> QED BY <2>1, <2>2, <2>3
<1>7. ASSUME NEW h \in headCache .. head, PopRefresh(h) PROVE RingInv'
  <2>1. TypeOK'
    BY <1>7 DEF PopRefresh, AcquireHead, producerVars, TypeOK
  <2>2. Indices'
    BY <1>7 DEF PopRefresh, AcquireHead, producerVars, TypeOK, Indices, LooksEmpty
  <2>3. Contents'
    BY <1>7 DEF PopRefresh, AcquireHead, producerVars, Contents
  <2> QED BY <2>1, <2>2, <2>3
<1>8. CASE PopRead
  <2>1. tail \in tail .. head - 1 /\ tail < knownHead
    BY <1>8 DEF PopRead, TypeOK, Indices
  <2>2. out' = sent[tail + 1]
    BY <1>8, <2>1 DEF PopRead, Contents
  <2>3. TypeOK'
    <3>1. Slot(tail) \in 0 .. Cap - 1
      BY SlotType DEF TypeOK
    <3> QED BY <1>8, <3>1 DEF PopRead, producerVars, TypeOK
  <2>4. Indices'
    BY <1>8 DEF PopRead, producerVars, Indices
  <2>5. Contents'
    BY <1>8, <2>2 DEF PopRead, producerVars, Contents
  <2> QED BY <2>3, <2>4, <2>5
<1>9. CASE PopRelease
  <2>0. tail \in Nat /\ head \in Nat /\ tail < head /\ out = sent[tail + 1]
    BY <1>9 DEF PopRelease, TypeOK, Indices, Contents
  <2>1. TypeOK'
    BY <1>9 DEF PopRelease, producerVars, TypeOK
  <2>2. Indices'
    BY <1>9 DEF PopRelease, producerVars, TypeOK, Indices
  <2>3. Len(rcvd') = tail + 1 /\ rcvd'[tail + 1] = out /\ \A i \in 1 .. tail : rcvd'[i] = rcvd[i]
    BY <1>9 DEF PopRelease, TypeOK, Contents
  <2>4. \A i \in 1 .. tail + 1 : rcvd'[i] = sent[i]
    <3> SUFFICES ASSUME NEW i \in 1 .. tail + 1 PROVE rcvd'[i] = sent[i]
      OBVIOUS
    <3>1. CASE i = tail + 1
      BY <2>0, <2>3, <3>1
    <3>2. CASE i # tail + 1
      BY <2>0, <2>3, <3>2 DEF Contents
    <3> QED BY <3>1, <3>2
  <2>5. Contents'
    BY <1>9, <2>0, <2>3, <2>4 DEF PopRelease, producerVars, Contents
  <2> QED BY <2>1, <2>2, <2>5
<1> QED BY <1>1, <1>2, <1>3, <1>4, <1>5, <1>6, <1>7, <1>8, <1>9 DEF Next, Producer, Consumer

LEMMA RingCorrect == Spec => []RingInv
BY RingInit, RingStep, PTL DEF Spec

\* The ring's variables keep their types.
THEOREM RingTypes == Spec => []TypeOK
BY RingCorrect, PTL DEF RingInv

\* No data race on a slot: what a thread touches, the other has finished with.
THEOREM RaceFree == Spec => []NoSlotRace
<1>1. RingInv => NoSlotRace
  BY RingAssumption DEF RingInv, TypeOK, Indices, NoSlotRace
<1> QED BY <1>1, RingCorrect, PTL

\* The two threads never work on the same slot.
THEOREM ThreadsApart == Spec => []SlotsDisjoint
<1>1. RingInv => SlotsDisjoint
  <2> SUFFICES ASSUME RingInv, pcP \in {"write", "publish"}, pcC \in {"read", "release"}
               PROVE  Slot(head) # Slot(tail)
    BY DEF SlotsDisjoint
  <2>1. tail \in Nat /\ head \in Nat /\ tail < head /\ head < tail + Cap
    BY RingAssumption DEF RingInv, TypeOK, Indices
  <2> QED BY <2>1, SlotInjective
<1> QED BY <1>1, RingCorrect, PTL

\* What is popped is what was pushed, in order, none lost and none torn.
THEOREM StrictFifo == Spec => []PoppedIsPushedPrefix
<1>1. RingInv => PoppedIsPushedPrefix
  BY DEF RingInv, TypeOK, Indices, Contents, PoppedIsPushedPrefix
<1> QED BY <1>1, RingCorrect, PTL

\* The ring implements the bounded FIFO channel: its publishing step is the
\* channel's Push, its releasing step the channel's Pop, all others stutter.
THEOREM ImplementsChannel == Spec => Channel!Spec
<1>1. Init => Channel!Init
  BY DEF Init, Channel!Init
<1>2. RingInv /\ [Next]_vars => [Channel!Next]_(Channel!vars)
  <2> SUFFICES ASSUME RingInv, [Next]_vars PROVE [Channel!Next]_(Channel!vars)
    OBVIOUS
  <2> USE DEF Channel!vars
  <2>1. CASE PushPublish
    <3>1. item \in Items /\ Len(sent) - Len(rcvd) < Cap
      BY <2>1, RingAssumption DEF PushPublish, RingInv, TypeOK, Indices, Contents
    <3>2. Channel!Push(item)
      BY <2>1, <3>1 DEF PushPublish, consumerVars, Channel!Push
    <3> QED BY <3>1, <3>2 DEF Channel!Next
  <2>2. CASE PopRelease
    <3>1. Len(rcvd) < Len(sent) /\ out = sent[Len(rcvd) + 1]
      BY <2>2 DEF PopRelease, RingInv, TypeOK, Indices, Contents
    <3>2. Channel!Pop
      BY <2>2, <3>1 DEF PopRelease, producerVars, Channel!Pop
    <3> QED BY <3>2 DEF Channel!Next
  <2>3. CASE UNCHANGED vars
    BY <2>3 DEF vars
  <2>4. ASSUME NEW x \in Items, PushStart(x) PROVE UNCHANGED <<sent, rcvd>>
    BY <2>4 DEF PushStart, consumerVars
  <2>5. ASSUME NEW t, PushRefresh(t) PROVE UNCHANGED <<sent, rcvd>>
    BY <2>5 DEF PushRefresh, consumerVars
  <2>6. CASE PushWrite
    BY <2>6 DEF PushWrite, consumerVars
  <2>7. CASE PopStart
    BY <2>7 DEF PopStart, producerVars
  <2>8. ASSUME NEW h, PopRefresh(h) PROVE UNCHANGED <<sent, rcvd>>
    BY <2>8 DEF PopRefresh, producerVars
  <2>9. CASE PopRead
    BY <2>9 DEF PopRead, producerVars
  <2> QED BY <2>1, <2>2, <2>3, <2>4, <2>5, <2>6, <2>7, <2>8, <2>9 DEF Next, Producer, Consumer
<1> QED BY <1>1, <1>2, RingCorrect, PTL DEF Spec, Channel!Spec
=============================================================================
