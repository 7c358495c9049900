--------------------------- MODULE ArenaRingProofs ---------------------------
(***************************************************************************)
(* The zero-copy ring is the same bounded FIFO channel, with fences for    *)
(* its synchronisation, for every capacity and every number of words in a  *)
(* slot.  The inductive invariant says that a store of head_ carries all   *)
(* the writes before it, that the consumer knows of every frame below its  *)
(* cached index unless it stands before its fence, and what each word of   *)
(* an occupied, a half written and a half read slot holds.                 *)
(***************************************************************************)
EXTENDS ArenaRing, TLAPS

\* Sequence numbers less than a lap apart have different slots.
LEMMA SlotInjective ==
  ASSUME NEW m \in Nat, NEW n \in Nat, m < n, n < m + Cap
  PROVE  Slot(m) # Slot(n)
<1>1. Cap \in Nat /\ Cap > 0
  BY ArenaAssumption
<1>2. Slot(m) \in 0 .. Cap - 1 /\ m = Cap * (m \div Cap) + Slot(m) /\ (m \div Cap) \in Int
  BY <1>1 DEF Slot
<1>3. Slot(n) \in 0 .. Cap - 1 /\ n = Cap * (n \div Cap) + Slot(n) /\ (n \div Cap) \in Int
  BY <1>1 DEF Slot
<1> SUFFICES ASSUME Slot(m) = Slot(n) PROVE FALSE
  OBVIOUS
<1> DEFINE k == (n \div Cap) - (m \div Cap)
<1>4. n - m = Cap * k /\ k \in Int
  BY <1>1, <1>2, <1>3
<1>5. CASE k >= 1
  <2>1. Cap * k >= Cap
    BY <1>1, <1>4, <1>5
  <2> QED BY <1>1, <1>4, <2>1
<1>6. CASE k <= 0
  <2>1. Cap * k <= 0
    BY <1>1, <1>4, <1>6
  <2> QED BY <1>4, <2>1
<1> QED BY <1>4, <1>5, <1>6

LEMMA SlotType == \A n \in Nat : Slot(n) \in 0 .. Cap - 1
BY ArenaAssumption DEF Slot

-----------------------------------------------------------------------------
(* The inductive invariant *)

Indices ==
  /\ knownTail = tailCache
  /\ head - tailCache <= Cap
  /\ pcP \in {"write", "publish"} => head - tailCache < Cap
  /\ tail <= headCache
  /\ pcC # "fence" => knownHead = headCache
  /\ pcC = "refresh" => tail = headCache
  /\ pcC \in {"fence", "read"} => tail < headCache

Fences ==
  /\ \A h \in 1 .. head : carried[h] = h
  /\ pcP = "publish" => fenced = head + 1

Contents ==
  /\ Len(sent) = head /\ Len(rcvd) = tail
  /\ \A n \in tail .. head - 1 : \A w \in Words : slots[Slot(n)][w] = sent[n + 1]
  /\ pcP # "idle" => item \in Items
  /\ pcP \in {"write", "publish"} => \A w \in Words \ todo : slots[Slot(head)][w] = item
  /\ pcP = "refresh" => todo = Words
  /\ pcP = "publish" => todo = {}

View ==
  /\ pcC = "read" => view = [w \in DOMAIN view |-> sent[tail + 1]]
  /\ pcC = "fence" \/ pcC = "refresh" => view = <<>>
  /\ \A i \in 1 .. tail : rcvd[i] = [w \in Words |-> sent[i]]

ArenaInv == TypeOK /\ Indices /\ Fences /\ Contents /\ View

LEMMA ArenaInit == Init => ArenaInv
<1> SUFFICES ASSUME Init PROVE ArenaInv
  OBVIOUS
<1>1. TypeOK
  BY ArenaAssumption DEF Init, TypeOK, Frame
<1>2. Indices
  BY ArenaAssumption DEF Init, Indices
<1>3. Fences /\ Contents /\ View
  BY DEF Init, Fences, Contents, View
<1> QED BY <1>1, <1>2, <1>3 DEF ArenaInv

LEMMA ArenaStep == ArenaInv /\ [Next]_vars => ArenaInv'
<1> SUFFICES ASSUME ArenaInv, [Next]_vars PROVE ArenaInv'
  OBVIOUS
<1> USE DEF ArenaInv
<1>0. Cap \in Nat /\ Cap >= 2
  BY ArenaAssumption
<1>1. CASE UNCHANGED vars
  BY <1>1 DEF vars, producerVars, consumerVars, TypeOK, Indices, Fences, Contents, View
<1>2. ASSUME NEW x \in Items, AcquireStart(x) PROVE ArenaInv'
  <2>1. TypeOK'
    BY <1>2 DEF AcquireStart, consumerVars, TypeOK
  <2>2. Indices'
    BY <1>0, <1>2 DEF AcquireStart, consumerVars, TypeOK, Indices, LooksFull
  <2>3. Fences' /\ Contents' /\ View'
    BY <1>2 DEF AcquireStart, consumerVars, Fences, Contents, View
  <2> QED BY <2>1, <2>2, <2>3
<1>3. ASSUME NEW t \in tailCache .. tail, AcquireRefresh(t) PROVE ArenaInv'
  <2>1. TypeOK'
    BY <1>3 DEF AcquireRefresh, consumerVars, TypeOK
  <2>2. Indices'
    BY <1>0, <1>3 DEF AcquireRefresh, consumerVars, TypeOK, Indices, LooksFull
  <2>3. Fences' /\ Contents' /\ View'
    BY <1>3 DEF AcquireRefresh, consumerVars, Fences, Contents, View
  <2> QED BY <2>1, <2>2, <2>3
<1>4. ASSUME NEW w \in Words, Write(w) PROVE ArenaInv'
  <2>0. item \in Items /\ Slot(head) \in 0 .. Cap - 1 /\ slots[Slot(head)] \in Frame
    BY <1>4, SlotType DEF Write, TypeOK, Contents
  <2>1. slots' \in [0 .. Cap - 1 -> Frame]
    BY <1>4, <2>0 DEF Write, TypeOK, Frame
  <2>2. TypeOK'
    BY <1>4, <2>1 DEF Write, consumerVars, TypeOK
  <2>3. Indices' /\ Fences' /\ View'
    BY <1>4 DEF Write, consumerVars, Indices, Fences, View
  <2>4. \A n \in tail .. head - 1 : slots'[Slot(n)] = slots[Slot(n)]
    <3> SUFFICES ASSUME NEW n \in tail .. head - 1 PROVE slots'[Slot(n)] = slots[Slot(n)]
      OBVIOUS
    <3>1. n \in Nat /\ head \in Nat /\ n < head /\ head < n + Cap
      BY <1>0, <1>4 DEF Write, TypeOK, Indices
    <3>2. Slot(n) # Slot(head) /\ Slot(n) \in 0 .. Cap - 1
      BY <3>1, SlotInjective, SlotType
    <3> QED BY <1>4, <3>2 DEF Write, TypeOK
  <2>5. \A v \in Words \ todo' : slots'[Slot(head)][v] = item
    BY <1>4, <2>0 DEF Write, TypeOK, Frame, Contents
  <2>6. Contents'
    BY <1>4, <2>4, <2>5 DEF Write, consumerVars, Contents
  <2> QED BY <2>2, <2>3, <2>6
<1>5. CASE PublishFence
  <2>1. TypeOK'
    BY <1>5 DEF PublishFence, ReleaseFence, consumerVars, TypeOK
  <2>2. Indices' /\ Fences' /\ Contents' /\ View'
    BY <1>5 DEF PublishFence, ReleaseFence, consumerVars, Indices, Fences, Contents, View
  <2> QED BY <2>1, <2>2
<1>6. CASE PublishStore
  <2>0. item \in Items /\ head \in Nat /\ tail \in Nat /\ tail <= head
    BY <1>6 DEF PublishStore, TypeOK, Contents
  <2>1. TypeOK'
    BY <1>6, <2>0 DEF PublishStore, consumerVars, TypeOK
  <2>2. Indices'
    BY <1>0, <1>6 DEF PublishStore, consumerVars, TypeOK, Indices
  <2>3. Fences'
    BY <1>6 DEF PublishStore, consumerVars, TypeOK, Fences
  <2>4. Len(sent') = head + 1 /\ sent'[head + 1] = item /\ \A i \in 1 .. head : sent'[i] = sent[i]
    BY <1>6, <2>0 DEF PublishStore, TypeOK, Contents
  <2>5. \A n \in tail .. head : \A w \in Words : slots[Slot(n)][w] = sent'[n + 1]
    <3> SUFFICES ASSUME NEW n \in tail .. head, NEW w \in Words PROVE slots[Slot(n)][w] = sent'[n + 1]
      OBVIOUS
    <3>1. CASE n = head
      BY <1>6, <2>4, <3>1 DEF PublishStore, Contents
    <3>2. CASE n # head
      <4>1. n \in tail .. head - 1 /\ n + 1 \in 1 .. head
        BY <2>0, <3>2
      <4> QED BY <2>4, <4>1 DEF Contents
    <3> QED BY <3>1, <3>2
  <2>6. Contents'
    <3>1. \A n \in tail' .. head' - 1 : \A w \in Words : slots'[Slot(n)][w] = sent'[n + 1]
      <4>1. tail' = tail /\ head' - 1 = head /\ slots' = slots
        BY <1>6, <2>0 DEF PublishStore, consumerVars
      <4> QED BY <2>5, <4>1
    <3> QED BY <1>6, <2>0, <2>4, <3>1 DEF PublishStore, consumerVars, Contents
  <2>7. View'
    <3>1. pcC = "read" => tail + 1 \in 1 .. head
      BY <2>0 DEF Indices, TypeOK
    <3>2. \A i \in 1 .. tail : sent'[i] = sent[i]
      BY <2>0, <2>4
    <3> QED BY <1>6, <2>4, <3>1, <3>2 DEF PublishStore, consumerVars, View
  <2> QED BY <2>1, <2>2, <2>3, <2>6, <2>7
<1>7. CASE FrontStart
  <2>1. DOMAIN view' = {} /\ view' = <<>>
    BY <1>7 DEF FrontStart
  <2>2. TypeOK'
    BY <1>7, <2>1 DEF FrontStart, producerVars, TypeOK
  <2>3. Indices'
    BY <1>7 DEF FrontStart, producerVars, TypeOK, Indices, LooksEmpty
  <2>4. Fences' /\ Contents'
    BY <1>7 DEF FrontStart, producerVars, Fences, Contents
  <2>5. View'
    <3>1. <<>> = [w \in {} |-> sent[tail + 1]]
      OBVIOUS
    <3> QED BY <1>7, <2>1, <3>1 DEF FrontStart, producerVars, View
  <2> QED BY <2>2, <2>3, <2>4, <2>5
<1>8. ASSUME NEW h \in headCache .. head, FrontRefresh(h) PROVE ArenaInv'
  <2>1. TypeOK'
    BY <1>8 DEF FrontRefresh, producerVars, TypeOK
  <2>2. Indices'
    BY <1>8 DEF FrontRefresh, producerVars, TypeOK, Indices, LooksEmpty
  <2>3. Fences' /\ Contents' /\ View'
    BY <1>8 DEF FrontRefresh, producerVars, Fences, Contents, View
  <2> QED BY <2>1, <2>2, <2>3
<1>9. CASE FrontFence
  <2>0. headCache \in 1 .. head /\ knownHead' = headCache
    BY <1>9 DEF FrontFence, AcquireFence, TypeOK, Indices, Fences
  <2>1. TypeOK'
    BY <1>9, <2>0 DEF FrontFence, producerVars, TypeOK
  <2>2. Indices'
    BY <1>9, <2>0 DEF FrontFence, producerVars, Indices
  <2>3. Fences' /\ Contents'
    BY <1>9 DEF FrontFence, producerVars, Fences, Contents
  <2>4. View'
    <3>1. <<>> = [w \in DOMAIN <<>> |-> sent[tail + 1]]
      OBVIOUS
    <3>2. view = <<>>
      BY <1>9 DEF FrontFence, View
    <3> QED BY <1>9, <3>1, <3>2 DEF FrontFence, producerVars, View
  <2> QED BY <2>1, <2>2, <2>3, <2>4
<1>10. ASSUME NEW w \in Words, Read(w) PROVE ArenaInv'
  <2>0. tail \in tail .. head - 1 /\ tail < knownHead /\ tail + 1 \in 1 .. Len(sent)
    BY <1>10 DEF Read, TypeOK, Indices, Contents
  <2>1. slots[Slot(tail)][w] = sent[tail + 1] /\ sent[tail + 1] \in Items
    BY <2>0 DEF Contents, TypeOK
  <2>2. view' = [v \in DOMAIN view \union {w} |-> sent[tail + 1]]
    BY <1>10, <2>0, <2>1 DEF Read, View
  <2>3. DOMAIN view' = DOMAIN view \union {w} /\ \A v \in DOMAIN view' : view'[v] = sent[tail + 1]
    BY <2>2
  <2>4. TypeOK'
    BY <1>10, <2>1, <2>3 DEF Read, producerVars, TypeOK
  <2>5. Indices' /\ Fences' /\ Contents'
    BY <1>10 DEF Read, producerVars, Indices, Fences, Contents
  <2>6. View'
    BY <1>10, <2>2, <2>3 DEF Read, producerVars, View
  <2> QED BY <2>4, <2>5, <2>6
<1>11. CASE ReleaseSlot
  <2>0. tail \in Nat /\ head \in Nat /\ tail < head /\ tail + 1 \in 1 .. Len(sent)
    BY <1>11 DEF ReleaseSlot, TypeOK, Indices, Contents
  <2>1. view = [w \in Words |-> sent[tail + 1]] /\ view \in Frame
    BY <1>11, <2>0 DEF ReleaseSlot, ReadAll, View, TypeOK, Frame
  <2>2. TypeOK'
    BY <1>11, <2>0, <2>1 DEF ReleaseSlot, producerVars, TypeOK
  <2>3. Indices'
    BY <1>11 DEF ReleaseSlot, producerVars, TypeOK, Indices
  <2>4. Fences' /\ Contents'
    BY <1>11, <2>0 DEF ReleaseSlot, producerVars, TypeOK, Fences, Contents
  <2>5. Len(rcvd') = tail + 1 /\ rcvd'[tail + 1] = view /\ \A i \in 1 .. tail : rcvd'[i] = rcvd[i]
    BY <1>11, <2>0, <2>1 DEF ReleaseSlot, TypeOK, Contents
  <2>6. \A i \in 1 .. tail + 1 : rcvd'[i] = [w \in Words |-> sent[i]]
    <3> SUFFICES ASSUME NEW i \in 1 .. tail + 1 PROVE rcvd'[i] = [w \in Words |-> sent[i]]
      OBVIOUS
    <3>1. CASE i = tail + 1
      BY <2>1, <2>5, <3>1
    <3>2. CASE i # tail + 1
      <4>1. i \in 1 .. tail
        BY <2>0, <3>2
      <4>2. rcvd[i] = [w \in Words |-> sent[i]]
        BY <4>1 DEF View
      <4> QED BY <2>5, <4>1, <4>2
    <3> QED BY <3>1, <3>2
  <2>7. View'
    BY <1>11, <2>6 DEF ReleaseSlot, producerVars, View
  <2> QED BY <2>2, <2>3, <2>4, <2>7
<1> QED
  BY <1>1, <1>2, <1>3, <1>4, <1>5, <1>6, <1>7, <1>8, <1>9, <1>10, <1>11 DEF Next, Producer, Consumer

LEMMA ArenaCorrect == Spec => []ArenaInv
BY ArenaInit, ArenaStep, PTL DEF Spec

-----------------------------------------------------------------------------
(* What follows from it *)

\* The arena's variables keep their types, and no index passes the other.
THEOREM ArenaTypes == Spec => []TypeOK
BY ArenaCorrect, PTL DEF ArenaInv

\* No data race on a slot: the release fence before the relaxed store and the
\* acquire fence after the relaxed load are enough, the fence being skipped
\* when the cached index is.
THEOREM FencesSuffice == Spec => []NoSlotRace
<1>1. ArenaInv => NoSlotRace
  BY ArenaAssumption DEF ArenaInv, TypeOK, Indices, NoSlotRace
<1> QED BY <1>1, ArenaCorrect, PTL

\* A slot is never written while it is read in place: the two threads are on
\* different slots whenever both are at work.
THEOREM InPlaceReadsSafe ==
  Spec => [](pcP \in {"write", "publish"} /\ pcC = "read" => Slot(head) # Slot(tail))
<1>1. ArenaInv => (pcP \in {"write", "publish"} /\ pcC = "read" => Slot(head) # Slot(tail))
  <2> SUFFICES ASSUME ArenaInv, pcP \in {"write", "publish"}, pcC = "read"
               PROVE  Slot(head) # Slot(tail)
    OBVIOUS
  <2>1. tail \in Nat /\ head \in Nat /\ tail < head /\ head < tail + Cap
    BY ArenaAssumption DEF ArenaInv, TypeOK, Indices
  <2> QED BY <2>1, SlotInjective
<1> QED BY <1>1, ArenaCorrect, PTL

\* Every frame read in place is the frame published, whole and in order: the
\* arena implements the bounded FIFO channel of frames, its publishing store
\* being the channel's Push and the release of a slot its Pop.
THEOREM ArenaImplementsChannel == Spec => Channel!Spec
<1> DEFINE frames == [i \in 1 .. Len(sent) |-> [w \in Words |-> sent[i]]]
<1>1. Init => Channel!Init
  BY DEF Init, Channel!Init
<1>2. ArenaInv /\ [Next]_vars => [Channel!Next]_(Channel!vars)
  <2> SUFFICES ASSUME ArenaInv, [Next]_vars PROVE [Channel!Next]_(Channel!vars)
    OBVIOUS
  <2> USE DEF Channel!vars
  <2>1. CASE PublishStore
    <3>1. item \in Items /\ sent \in Seq(Items) /\ Len(sent) = head /\ Len(rcvd) = tail
      BY <2>1 DEF PublishStore, ArenaInv, TypeOK, Contents
    <3>2. Len(sent') = Len(sent) + 1 /\ sent'[Len(sent) + 1] = item
          /\ \A i \in 1 .. Len(sent) : sent'[i] = sent[i]
      BY <2>1, <3>1 DEF PublishStore
    <3>3. frames \in Seq([Words -> Items]) /\ Len(frames) = Len(sent) /\ DOMAIN frames = 1 .. Len(sent)
      BY <3>1
    <3>4. frames' = Append(frames, [w \in Words |-> item])
      <4>1. \A i \in 1 .. Len(sent) + 1 :
              frames'[i] = Append(frames, [w \in Words |-> item])[i]
        BY <3>1, <3>2, <3>3
      <4> QED BY <3>1, <3>2, <3>3, <4>1
    <3>5. Len(frames) - Len(rcvd) < Cap
      BY <2>1, <3>1, <3>3, ArenaAssumption DEF PublishStore, ArenaInv, TypeOK, Indices
    <3>6. Channel!Push([w \in Words |-> item])
      BY <2>1, <3>4, <3>5 DEF PublishStore, consumerVars, Channel!Push
    <3>7. [w \in Words |-> item] \in [Words -> Items]
      BY <3>1
    <3> QED BY <3>6, <3>7 DEF Channel!Next
  <2>2. CASE ReleaseSlot
    <3>1. tail \in Nat /\ head \in Nat /\ tail < head /\ Len(rcvd) = tail /\ Len(sent) = head
      BY <2>2 DEF ReleaseSlot, ArenaInv, TypeOK, Indices, Contents
    <3>2. view = [w \in Words |-> sent[tail + 1]]
      BY <2>2 DEF ReleaseSlot, ReadAll, ArenaInv, View
    <3>3. Len(frames) = head /\ frames[tail + 1] = view
      BY <3>1, <3>2
    <3>4. Channel!Pop
      BY <2>2, <3>1, <3>3 DEF ReleaseSlot, producerVars, Channel!Pop
    <3> QED BY <3>4 DEF Channel!Next
  <2>3. CASE UNCHANGED vars
    BY <2>3 DEF vars, producerVars, consumerVars
  <2>4. ASSUME NEW x \in Items, AcquireStart(x) PROVE UNCHANGED <<sent, rcvd>>
    BY <2>4 DEF AcquireStart, consumerVars
  <2>5. ASSUME NEW t, AcquireRefresh(t) PROVE UNCHANGED <<sent, rcvd>>
    BY <2>5 DEF AcquireRefresh, consumerVars
  <2>6. ASSUME NEW w, Write(w) PROVE UNCHANGED <<sent, rcvd>>
    BY <2>6 DEF Write, consumerVars
  <2>7. CASE PublishFence
    BY <2>7 DEF PublishFence, consumerVars
  <2>8. CASE FrontStart
    BY <2>8 DEF FrontStart, producerVars
  <2>9. ASSUME NEW h, FrontRefresh(h) PROVE UNCHANGED <<sent, rcvd>>
    BY <2>9 DEF FrontRefresh, producerVars
  <2>10. CASE FrontFence
    BY <2>10 DEF FrontFence, producerVars
  <2>11. ASSUME NEW w, Read(w) PROVE UNCHANGED <<sent, rcvd>>
    BY <2>11 DEF Read, producerVars
  <2> QED
    BY <2>1, <2>2, <2>3, <2>4, <2>5, <2>6, <2>7, <2>8, <2>9, <2>10, <2>11 DEF Next, Producer, Consumer
<1> QED BY <1>1, <1>2, ArenaCorrect, PTL DEF Spec, Channel!Spec
=============================================================================
