-------------------------- MODULE TradingLoopProofs --------------------------
(***************************************************************************)
(* The BBO feed, the trading loop around it, the signals and the risk      *)
(* gateway, for every set of levels the feed quotes below and above a      *)
(* middle, every ladder, rings and an arena of any capacity, every limit   *)
(* and window.                                                             *)
(*                                                                         *)
(* The feed's inductive invariant accounts for every number the publisher  *)
(* used: received, queued in order, or lost; the signals' hangs one running *)
(* total of the flow on these numbers.  The loop's says that every bid     *)
(* anybody knows of, resting, published, remembered or under way, is at or *)
(* below one of the feed's, and every ask at or above one.                 *)
(***************************************************************************)
EXTENDS TradingLoop, SignalFeed, RiskGateway, FiniteSetTheorems, WellFoundedInduction, TLAPS

-----------------------------------------------------------------------------
(* The feed: what became of every number *)

\* Types, the tops being members of T.
FeedTypes(T) ==
  /\ last \in T /\ view \in T /\ sent \in T
  /\ seq \in 0 .. MaxSeq /\ published \in Nat /\ dropped \in Nat
  /\ published + dropped = seq
  /\ ring \in Seq([top : T, seq : 1 .. MaxSeq]) /\ Len(ring) <= Capacity
  /\ last_seq \in 0 .. seq /\ gaps \in Nat
  /\ lost \in SUBSET (1 .. seq) /\ got \in SUBSET (1 .. last_seq)

\* The ring holds numbers not yet received, in order.
InOrder ==
  /\ \A n \in 1 .. Len(ring) : last_seq < ring[n].seq /\ ring[n].seq <= seq
  /\ \A n \in 1 .. Len(ring), m \in 1 .. Len(ring) : n < m => ring[n].seq < ring[m].seq

\* A number above the last one received is lost or queued, never both; the last
\* one received was not lost, and before it came nothing was.
Accounted ==
  /\ \A s \in last_seq + 1 .. seq : s \notin lost => \E n \in 1 .. Len(ring) : ring[n].seq = s
  /\ \A n \in 1 .. Len(ring) : ring[n].seq \notin lost
  /\ last_seq \notin lost
  /\ last_seq = 0 => IF ring = <<>> THEN seq = 0 ELSE ring[1].seq = 1

Newest ==
  seq \notin lost => last = IF ring = <<>> THEN view ELSE ring[Len(ring)].top

FeedInv(T) == FeedTypes(T) /\ InOrder /\ Accounted /\ Newest /\ GapsExact

LEMMA FeedInit ==
  ASSUME NEW T, EmptyTop \in T, Init
  PROVE  FeedInv(T)
<1>1. FeedTypes(T) /\ InOrder /\ Accounted /\ Newest
  BY FeedAssumption DEF Init, FeedTypes, InOrder, Accounted, Newest
<1>2. GapsExact
  <2>1. {s \in got : s - 1 \in lost} = {}
    BY DEF Init
  <2> QED BY <2>1, FS_EmptySet DEF Init, GapsExact
<1> QED BY <1>1, <1>2 DEF FeedInv

\* The updates queued.
LEMMA RingEntries ==
  ASSUME NEW T, FeedTypes(T)
  PROVE  /\ Len(ring) \in Nat /\ seq \in Nat /\ last_seq \in Nat
         /\ \A n \in 1 .. Len(ring) : /\ ring[n] \in [top : T, seq : 1 .. MaxSeq]
                                     /\ ring[n].seq \in Nat /\ ring[n].top \in T
<1>1. ring \in Seq([top : T, seq : 1 .. MaxSeq]) /\ seq \in Nat /\ last_seq \in Nat
  BY FeedAssumption DEF FeedTypes
<1>2. \A n \in 1 .. Len(ring) : ring[n] \in [top : T, seq : 1 .. MaxSeq]
  <2> DEFINE U == [top : T, seq : 1 .. MaxSeq]
  <2>1. ring \in Seq(U)
    BY <1>1
  <2> HIDE DEF U
  <2>2. \A n \in 1 .. Len(ring) : ring[n] \in U
    BY <2>1
  <2> QED BY <2>2 DEF U
<1>3. \A u \in [top : T, seq : 1 .. MaxSeq] : u.seq \in Nat /\ u.top \in T
  BY FeedAssumption
<1> QED BY <1>1, <1>2, <1>3

\* How a push extends them.
LEMMA RingPush ==
  ASSUME NEW T, FeedTypes(T), NEW u \in [top : T, seq : 1 .. MaxSeq], ring' = Append(ring, u)
  PROVE  /\ ring' \in Seq([top : T, seq : 1 .. MaxSeq])
         /\ Len(ring') = Len(ring) + 1 /\ ring'[Len(ring) + 1] = u
         /\ \A n \in 1 .. Len(ring) : ring'[n] = ring[n]
BY DEF FeedTypes

LEMMA FeedPublish ==
  ASSUME NEW T, NEW t \in T, FeedInv(T), Publish(t)
  PROVE  FeedInv(T)'
<1> USE DEF FeedInv
<1> DEFINE u == [top |-> t, seq |-> seq + 1]
           k == Len(ring)
<1>1. /\ u \in [top : T, seq : 1 .. MaxSeq] /\ ring' = Append(ring, u)
      /\ seq \in Nat /\ k \in Nat /\ last_seq \in Nat /\ seq' = seq + 1
  BY FeedAssumption DEF Publish, Snapshot, NextSeq, FeedTypes
<1>2. /\ ring' \in Seq([top : T, seq : 1 .. MaxSeq]) /\ Len(ring') = k + 1 /\ ring'[k + 1] = u
      /\ \A n \in 1 .. k : ring'[n] = ring[n]
  <2> HIDE DEF u
  <2> QED BY <1>1, RingPush
<1>3. FeedTypes(T)'
  BY <1>1, <1>2, FeedAssumption DEF Publish, Snapshot, subscriberVars, FeedTypes
<1>4. InOrder'
  <2>1. ASSUME NEW n \in 1 .. k + 1 PROVE last_seq < ring'[n].seq /\ ring'[n].seq <= seq + 1
    <3>1. CASE n = k + 1
      BY <1>1, <1>2, <3>1 DEF FeedTypes
    <3>2. CASE n # k + 1
      <4>1. n \in 1 .. k /\ ring[n].seq \in Nat
        BY <1>1, <3>2, RingEntries
      <4> QED BY <1>1, <1>2, <4>1 DEF InOrder
    <3> QED BY <3>1, <3>2
  <2>2. ASSUME NEW n \in 1 .. k + 1, NEW m \in 1 .. k + 1, n < m
        PROVE  ring'[n].seq < ring'[m].seq
    <3>1. n \in 1 .. k /\ ring[n].seq \in Nat
      BY <1>1, <2>2, RingEntries
    <3>2. CASE m = k + 1
      BY <1>1, <1>2, <3>1, <3>2 DEF InOrder
    <3>3. CASE m # k + 1
      <4>1. m \in 1 .. k
        BY <1>1, <3>3
      <4> QED BY <1>2, <2>2, <3>1, <4>1 DEF InOrder
    <3> QED BY <3>2, <3>3
  <2> QED BY <1>1, <1>2, <2>1, <2>2 DEF InOrder, Publish, subscriberVars
<1>5. Accounted'
  <2>1. seq + 1 \notin lost /\ lost' = lost /\ last_seq' = last_seq
    BY <1>1 DEF Publish, FeedTypes, subscriberVars
  <2>2. ASSUME NEW s \in last_seq + 1 .. seq + 1, s \notin lost
        PROVE  \E n \in 1 .. k + 1 : ring'[n].seq = s
    <3>1. CASE s = seq + 1
      BY <1>1, <1>2, <3>1
    <3>2. CASE s # seq + 1
      <4>1. PICK n \in 1 .. k : ring[n].seq = s
        BY <1>1, <2>2, <3>2 DEF Accounted
      <4> QED BY <1>1, <1>2, <4>1
    <3> QED BY <3>1, <3>2
  <2>3. ASSUME NEW n \in 1 .. k + 1 PROVE ring'[n].seq \notin lost
    <3>1. CASE n = k + 1
      BY <1>2, <2>1, <3>1
    <3>2. CASE n # k + 1
      BY <1>1, <1>2, <3>2 DEF Accounted
    <3> QED BY <3>1, <3>2
  <2>4. last_seq = 0 => ring'[1].seq = 1 /\ ring' # <<>>
    BY <1>1, <1>2 DEF Accounted
  <2> QED BY <1>1, <1>2, <2>1, <2>2, <2>3, <2>4 DEF Accounted
<1>6. Newest'
  BY <1>1, <1>2 DEF Publish, Newest
<1>7. GapsExact'
  BY DEF Publish, subscriberVars, GapsExact
<1> QED BY <1>3, <1>4, <1>5, <1>6, <1>7

LEMMA FeedDrop ==
  ASSUME NEW T, NEW t \in T, FeedInv(T), Drop(t)
  PROVE  FeedInv(T)'
<1> USE DEF FeedInv
<1>1. /\ seq \in Nat /\ last_seq \in Nat /\ seq' = seq + 1 /\ ring' = ring /\ Len(ring) \in Nat
      /\ lost' = lost \union {seq + 1} /\ lost \in SUBSET (1 .. seq) /\ ring # <<>>
  BY FeedAssumption DEF Drop, NextSeq, FeedTypes
<1>2. FeedTypes(T)'
  BY <1>1, FeedAssumption DEF Drop, subscriberVars, FeedTypes
<1>3. InOrder'
  <2>1. \A n \in 1 .. Len(ring) : ring[n].seq \in Nat
    BY RingEntries
  <2> QED BY <1>1, <2>1 DEF Drop, subscriberVars, InOrder
<1>4. Accounted'
  <2>1. \A n \in 1 .. Len(ring) : ring[n].seq # seq + 1
    BY <1>1 DEF InOrder, FeedTypes
  <2>2. \A s \in last_seq + 1 .. seq + 1 : s \notin lost' => s \in last_seq + 1 .. seq /\ s \notin lost
    BY <1>1
  <2>3. last_seq # seq + 1 /\ last_seq' = last_seq
    BY <1>1 DEF FeedTypes, Drop, subscriberVars
  <2> QED BY <1>1, <2>1, <2>2, <2>3 DEF Accounted
<1>5. Newest'
  BY <1>1 DEF Newest
<1>6. GapsExact'
  <2>1. \A s \in got : s - 1 # seq + 1
    BY <1>1 DEF FeedTypes
  <2>2. {s \in got : s - 1 \in lost'} = {s \in got : s - 1 \in lost}
    BY <1>1, <2>1
  <2> QED BY <2>2 DEF Drop, subscriberVars, GapsExact
<1> QED BY <1>2, <1>3, <1>4, <1>5, <1>6

LEMMA FeedUnchanged ==
  ASSUME NEW T, FeedInv(T), UNCHANGED vars
  PROVE  FeedInv(T)'
BY DEF vars, publisherVars, subscriberVars, FeedInv, FeedTypes, InOrder, Accounted, Newest, GapsExact

LEMMA FeedApplied ==
  ASSUME NEW T, NEW t \in T, FeedInv(T), on_message_applied(t)
  PROVE  FeedInv(T)'
BY FeedPublish, FeedDrop, FeedUnchanged DEF on_message_applied, Unchanged

LEMMA FeedReceived ==
  ASSUME NEW T, FeedInv(T), Receive
  PROVE  FeedInv(T)'
<1> USE DEF FeedInv
<1> DEFINE u == Head(ring)
<1>1. /\ ring # <<>> /\ ring \in Seq([top : T, seq : 1 .. MaxSeq]) /\ Len(ring) \in Nat /\ Len(ring) > 0
      /\ seq \in Nat /\ last_seq \in Nat /\ u = ring[1] /\ u \in [top : T, seq : 1 .. MaxSeq]
      /\ u.seq \in Nat /\ u.top \in T
  <2>1. ring # <<>> /\ ring \in Seq([top : T, seq : 1 .. MaxSeq])
    BY DEF Receive, FeedTypes
  <2>2. Len(ring) \in Nat /\ Len(ring) > 0 /\ u = ring[1]
    BY <2>1
  <2>3. 1 \in 1 .. Len(ring)
    BY <2>2
  <2> HIDE DEF u
  <2> QED BY <2>1, <2>2, <2>3, RingEntries
<1>2. /\ ring' = Tail(ring) /\ last_seq' = u.seq /\ view' = u.top /\ got' = got \union {u.seq}
      /\ gaps' = gaps + (IF IsGap(u) THEN 1 ELSE 0)
      /\ UNCHANGED <<last, seq, published, dropped, lost, sent>>
  BY DEF Receive, publisherVars
<1>3. /\ ring' \in Seq([top : T, seq : 1 .. MaxSeq]) /\ Len(ring') = Len(ring) - 1
      /\ \A n \in 1 .. Len(ring) - 1 : ring'[n] = ring[n + 1]
  BY <1>1, <1>2
<1>4. /\ last_seq < u.seq /\ u.seq <= seq
      /\ \A m \in 2 .. Len(ring) : u.seq < ring[m].seq /\ ring[m].seq <= seq
  BY <1>1 DEF InOrder
<1> HIDE DEF u
<1>5. FeedTypes(T)'
  <2>1. got' \in SUBSET (1 .. last_seq') /\ last_seq' \in 0 .. seq'
    <3>1. got \in SUBSET (1 .. last_seq)
      BY DEF FeedTypes
    <3>2. 1 .. last_seq \subseteq 1 .. u.seq /\ u.seq \in 1 .. u.seq /\ u.seq \in 0 .. seq
      BY <1>1, <1>4
    <3> QED BY <1>2, <3>1, <3>2
  <2>2. gaps' \in Nat
    BY <1>2 DEF FeedTypes
  <2>3. Len(ring') <= Capacity
    BY <1>1, <1>3, FeedAssumption DEF FeedTypes
  <2> QED BY <1>1, <1>2, <1>3, <2>1, <2>2, <2>3 DEF FeedTypes
<1>6. InOrder'
  BY <1>1, <1>2, <1>3, <1>4 DEF InOrder
<1>7. Accounted'
  <2>1. ASSUME NEW s \in u.seq + 1 .. seq, s \notin lost
        PROVE  \E n \in 1 .. Len(ring') : ring'[n].seq = s
    <3>1. PICK m \in 1 .. Len(ring) : ring[m].seq = s
      BY <1>1, <1>4, <2>1 DEF Accounted
    <3>2. m # 1
      BY <1>1, <2>1, <3>1
    <3>3. m - 1 \in 1 .. Len(ring') /\ (m - 1) + 1 = m
      BY <1>1, <1>3, <3>2
    <3>4. ring'[m - 1] = ring[m]
      BY <1>3, <3>3
    <3> QED BY <3>1, <3>3, <3>4
  <2>2. ASSUME NEW n \in 1 .. Len(ring') PROVE ring'[n].seq \notin lost
    <3>1. n + 1 \in 1 .. Len(ring) /\ ring'[n] = ring[n + 1]
      BY <1>1, <1>3
    <3> QED BY <3>1 DEF Accounted
  <2>3. u.seq \notin lost /\ u.seq # 0
    BY <1>1, <1>4 DEF Accounted
  <2> QED BY <1>2, <2>1, <2>2, <2>3 DEF Accounted
<1>8. Newest'
  <2>1. CASE Len(ring) = 1
    BY <1>1, <1>2, <1>3, <2>1 DEF Newest
  <2>2. CASE Len(ring) # 1
    <3>1. ring' # <<>> /\ ring'[Len(ring')] = ring[Len(ring)]
      BY <1>1, <1>3, <2>2
    <3> QED BY <1>1, <1>2, <3>1 DEF Newest
  <2> QED BY <2>1, <2>2
<1>9. GapsExact'
  <2> DEFINE G == {s \in got : s - 1 \in lost}
  <2>1. IsFiniteSet(G) /\ u.seq \notin G
    <3>1. G \subseteq 1 .. last_seq
      BY DEF FeedTypes
    <3>2. IsFiniteSet(1 .. last_seq)
      BY <1>1, FS_Interval
    <3> QED BY <1>1, <1>4, <3>1, <3>2, FS_Subset
  <2>2. IsGap(u) <=> u.seq - 1 \in lost
    <3>1. CASE u.seq = last_seq + 1
      BY <1>1, <3>1 DEF IsGap, Accounted
    <3>2. CASE u.seq # last_seq + 1
      <4>1. u.seq - 1 \in last_seq + 1 .. seq
        BY <1>1, <1>4, <3>2
      <4>2. \A n \in 1 .. Len(ring) : ring[n].seq # u.seq - 1
        BY <1>1, <1>4 DEF FeedTypes
      <4>3. u.seq - 1 \in lost
        BY <4>1, <4>2 DEF Accounted
      <4>4. last_seq # 0
        BY <1>1, <3>2 DEF Accounted
      <4> QED BY <3>2, <4>3, <4>4 DEF IsGap
    <3> QED BY <3>1, <3>2
  <2>3. CASE IsGap(u)
    <3>1. {s \in got' : s - 1 \in lost'} = G \union {u.seq}
      BY <1>2, <2>2, <2>3
    <3>2. Cardinality(G \union {u.seq}) = Cardinality(G) + 1
      <4> HIDE DEF G
      <4> QED BY <2>1, FS_AddElement
    <3> QED BY <1>2, <2>3, <3>1, <3>2 DEF GapsExact
  <2>4. CASE ~IsGap(u)
    <3>1. {s \in got' : s - 1 \in lost'} = G
      BY <1>2, <2>2, <2>4
    <3>2. gaps' = gaps
      BY <1>2, <2>4 DEF FeedTypes
    <3> QED BY <3>1, <3>2 DEF GapsExact
  <2> QED BY <2>3, <2>4
<1> QED BY <1>5, <1>6, <1>7, <1>8, <1>9

LEMMA FeedCorrect == Spec => []FeedInv(Tops)
<1>1. Init => FeedInv(Tops)
  BY FeedInit, FeedAssumption
<1>2. FeedInv(Tops) /\ [Next]_vars => FeedInv(Tops)'
  BY FeedApplied, FeedReceived, FeedUnchanged DEF Next
<1> QED BY <1>1, <1>2, PTL DEF Spec

LEMMA FeedImplies ==
  ASSUME NEW T, FeedInv(T)
  PROVE  GapsExact /\ DrainedIsCurrent
BY DEF FeedInv, Newest, DrainedIsCurrent

\* The feed's variables keep their types, for every ring capacity.
THEOREM FeedTypesKept == Spec => []TypeOK
<1>1. FeedInv(Tops) => TypeOK
  BY FeedAssumption DEF FeedInv, FeedTypes, TypeOK
<1> QED BY <1>1, FeedCorrect, PTL

\* The subscriber counts one gap for each run of dropped updates in front of one
\* it got, whatever the ring's capacity and however the two threads run.
THEOREM GapsCounted == Spec => []GapsExact
<1>1. FeedInv(Tops) => GapsExact
  BY FeedImplies
<1> QED BY <1>1, FeedCorrect, PTL

\* A drained subscriber has the publisher's top unless the newest was dropped.
THEOREM DrainedSeesLast == Spec => []DrainedIsCurrent
<1>1. FeedInv(Tops) => DrainedIsCurrent
  BY FeedImplies
<1> QED BY <1>1, FeedCorrect, PTL

-----------------------------------------------------------------------------
(* The loop *)

\* Where a quote of a side may be.
Behind(side, p) ==
  IF side = "Buy" THEN \E b \in FeedBids : p <= b ELSE \E a \in FeedAsks : a <= p

SafePrices(side) == {p \in Levels : Behind(side, p)}

SafeTops == [bp : SafePrices("Buy") \union {None}, ap : SafePrices("Sell") \union {None},
             bq : Int, aq : Int]

Orders == [side : Sides, price : Levels]
Frames == [side : Sides, price : Levels, delta : Int]

LoopTypes ==
  /\ sent_frames \in Nat /\ arena \in Seq(Frames) /\ done \in Nat
  /\ lots \in [Sides -> [Levels -> Int]] /\ own \in [Sides -> [Levels -> Int]]
  /\ desk \in [Sides -> Levels \union {None}]
  /\ pcE \in {"orders", "front", "publish"} /\ quoted \in BOOLEAN
  /\ orders \in Seq(Orders) /\ pending \in Seq(Orders)
  /\ my_px \in [Sides -> Levels \union {None}] /\ open \in [Sides -> {0, 1}]
  /\ pcS \in {"start", "poll", "look", "left", "push"} \union Sides
  /\ IF pcS = "push" THEN Len(pending) = 1 ELSE pending = <<>>

\* The feed's lots rest on the feed's levels.
FeedPlaced ==
  /\ \A side \in Sides, p \in Levels : p \notin FeedLevels(side) => lots[side][p] = 0
  /\ \A n \in 1 .. Len(arena) : arena[n].price \in FeedLevels(arena[n].side)

\* The firm's lots are the desk's one quote per side.
OwnIsDesk ==
  \A side \in Sides, p \in Levels : own[side][p] = IF desk[side] = p THEN 1 ELSE 0

\* No quote of the firm is in front of the feed.
QuotesBehind ==
  /\ \A side \in Sides : desk[side] # None => Behind(side, desk[side])
  /\ \A n \in 1 .. Len(orders) : Behind(orders[n].side, orders[n].price)
  /\ \A n \in 1 .. Len(pending) : Behind(pending[n].side, pending[n].price)

\* The gateway counts a lot from the first quote of a side on.
Counted ==
  /\ \A side \in Sides : open[side] = IF my_px[side] = None THEN 0 ELSE 1
  /\ \A side \in Sides : desk[side] # None => my_px[side] # None
  /\ \A n \in 1 .. Len(orders) : my_px[orders[n].side] # None
  /\ \A n \in 1 .. Len(pending) : my_px[pending[n].side] # None

\* What the strategy remembers is the newest quote under way, or the desk's.
Underway == orders \o pending

NewestUnderway ==
  \A side \in Sides :
    \/ /\ my_px[side] = desk[side]
       /\ \A n \in 1 .. Len(Underway) : Underway[n].side # side
    \/ \E n \in 1 .. Len(Underway) :
         /\ Underway[n].side = side /\ my_px[side] = Underway[n].price
         /\ \A m \in n + 1 .. Len(Underway) : Underway[m].side # side

Positions == FeedPlaced /\ OwnIsDesk /\ QuotesBehind

LoopInv ==
  /\ FeedInv(SafeTops) /\ LoopTypes /\ Positions /\ Counted
  /\ PublishedTopCurrent /\ NewestUnderway

-----------------------------------------------------------------------------
(* Extreme elements, and the top of the book *)

\* A non-empty set of naturals has a least element.
LEMMA NatLeast ==
  ASSUME NEW S \in SUBSET Nat, S # {}
  PROVE  \E x \in S : \A y \in S : x <= y
<1> DEFINE R == OpToRel(<, Nat)
<1>1. IsWellFoundedOn(R, Nat)
  BY NatLessThanWellFounded
<1>2. PICK x \in S : \A y \in S : ~ (<<y, x>> \in R)
  <2> HIDE DEF R
  <2> QED BY <1>1, WFMin
<1>3. ASSUME NEW y \in S PROVE x <= y
  <2>1. ~ (<<y, x>> \in Nat \X Nat /\ y < x)
    BY <1>2 DEF OpToRel
  <2> QED BY <2>1
<1> QED BY <1>3

LEMMA MinLeast ==
  ASSUME NEW S \in SUBSET Nat, S # {}
  PROVE  Min(S) \in S /\ \A y \in S : Min(S) <= y
BY NatLeast DEF Min

LEMMA MaxGreatest ==
  ASSUME NEW S \in SUBSET Nat, S # {}, NEW n \in Nat, \A t \in S : t <= n
  PROVE  Max(S) \in S /\ \A y \in S : y <= Max(S)
<1> DEFINE U == {n - t : t \in S}
<1>1. U \in SUBSET Nat /\ U # {}
  <2>1. \A t \in S : n - t \in Nat
    OBVIOUS
  <2> QED BY <2>1
<1>2. PICK u \in U : \A v \in U : u <= v
  BY <1>1, NatLeast
<1>3. PICK x \in S : u = n - x
  BY <1>2
<1>4. ASSUME NEW y \in S PROVE x >= y
  <2>1. n - y \in U
    OBVIOUS
  <2>2. n - x <= n - y
    BY <1>2, <1>3, <2>1
  <2> QED BY <2>2
<1>5. Max(S) \in S /\ \A y \in S : Max(S) >= y
  BY <1>4 DEF Max
<1> QED BY <1>5

\* The greatest element is unique.
LEMMA MaxIs ==
  ASSUME NEW S \in SUBSET Nat, NEW x \in S, \A y \in S : y <= x
  PROVE  Max(S) = x
<1>1. Max(S) \in S /\ \A y \in S : y <= Max(S)
  <2>1. S # {} /\ x \in Nat
    OBVIOUS
  <2> QED BY <2>1, MaxGreatest
<1>2. x <= Max(S) /\ Max(S) <= x /\ Max(S) \in Nat /\ x \in Nat
  BY <1>1
<1> QED BY <1>2

LEMMA LevelTypes ==
  /\ Levels \in SUBSET Nat /\ None \notin Levels /\ None \in Int
  /\ \A p \in Levels : p <= CollarHi /\ p >= 0
  /\ CollarHi \in Nat /\ FeedBids \subseteq Levels /\ FeedAsks \subseteq Levels
  /\ \A side \in Sides : FeedLevels(side) \subseteq Levels
  /\ "Buy" \in Sides /\ "Sell" \in Sides /\ "Buy" # "Sell"
BY LoopAssumption DEF Levels, None, FeedLevels, Sides

\* Where the book has lots of a side, it is behind the feed.
LEMMA OccupiedBehind ==
  ASSUME LoopTypes, Positions, NEW side \in Sides
  PROVE  Occupied(side) \in SUBSET Levels /\ Occupied(side) \subseteq SafePrices(side)
<1> SUFFICES ASSUME NEW p \in Levels, LotsAt(side, p) > 0 PROVE Behind(side, p)
  BY DEF Occupied, SafePrices
<1>1. p \in Nat /\ lots[side][p] \in Int /\ own[side][p] \in Int
  BY LevelTypes DEF LoopTypes
<1>2. CASE desk[side] = p
  BY <1>2, LevelTypes DEF Positions, QuotesBehind
<1>3. CASE desk[side] # p
  <2>1. own[side][p] = 0
    BY <1>3 DEF Positions, OwnIsDesk
  <2>2. p \in FeedLevels(side)
    BY <1>1, <2>1 DEF LotsAt, Positions, FeedPlaced
  <2> QED BY <1>1, <2>2 DEF FeedLevels, Behind
<1> QED BY <1>2, <1>3

LEMMA BestBehind ==
  ASSUME LoopTypes, Positions
  PROVE  BestBid \in SafePrices("Buy") \union {None} /\ BestAsk \in SafePrices("Sell") \union {None}
<1>1. Occupied("Buy") \in SUBSET Levels /\ Occupied("Buy") \subseteq SafePrices("Buy")
  BY OccupiedBehind, LevelTypes
<1>2. Occupied("Sell") \in SUBSET Levels /\ Occupied("Sell") \subseteq SafePrices("Sell")
  BY OccupiedBehind, LevelTypes
<1>3. Occupied("Buy") # {} => Max(Occupied("Buy")) \in Occupied("Buy")
  BY <1>1, LevelTypes, MaxGreatest
<1>4. Occupied("Sell") # {} => Min(Occupied("Sell")) \in Occupied("Sell")
  BY <1>2, LevelTypes, MinLeast
<1> QED BY <1>1, <1>2, <1>3, <1>4 DEF BestBid, BestAsk

LEMMA TopSafe ==
  ASSUME LoopTypes, Positions
  PROVE  Top \in SafeTops
<1>1. BestBid \in SafePrices("Buy") \union {None} /\ BestAsk \in SafePrices("Sell") \union {None}
  BY BestBehind
<1>2. \A side \in Sides, p \in Levels : LotsAt(side, p) \in Int
  BY DEF LotsAt, LoopTypes
<1>3. (BestBid # None => LotsAt("Buy", BestBid) \in Int) /\ (BestAsk # None => LotsAt("Sell", BestAsk) \in Int)
  BY <1>1, <1>2, LevelTypes DEF SafePrices
<1> QED BY <1>1, <1>3 DEF Top, SafeTops

\* A price behind the bids is below every price behind the asks.
LEMMA SidesApart ==
  ASSUME NEW p \in SafePrices("Buy"), NEW q \in SafePrices("Sell")
  PROVE  p < q
<1>1. p \in Nat /\ q \in Nat
  BY LevelTypes DEF SafePrices
<1>2. PICK b \in FeedBids : p <= b
  BY DEF SafePrices, Behind
<1>3. PICK a \in FeedAsks : a <= q
  BY DEF SafePrices, Behind
<1>4. a \in Nat /\ b \in Nat /\ b + 1 < a
  BY LevelTypes, LoopAssumption
<1> QED BY <1>1, <1>2, <1>3, <1>4

-----------------------------------------------------------------------------
(* Every step of the loop keeps the invariant *)

LEMMA LoopInitInv == LoopInit => LoopInv
<1> SUFFICES ASSUME LoopInit PROVE LoopInv
  OBVIOUS
<1>1. EmptyTop \in SafeTops /\ EmptyTop = [bp |-> None, ap |-> None, bq |-> 0, aq |-> 0]
  BY LoopAssumption DEF SafeTops, None
<1>2. FeedInv(SafeTops)
  BY <1>1, FeedInit DEF LoopInit
<1>3. LoopTypes
  <2>1. supply \in [Sides -> [Levels -> Int]] /\ <<>> \in Seq(Orders) /\ <<>> \in Seq(Frames)
    BY DEF LoopInit
  <2>2. desk \in [Sides -> Levels \union {None}] /\ open \in [Sides -> {0, 1}]
        /\ my_px \in [Sides -> Levels \union {None}]
    BY DEF LoopInit
  <2> QED BY <2>1, <2>2 DEF LoopInit, LoopTypes
<1>4. Positions
  BY LevelTypes DEF LoopInit, Positions, FeedPlaced, OwnIsDesk, QuotesBehind
<1>5. Counted
  BY DEF LoopInit, Counted
<1>6. PublishedTopCurrent
  <2>1. \A side \in Sides, p \in Levels : LotsAt(side, p) = 0
    BY DEF LoopInit, LotsAt
  <2>2. Occupied("Buy") = {} /\ Occupied("Sell") = {}
    <3>1. \A side \in Sides : Occupied(side) = {}
      BY <2>1 DEF Occupied
    <3> QED BY <3>1, LevelTypes
  <2>3. Top = EmptyTop
    BY <1>1, <2>2 DEF Top, BestBid, BestAsk
  <2> QED BY <2>3 DEF LoopInit, Init, PublishedTopCurrent
<1>7. NewestUnderway
  <2>1. Underway = <<>>
    BY DEF LoopInit, Underway
  <2> QED BY <2>1 DEF LoopInit, NewestUnderway
<1> QED BY <1>2, <1>3, <1>4, <1>5, <1>6, <1>7 DEF LoopInv

\* The quotes under way, by sequence.
LEMMA UnderwayTypes ==
  ASSUME LoopTypes
  PROVE  /\ Len(orders) \in Nat /\ Len(pending) \in Nat
         /\ \A n \in 1 .. Len(orders) : orders[n] \in Orders
         /\ \A n \in 1 .. Len(pending) : pending[n] \in Orders
         /\ Underway \in Seq(Orders) /\ Len(Underway) = Len(orders) + Len(pending)
         /\ \A n \in 1 .. Len(Underway) : Underway[n] \in Orders
<1>1. orders \in Seq(Orders) /\ pending \in Seq(Orders)
  BY DEF LoopTypes
<1> QED BY <1>1 DEF Underway

\* The book and the quotes are as before.
LEMMA PositionsKept ==
  ASSUME Positions, UNCHANGED <<lots, own, desk, arena, orders, pending>>
  PROVE  Positions'
BY DEF Positions, FeedPlaced, OwnIsDesk, QuotesBehind

LEMMA QuotesKept ==
  ASSUME Counted, NewestUnderway, UNCHANGED <<desk, orders, pending, my_px, open>>
  PROVE  Counted' /\ NewestUnderway'
BY DEF Counted, NewestUnderway, Underway

\* The published top is as current as before.
LEMMA CurrencyKept ==
  ASSUME PublishedTopCurrent, UNCHANGED <<lots, own, last>>,
         quoted' = quoted, pcE' # "publish" => pcE # "publish"
  PROVE  PublishedTopCurrent'
BY DEF PublishedTopCurrent, Top, BestBid, BestAsk, Occupied, LotsAt

LEMMA FeederStep ==
  ASSUME LoopInv, Feeder
  PROVE  LoopInv'
<1> USE DEF LoopInv, book, engine, strategy
<1>0. PICK side \in Sides, delta \in FeedLots \union {-q : q \in FeedLots} :
        \E price \in FeedLevels(side) : Land(side, price, delta)
  BY DEF Feeder
<1>1. PICK price \in FeedLevels(side) : Land(side, price, delta)
  BY <1>0
<1> DEFINE f == [side |-> side, price |-> price, delta |-> delta]
<1>2. delta \in Int /\ price \in Levels
  BY LoopAssumption, LevelTypes
<1>3. f \in Frames /\ arena \in Seq(Frames) /\ arena' = Append(arena, f)
  BY <1>1, <1>2 DEF Land, Frames, LoopTypes
<1>4. /\ arena' \in Seq(Frames) /\ Len(arena') = Len(arena) + 1 /\ arena'[Len(arena) + 1] = f
      /\ \A n \in 1 .. Len(arena) : arena'[n] = arena[n]
  <2> HIDE DEF f
  <2> QED BY <1>3
<1>5. LoopTypes'
  BY <1>1, <1>4 DEF Land, LoopTypes
<1>6. Positions'
  <2>1. \A n \in 1 .. Len(arena') : arena'[n].price \in FeedLevels(arena'[n].side)
    <3> SUFFICES ASSUME NEW n \in 1 .. Len(arena') PROVE arena'[n].price \in FeedLevels(arena'[n].side)
      OBVIOUS
    <3>1. CASE n = Len(arena) + 1
      BY <1>4, <3>1
    <3>2. CASE n # Len(arena) + 1
      <4>1. n \in 1 .. Len(arena)
        BY <1>3, <1>4, <3>2
      <4> QED BY <1>4, <4>1 DEF Positions, FeedPlaced
    <3> QED BY <3>1, <3>2
  <2> QED BY <1>1, <2>1 DEF Land, Positions, FeedPlaced, OwnIsDesk, QuotesBehind
<1>7. Counted' /\ NewestUnderway'
  BY <1>1, QuotesKept DEF Land
<1>8. FeedInv(SafeTops)'
  BY <1>1, FeedUnchanged DEF Land
<1>9. PublishedTopCurrent'
  BY <1>1, CurrencyKept DEF Land, vars, publisherVars
<1> QED BY <1>5, <1>6, <1>7, <1>8, <1>9

\* The desk replaces its quote by the oldest one under way, in the engine's loop
\* and in main's drain alike.
LEMMA DeskStep ==
  ASSUME LoopInv, orders # <<>>, DeskApply(Head(orders)), orders' = Tail(orders), quoted' = TRUE,
         UNCHANGED <<vars, feeder, arena, my_px, open, pending, pcS, done>>,
         pcE' \in {"orders", "front", "publish"}
  PROVE  LoopInv'
<1> USE DEF LoopInv, feeder
<1> DEFINE q == Head(orders)
<1>1. /\ orders \in Seq(Orders) /\ Len(orders) \in Nat /\ Len(orders) > 0 /\ q = orders[1]
      /\ q \in Orders /\ q.side \in Sides /\ q.price \in Levels
  <2>1. orders \in Seq(Orders) /\ Len(orders) \in Nat /\ Len(orders) > 0 /\ q = orders[1]
    BY DEF LoopTypes
  <2>2. q \in Orders
    BY <2>1
  <2> QED BY <2>1, <2>2 DEF Orders
<1>2. /\ orders' \in Seq(Orders) /\ Len(orders') = Len(orders) - 1
      /\ \A n \in 1 .. Len(orders) - 1 : orders'[n] = orders[n + 1]
  BY <1>1
<1> HIDE DEF q
<1>3. desk' = [desk EXCEPT ![q.side] = q.price] /\ lots' = lots
  BY DEF DeskApply, q
<1>4. desk' \in [Sides -> Levels \union {None}]
  BY <1>1, <1>3 DEF LoopTypes
<1>5. \A side \in Sides : desk'[side] = IF side = q.side THEN q.price ELSE desk[side]
  BY <1>1, <1>3 DEF LoopTypes
<1> DEFINE old == desk[q.side]
           pulled == IF old = None THEN own ELSE [own EXCEPT ![q.side][old] = @ - 1]
<1>6. own' = [pulled EXCEPT ![q.side][q.price] = @ + 1]
  BY DEF DeskApply, q
<1>7. \A side \in Sides, p \in Levels :
        pulled[side][p] = IF side = q.side THEN 0 ELSE own[side][p]
  BY <1>1, LevelTypes DEF Positions, OwnIsDesk, LoopTypes
<1>8. pulled \in [Sides -> [Levels -> Int]]
  BY <1>1 DEF LoopTypes
<1>9. own' \in [Sides -> [Levels -> Int]] /\ \A side \in Sides, p \in Levels :
        own'[side][p] = IF side = q.side THEN (IF p = q.price THEN 1 ELSE 0) ELSE own[side][p]
  <2> HIDE DEF pulled
  <2> QED BY <1>1, <1>6, <1>7, <1>8
<1>10. LoopTypes'
  BY <1>2, <1>3, <1>4, <1>9 DEF LoopTypes
<1>11. Positions'
  <2>1. OwnIsDesk'
    <3> SUFFICES ASSUME NEW side \in Sides, NEW p \in Levels
                 PROVE  own'[side][p] = IF desk'[side] = p THEN 1 ELSE 0
      BY DEF OwnIsDesk
    <3>1. own[side][p] = IF desk[side] = p THEN 1 ELSE 0
      BY DEF Positions, OwnIsDesk
    <3>2. own'[side][p] = IF side = q.side THEN (IF p = q.price THEN 1 ELSE 0) ELSE own[side][p]
      BY <1>9
    <3>3. desk'[side] = IF side = q.side THEN q.price ELSE desk[side]
      BY <1>5
    <3> QED BY <3>1, <3>2, <3>3
  <2>2. FeedPlaced'
    BY <1>3 DEF Positions, FeedPlaced
  <2>3. QuotesBehind'
    <3>1. \A side \in Sides : desk'[side] # None => Behind(side, desk'[side])
      BY <1>1, <1>5 DEF Positions, QuotesBehind
    <3>2. \A n \in 1 .. Len(orders') : Behind(orders'[n].side, orders'[n].price)
      BY <1>1, <1>2 DEF Positions, QuotesBehind
    <3> QED BY <3>1, <3>2 DEF Positions, QuotesBehind
  <2> QED BY <2>1, <2>2, <2>3 DEF Positions
<1>12. Counted'
  <2>1. \A side \in Sides : desk'[side] # None => my_px[side] # None
    BY <1>1, <1>5 DEF Counted
  <2>2. \A n \in 1 .. Len(orders') : my_px[orders'[n].side] # None
    BY <1>1, <1>2 DEF Counted
  <2> QED BY <2>1, <2>2 DEF Counted
<1>13. NewestUnderway'
  <2> DEFINE u == Underway
  <2>1. /\ u \in Seq(Orders) /\ Len(u) \in Nat /\ Len(u) > 0 /\ u[1] = q
        /\ Underway' = Tail(u) /\ Len(Underway') = Len(u) - 1
        /\ \A n \in 1 .. Len(u) - 1 : Underway'[n] = u[n + 1]
    <3>1. pending \in Seq(Orders) /\ pending' = pending
      BY DEF LoopTypes
    <3>2. u = orders \o pending /\ Underway' = orders' \o pending
      BY <3>1 DEF Underway
    <3>3. u \in Seq(Orders) /\ Len(u) = Len(orders) + Len(pending) /\ u[1] = q
      BY <1>1, <3>1, <3>2
    <3>4. Len(Underway') = Len(orders) - 1 + Len(pending)
      BY <1>1, <1>2, <3>1, <3>2
    <3>5. ASSUME NEW n \in 1 .. Len(u) - 1 PROVE Underway'[n] = u[n + 1]
      BY <1>1, <1>2, <3>1, <3>2, <3>3
    <3> QED BY <1>1, <3>1, <3>2, <3>3, <3>4, <3>5
  <2> SUFFICES ASSUME NEW side \in Sides
               PROVE  \/ /\ my_px[side] = desk'[side]
                         /\ \A n \in 1 .. Len(Underway') : Underway'[n].side # side
                      \/ \E n \in 1 .. Len(Underway') :
                           /\ Underway'[n].side = side /\ my_px[side] = Underway'[n].price
                           /\ \A m \in n + 1 .. Len(Underway') : Underway'[m].side # side
    BY DEF NewestUnderway
  <2> HIDE DEF u
  <2>2. CASE \A n \in 1 .. Len(u) : u[n].side # side
    <3>1. my_px[side] = desk[side] /\ side # q.side
      BY <2>1, <2>2 DEF NewestUnderway, u
    <3> QED BY <1>5, <2>1, <2>2, <3>1
  <2>3. CASE \E n \in 1 .. Len(u) : u[n].side = side
    <3>1. PICK n \in 1 .. Len(u) : /\ u[n].side = side /\ my_px[side] = u[n].price
                                  /\ \A m \in n + 1 .. Len(u) : u[m].side # side
      BY <2>3 DEF NewestUnderway, u
    <3>2. \A m \in n .. Len(u) - 1 : m + 1 \in n + 1 .. Len(u) /\ m \in 1 .. Len(u) - 1
      BY <2>1
    <3>3. \A m \in n .. Len(u) - 1 : Underway'[m].side # side
      BY <2>1, <3>1, <3>2
    <3>4. CASE n = 1
      BY <1>5, <2>1, <3>1, <3>3, <3>4
    <3>5. CASE n # 1
      <4>1. n - 1 \in 1 .. Len(u) - 1 /\ (n - 1) + 1 = n
        BY <2>1, <3>5
      <4>2. Underway'[n - 1] = u[n]
        BY <2>1, <4>1
      <4> QED BY <2>1, <3>1, <3>3, <4>1, <4>2
    <3> QED BY <3>4, <3>5
  <2> QED BY <2>2, <2>3
<1>14. FeedInv(SafeTops)'
  BY FeedUnchanged
<1>15. PublishedTopCurrent'
  BY DEF PublishedTopCurrent
<1> QED BY <1>10, <1>11, <1>12, <1>13, <1>14, <1>15

LEMMA EngineStep ==
  ASSUME LoopInv, Engine
  PROVE  LoopInv'
<1> USE DEF LoopInv, feeder, book, strategy
<1>1. CASE PopOrder
  BY <1>1, DeskStep DEF PopOrder
<1>2. CASE NoFront
  <2>1. LoopTypes'
    BY <1>2 DEF NoFront, LoopTypes
  <2>2. Positions' /\ Counted' /\ NewestUnderway'
    BY <1>2, PositionsKept, QuotesKept DEF NoFront
  <2>3. FeedInv(SafeTops)'
    BY <1>2, FeedUnchanged DEF NoFront
  <2>4. PublishedTopCurrent'
    BY <1>2, CurrencyKept DEF NoFront, vars, publisherVars
  <2> QED BY <2>1, <2>2, <2>3, <2>4
<1>3. CASE ApplyFrame
  <2> DEFINE f == Head(arena)
  <2>1. /\ arena \in Seq(Frames) /\ Len(arena) \in Nat /\ Len(arena) > 0 /\ f = arena[1]
        /\ f \in Frames /\ f.side \in Sides /\ f.price \in Levels /\ f.delta \in Int
    <3>1. arena \in Seq(Frames) /\ Len(arena) \in Nat /\ Len(arena) > 0 /\ f = arena[1]
      BY <1>3 DEF ApplyFrame, LoopTypes
    <3>2. f \in Frames
      BY <3>1
    <3> QED BY <3>1, <3>2 DEF Frames
  <2>2. /\ arena' \in Seq(Frames) /\ Len(arena') = Len(arena) - 1
        /\ \A n \in 1 .. Len(arena) - 1 : arena'[n] = arena[n + 1]
    BY <1>3, <2>1 DEF ApplyFrame
  <2>3. lots' = [lots EXCEPT ![f.side][f.price] = @ + f.delta]
    BY <1>3 DEF ApplyFrame
  <2>4. f.price \in FeedLevels(f.side)
    BY <2>1 DEF Positions, FeedPlaced
  <2> HIDE DEF f
  <2>5. lots' \in [Sides -> [Levels -> Int]] /\ \A side \in Sides, p \in Levels :
          p \notin FeedLevels(side) => lots'[side][p] = lots[side][p]
    BY <2>1, <2>3, <2>4 DEF LoopTypes
  <2>6. LoopTypes'
    BY <1>3, <2>2, <2>5 DEF ApplyFrame, LoopTypes
  <2>7. Positions'
    <3>1. ASSUME NEW n \in 1 .. Len(arena') PROVE arena'[n].price \in FeedLevels(arena'[n].side)
      <4>1. n + 1 \in 1 .. Len(arena) /\ arena'[n] = arena[n + 1]
        BY <2>1, <2>2
      <4> QED BY <4>1 DEF Positions, FeedPlaced
    <3>2. ASSUME NEW side \in Sides, NEW p \in Levels, p \notin FeedLevels(side)
          PROVE  lots'[side][p] = 0
      BY <2>5, <3>2 DEF Positions, FeedPlaced
    <3>3. FeedPlaced'
      BY <3>1, <3>2 DEF FeedPlaced
    <3> QED BY <1>3, <3>3 DEF ApplyFrame, Positions, OwnIsDesk, QuotesBehind
  <2>8. Counted' /\ NewestUnderway'
    BY <1>3, QuotesKept DEF ApplyFrame
  <2>9. FeedInv(SafeTops)'
    BY <1>3, FeedUnchanged DEF ApplyFrame
  <2>10. PublishedTopCurrent'
    BY <1>3 DEF ApplyFrame, PublishedTopCurrent
  <2> QED BY <2>6, <2>7, <2>8, <2>9, <2>10
<1>4. CASE PublishTop
  <2>1. LoopTypes'
    <3>1. /\ done' = done + 1 /\ pcE' = "orders" /\ quoted' = FALSE
          /\ UNCHANGED <<sent_frames, supply, arena, lots, own, desk, orders, my_px, open, pending, pcS>>
      BY <1>4 DEF PublishTop
    <3>2. done' \in Nat
      BY <3>1 DEF LoopTypes
    <3> QED BY <3>1, <3>2 DEF LoopTypes
  <2>2. Positions' /\ Counted' /\ NewestUnderway'
    BY <1>4, PositionsKept, QuotesKept DEF PublishTop
  <2>3. FeedInv(SafeTops)'
    <3>1. Top \in SafeTops /\ on_message_applied(Top)
      BY <1>4, TopSafe DEF PublishTop
    <3> QED BY <3>1, FeedApplied
  <2>4. PublishedTopCurrent'
    <3>1. last' = Top
      BY <1>4 DEF PublishTop, on_message_applied, Unchanged, Publish, Drop, vars, publisherVars
    <3>2. Top' = Top
      BY <1>4 DEF PublishTop, Top, BestBid, BestAsk, Occupied, LotsAt
    <3> QED BY <3>1, <3>2 DEF PublishedTopCurrent
  <2> QED BY <2>1, <2>2, <2>3, <2>4
<1> QED BY <1>1, <1>2, <1>3, <1>4 DEF Engine

LEMMA StrategyStep ==
  ASSUME LoopInv, Strategy
  PROVE  LoopInv'
<1> USE DEF LoopInv, feeder, book, engine
<1>1. ASSUME Ready \/ PopFails \/ LookAtStop
      PROVE  LoopInv'
  <2>1. LoopTypes'
    BY <1>1 DEF Ready, PopFails, LookAtStop, LoopTypes, Sides
  <2>2. Positions' /\ Counted' /\ NewestUnderway'
    BY <1>1, PositionsKept, QuotesKept DEF Ready, PopFails, LookAtStop
  <2>3. FeedInv(SafeTops)'
    BY <1>1, FeedUnchanged DEF Ready, PopFails, LookAtStop
  <2>4. PublishedTopCurrent'
    BY <1>1, CurrencyKept DEF Ready, PopFails, LookAtStop, vars, publisherVars
  <2> QED BY <2>1, <2>2, <2>3, <2>4
<1>2. CASE PopUpdate
  <2>1. LoopTypes'
    BY <1>2 DEF PopUpdate, LoopTypes, Sides
  <2>2. Positions' /\ Counted' /\ NewestUnderway'
    BY <1>2, PositionsKept, QuotesKept DEF PopUpdate
  <2>3. FeedInv(SafeTops)'
    BY <1>2, FeedReceived DEF PopUpdate
  <2>4. PublishedTopCurrent'
    BY <1>2, CurrencyKept DEF PopUpdate, Receive, publisherVars
  <2> QED BY <2>1, <2>2, <2>3, <2>4
<1>3. ASSUME NEW side \in Sides, Skip(side) \/ Refused(side), Quote
      PROVE  LoopInv'
  <2>1. LoopTypes'
    BY <1>3 DEF Quote, Skip, Refused, After, LoopTypes, Sides
  <2>2. Positions' /\ Counted' /\ NewestUnderway'
    BY <1>3, PositionsKept, QuotesKept DEF Quote, Skip, Refused
  <2>3. FeedInv(SafeTops)'
    BY <1>3, FeedUnchanged DEF Quote
  <2>4. PublishedTopCurrent'
    BY <1>3, CurrencyKept DEF Quote, vars, publisherVars
  <2> QED BY <2>1, <2>2, <2>3, <2>4
<1>4. ASSUME NEW side \in Sides, Accepted(side), Quote
      PROVE  LoopInv'
  <2> DEFINE q == [side |-> side, price |-> Want(side)]
  <2>1. Want(side) \in Levels /\ q \in Orders /\ pending = <<>> /\ pending' = <<q>>
    BY <1>4 DEF Accepted, Orders, LoopTypes, Sides
  <2>2. Behind(side, Want(side))
    <3>1. view \in SafeTops
      BY DEF FeedInv, FeedTypes
    <3>2. view.bp \in SafePrices("Buy") \union {None} /\ view.ap \in SafePrices("Sell") \union {None}
      BY <3>1 DEF SafeTops
    <3>3. CASE side = "Buy"
      <4>0. view.bp \in SafePrices("Buy") /\ view.bp \in Nat
        <5>1. view.bp >= 0
          BY <1>4, <3>3 DEF Accepted, Quotes
        <5>2. view.bp # None
          BY <5>1 DEF None
        <5> QED BY <3>2, <5>2, LevelTypes DEF SafePrices
      <4>1. Want(side) <= view.bp /\ Want(side) \in Int
        BY <3>3, <4>0 DEF Want
      <4>2. PICK b \in FeedBids : view.bp <= b
        BY <4>0 DEF SafePrices, Behind
      <4>3. b \in Nat
        BY LevelTypes
      <4>4. Want(side) <= b
        BY <4>0, <4>1, <4>2, <4>3
      <4> QED BY <3>3, <4>4 DEF Behind
    <3>4. CASE side = "Sell"
      <4>0. view.ap \in SafePrices("Sell") /\ view.ap \in Nat
        <5>1. view.ap >= 0
          BY <1>4, <3>4 DEF Accepted, Quotes
        <5>2. view.ap # None
          BY <5>1 DEF None
        <5> QED BY <3>2, <5>2, LevelTypes DEF SafePrices
      <4>1. view.ap <= Want(side) /\ Want(side) \in Int
        BY <3>4, <4>0 DEF Want
      <4>2. PICK a \in FeedAsks : a <= view.ap
        BY <4>0 DEF SafePrices, Behind
      <4>3. a \in Nat
        BY LevelTypes
      <4>4. a <= Want(side)
        BY <4>0, <4>1, <4>2, <4>3
      <4> QED BY <3>4, <4>4 DEF Behind
    <3> QED BY <3>3, <3>4 DEF Sides
  <2>3. /\ my_px' = [my_px EXCEPT ![side] = Want(side)]
        /\ open' = [open EXCEPT ![side] = IF my_px[side] = None THEN @ + 1 ELSE @]
        /\ pcS' = "push" /\ UNCHANGED <<vars, feeder, arena, book, engine, orders, stop>>
    BY <1>4 DEF Accepted, Quote
  <2> HIDE DEF q
  <2>4. /\ pending' \in Seq(Orders) /\ Len(pending') = 1 /\ pending'[1] = q
        /\ q.side = side /\ q.price = Want(side)
    BY <2>1 DEF q
  <2>5. /\ \A s \in Sides : my_px'[s] = IF s = side THEN Want(side) ELSE my_px[s]
        /\ my_px' \in [Sides -> Levels \union {None}]
    BY <2>1, <2>3 DEF LoopTypes
  <2>6. open' \in [Sides -> {0, 1}] /\ \A s \in Sides : open'[s] = IF my_px'[s] = None THEN 0 ELSE 1
    <3>1. open[side] = IF my_px[side] = None THEN 0 ELSE 1
      BY DEF Counted
    <3>2. Want(side) # None
      BY <2>1, LevelTypes
    <3>3. open' = [open EXCEPT ![side] = 1]
      BY <2>3, <3>1 DEF LoopTypes
    <3> QED BY <2>5, <3>2, <3>3 DEF LoopTypes, Counted
  <2>7. LoopTypes'
    BY <2>3, <2>4, <2>5, <2>6 DEF LoopTypes
  <2>8. Positions'
    BY <2>2, <2>3, <2>4 DEF Positions, FeedPlaced, OwnIsDesk, QuotesBehind
  <2>9. Counted'
    <3>1. \A s \in Sides : my_px[s] # None => my_px'[s] # None
      BY <2>1, <2>5, LevelTypes
    <3>2. \A n \in 1 .. Len(orders) : orders[n].side \in Sides
      BY UnderwayTypes DEF Orders
    <3>3. my_px'[side] # None
      BY <2>1, <2>5, LevelTypes
    <3> QED BY <2>3, <2>4, <2>6, <3>1, <3>2, <3>3 DEF Counted
  <2>10. NewestUnderway'
    <3> DEFINE u == Underway
    <3>1. /\ u = orders /\ u \in Seq(Orders) /\ Len(u) \in Nat /\ Underway' = Append(u, q)
      BY <2>1, <2>3 DEF Underway, LoopTypes
    <3>2. /\ Len(Underway') = Len(u) + 1 /\ Underway'[Len(u) + 1] = q
          /\ \A n \in 1 .. Len(u) : Underway'[n] = u[n]
      <4> HIDE DEF u
      <4> QED BY <2>1, <3>1
    <3> SUFFICES ASSUME NEW s \in Sides
                 PROVE  \/ /\ my_px'[s] = desk[s]
                           /\ \A n \in 1 .. Len(Underway') : Underway'[n].side # s
                        \/ \E n \in 1 .. Len(Underway') :
                             /\ Underway'[n].side = s /\ my_px'[s] = Underway'[n].price
                             /\ \A m \in n + 1 .. Len(Underway') : Underway'[m].side # s
      BY <2>3 DEF NewestUnderway
    <3> HIDE DEF u
    <3>3. CASE s = side
      BY <2>4, <2>5, <3>1, <3>2, <3>3
    <3>4. CASE s # side
      <4>1. my_px'[s] = my_px[s]
        BY <2>5, <3>4
      <4>2. CASE \A n \in 1 .. Len(u) : u[n].side # s
        <5>1. my_px[s] = desk[s]
          BY <4>2 DEF NewestUnderway, u
        <5>2. ASSUME NEW n \in 1 .. Len(Underway') PROVE Underway'[n].side # s
          BY <2>4, <3>1, <3>2, <3>4, <4>2
        <5> QED BY <4>1, <5>1, <5>2
      <4>3. CASE \E n \in 1 .. Len(u) : u[n].side = s
        <5>1. PICK n \in 1 .. Len(u) : /\ u[n].side = s /\ my_px[s] = u[n].price
                                      /\ \A m \in n + 1 .. Len(u) : u[m].side # s
          BY <4>3 DEF NewestUnderway, u
        <5>2. ASSUME NEW m \in n + 1 .. Len(Underway') PROVE Underway'[m].side # s
          BY <2>4, <3>1, <3>2, <3>4, <5>1
        <5>3. n \in 1 .. Len(Underway') /\ Underway'[n] = u[n]
          BY <3>1, <3>2
        <5> QED BY <4>1, <5>1, <5>2, <5>3
      <4> QED BY <4>2, <4>3
    <3> QED BY <3>3, <3>4
  <2>11. FeedInv(SafeTops)'
    BY <2>3, FeedUnchanged
  <2>12. PublishedTopCurrent'
    BY <2>3, CurrencyKept DEF vars, publisherVars
  <2> QED BY <2>7, <2>8, <2>9, <2>10, <2>11, <2>12
<1>5. CASE Push
  <2>1. pcS = "push" /\ UNCHANGED <<vars, feeder, arena, book, engine, my_px, open, stop>>
    BY <1>5 DEF Push
  <2>2. FeedInv(SafeTops)' /\ PublishedTopCurrent'
    BY <2>1, FeedUnchanged, CurrencyKept DEF vars, publisherVars
  <2>3. CASE ~ (Len(orders) < OrdCap)
    <3>1. UNCHANGED <<orders, pcS, pending>>
      BY <1>5, <2>3 DEF Push
    <3>2. LoopTypes'
      BY <2>1, <3>1 DEF LoopTypes
    <3>3. Positions' /\ Counted' /\ NewestUnderway'
      BY <2>1, <3>1, PositionsKept, QuotesKept
    <3> QED BY <2>2, <3>2, <3>3
  <2>4. CASE Len(orders) < OrdCap
    <3> DEFINE q == pending[1]
    <3>1. /\ Len(pending) = 1 /\ pending \in Seq(Orders) /\ orders \in Seq(Orders)
          /\ Len(orders) \in Nat /\ 1 \in 1 .. Len(pending) /\ q \in Orders
      <4>1. Len(pending) = 1
        BY <2>1 DEF LoopTypes
      <4> QED BY <4>1, UnderwayTypes DEF LoopTypes
    <3>2. orders' = orders \o pending /\ pcS' = After(q.side) /\ pending' = <<>>
      BY <1>5, <2>4 DEF Push
    <3> HIDE DEF q
    <3>3. /\ orders' \in Seq(Orders) /\ Len(orders') = Len(orders) + 1
          /\ orders'[Len(orders) + 1] = q
          /\ \A n \in 1 .. Len(orders) : orders'[n] = orders[n]
      <4> DEFINE U == Orders
      <4>1. orders \in Seq(U) /\ pending \in Seq(U)
        BY <3>1
      <4> HIDE DEF U
      <4>2. orders \o pending \in Seq(U)
        BY <4>1
      <4>3. Len(orders \o pending) = Len(orders) + 1
        <5>1. Len(orders \o pending) = Len(orders) + Len(pending)
          BY <4>1
        <5> QED BY <3>1, <5>1
      <4>4. (orders \o pending)[Len(orders) + 1] = pending[1]
        BY <3>1, <4>1
      <4>5. \A n \in 1 .. Len(orders) : (orders \o pending)[n] = orders[n]
        BY <3>1, <4>1
      <4> QED BY <3>2, <4>2, <4>3, <4>4, <4>5 DEF q, U
    <3>4. pending' \in Seq(Orders) /\ Len(pending') = 0
      BY <3>2
    <3>5. pcS' \in {"Sell", "poll"}
      BY <3>2 DEF After
    <3>6. LoopTypes'
      BY <2>1, <3>2, <3>3, <3>4, <3>5 DEF LoopTypes, Sides
    <3>7. Behind(q.side, q.price) /\ my_px[q.side] # None
      BY <3>1 DEF q, Positions, QuotesBehind, Counted
    <3>8. ASSUME NEW n \in 1 .. Len(orders')
          PROVE  Behind(orders'[n].side, orders'[n].price) /\ my_px[orders'[n].side] # None
      <4>1. CASE n = Len(orders) + 1
        BY <3>3, <3>7, <4>1
      <4>2. CASE n # Len(orders) + 1
        <5>1. n \in 1 .. Len(orders)
          BY <3>1, <3>3, <4>2
        <5> QED BY <3>3, <5>1 DEF Positions, QuotesBehind, Counted
      <4> QED BY <4>1, <4>2
    <3>9. Positions'
      BY <2>1, <3>4, <3>8 DEF Positions, FeedPlaced, OwnIsDesk, QuotesBehind
    <3>10. Counted'
      BY <2>1, <3>4, <3>8 DEF Counted
    <3>11. Underway' = Underway
      BY <3>1, <3>2, <3>3 DEF Underway
    <3>12. NewestUnderway'
      BY <2>1, <3>11 DEF NewestUnderway
    <3> QED BY <2>2, <3>6, <3>9, <3>10, <3>12
  <2> QED BY <2>3, <2>4
<1> QED BY <1>1, <1>2, <1>3, <1>4, <1>5 DEF Strategy, Quote

LEMMA MainStep ==
  ASSUME LoopInv, Main
  PROVE  LoopInv'
<1> USE DEF LoopInv, feeder, book, engine, strategy
<1>1. CASE SetStop
  <2>1. LoopTypes'
    BY <1>1 DEF SetStop, LoopTypes
  <2>2. Positions' /\ Counted' /\ NewestUnderway'
    BY <1>1, PositionsKept, QuotesKept DEF SetStop
  <2>3. FeedInv(SafeTops)'
    BY <1>1, FeedUnchanged DEF SetStop
  <2>4. PublishedTopCurrent'
    BY <1>1, CurrencyKept DEF SetStop, vars, publisherVars
  <2> QED BY <2>1, <2>2, <2>3, <2>4
<1>2. CASE DrainOrder
  <2>1. pcE' \in {"orders", "front", "publish"}
    BY <1>2 DEF DrainOrder, LoopTypes
  <2> QED BY <1>2, <2>1, DeskStep DEF DrainOrder
<1> QED BY <1>1, <1>2 DEF Main

LEMMA LoopStands ==
  ASSUME LoopInv, UNCHANGED loopVars
  PROVE  LoopInv'
<1> USE DEF LoopInv, loopVars, feeder, book, engine, strategy
<1>1. LoopTypes'
  BY DEF LoopTypes
<1>2. Positions' /\ Counted' /\ NewestUnderway'
  BY PositionsKept, QuotesKept
<1>3. FeedInv(SafeTops)'
  BY FeedUnchanged
<1>4. PublishedTopCurrent'
  BY CurrencyKept DEF vars, publisherVars
<1> QED BY <1>1, <1>2, <1>3, <1>4

LEMMA LoopCorrect == LoopSpec => []LoopInv
<1>1. LoopInv /\ [LoopNext]_loopVars => LoopInv'
  BY FeederStep, EngineStep, StrategyStep, MainStep, LoopStands DEF LoopNext, Terminated
<1> QED BY <1>1, LoopInitInv, PTL DEF LoopSpec

-----------------------------------------------------------------------------
(* What the invariant says *)

\* However old the top a quote answers, the book is never crossed or locked, for
\* every feed that quotes below and above a middle with a gap of two levels.
THEOREM FlowsNeverCross == LoopSpec => []NothingCrosses
<1>1. ASSUME LoopInv PROVE NothingCrosses
  <2>1. BestBid \in SafePrices("Buy") \union {None} /\ BestAsk \in SafePrices("Sell") \union {None}
    BY <1>1, BestBehind DEF LoopInv
  <2>2. BestBid # None /\ BestAsk # None => BestBid < BestAsk
    BY <2>1, SidesApart
  <2> QED BY <2>2 DEF NothingCrosses
<1> QED BY <1>1, LoopCorrect, PTL

\* Giving the exposure of the old quote back before the engine pulls it never
\* leaves more lots resting than the gateway counts, at more than one price.
THEOREM ExposureCoversBook == LoopSpec => []RestingWithinRisk
<1>1. ASSUME LoopInv PROVE RestingWithinRisk
  <2> SUFFICES ASSUME NEW side \in Sides
               PROVE  /\ \A p \in Levels : own[side][p] \in 0 .. open[side]
                      /\ \A p, q \in Levels : own[side][p] > 0 /\ own[side][q] > 0 => p = q
                      /\ open[side] <= 1
    BY DEF RestingWithinRisk
  <2>1. open[side] = IF my_px[side] = None THEN 0 ELSE 1
    BY <1>1 DEF LoopInv, Counted
  <2>2. \A p \in Levels : own[side][p] = IF desk[side] = p THEN 1 ELSE 0
    BY <1>1 DEF LoopInv, Positions, OwnIsDesk
  <2>3. ASSUME NEW p \in Levels, desk[side] = p PROVE my_px[side] # None
    BY <1>1, <2>3, LevelTypes DEF LoopInv, Counted
  <2>4. ASSUME NEW p \in Levels PROVE own[side][p] \in 0 .. open[side]
    BY <2>1, <2>2, <2>3
  <2> QED BY <2>1, <2>2, <2>4
<1> QED BY <1>1, LoopCorrect, PTL

\* The price the strategy remembers is the one the desk ends with once every
\* quote under way has arrived, whatever the capacity of the order ring.
THEOREM RememberedWins == LoopSpec => []NewestQuoteWins
<1>1. ASSUME LoopInv PROVE NewestQuoteWins
  <2> DEFINE u == Underway
             ofSide(side) == {n \in DOMAIN u : u[n].side = side}
  <2>1. u = orders \o pending /\ u \in Seq(Orders) /\ Len(u) \in Nat /\ DOMAIN u = 1 .. Len(u)
    <3>1. u \in Seq(Orders)
      BY <1>1, UnderwayTypes DEF LoopInv
    <3> QED BY <3>1 DEF Underway
  <2>2. ASSUME NEW side \in Sides
        PROVE  my_px[side] = IF ofSide(side) = {} THEN desk[side] ELSE u[Max(ofSide(side))].price
    <3> HIDE DEF u
    <3>1. CASE /\ my_px[side] = desk[side]
               /\ \A n \in 1 .. Len(u) : u[n].side # side
      BY <2>1, <3>1
    <3>2. ASSUME NEW n \in 1 .. Len(u), u[n].side = side, my_px[side] = u[n].price,
                 \A m \in n + 1 .. Len(u) : u[m].side # side
          PROVE  my_px[side] = IF ofSide(side) = {} THEN desk[side] ELSE u[Max(ofSide(side))].price
      <4>1. ofSide(side) \in SUBSET Nat /\ n \in ofSide(side)
        BY <2>1, <3>2
      <4>2. ASSUME NEW m \in ofSide(side) PROVE m <= n
        BY <2>1, <3>2
      <4>3. Max(ofSide(side)) = n
        <5> HIDE DEF ofSide
        <5> QED BY <4>1, <4>2, MaxIs
      <4> QED BY <3>2, <4>1, <4>3
    <3>3. \/ /\ my_px[side] = desk[side]
             /\ \A n \in 1 .. Len(u) : u[n].side # side
          \/ \E n \in 1 .. Len(u) :
               /\ u[n].side = side /\ my_px[side] = u[n].price
               /\ \A m \in n + 1 .. Len(u) : u[m].side # side
      BY <1>1 DEF LoopInv, NewestUnderway, u
    <3> QED BY <3>1, <3>2, <3>3
  <2> QED BY <2>1, <2>2 DEF NewestQuoteWins
<1> QED BY <1>1, LoopCorrect, PTL

\* Between two frames the publisher's last top is the book's, unless a quote of
\* the firm changed the book since.
THEOREM PublishedKept == LoopSpec => []PublishedTopCurrent
<1>1. LoopInv => PublishedTopCurrent
  BY DEF LoopInv
<1> QED BY <1>1, LoopCorrect, PTL

\* The feed's accounts of the numbers hold in the loop too, where the top
\* published is the top of the engine's book.
THEOREM LoopKeepsFeed == LoopSpec => [](GapsExact /\ DrainedIsCurrent)
<1>1. LoopInv => GapsExact /\ DrainedIsCurrent
  BY FeedImplies DEF LoopInv
<1> QED BY <1>1, LoopCorrect, PTL

-----------------------------------------------------------------------------
(* The signals.  What ties them together is one running total c of the flow: *)
(* the publisher's imbalance, the one every queued update carries and the    *)
(* one the subscriber saw last are its values at their numbers.              *)

TopOf(h, n) == IF n = 0 THEN EmptyTop ELSE h[n]

\* The flow that the step from top a to top b means.
Turn(a, b) ==
  (CASE b.bp > a.bp -> b.bq
     [] b.bp = a.bp -> b.bq - a.bq
     [] b.bp < a.bp -> -a.bq)
  + (CASE a.ap = -1 \/ b.ap = -1 -> 0
       [] a.ap # -1 /\ b.ap # -1 /\ b.ap = a.ap -> a.aq - b.aq
       [] a.ap # -1 /\ b.ap # -1 /\ b.ap > a.ap -> a.aq
       [] a.ap # -1 /\ b.ap # -1 /\ b.ap < a.ap -> -b.aq)

Flow(h, n) == Turn(TopOf(h, n - 1), TopOf(h, n))

Cumulates(c) ==
  /\ c \in [0 .. seq -> Int] /\ c[0] = 0
  /\ \A n \in 1 .. seq : c[n] = c[n - 1] + Flow(history, n)

Carried(c) ==
  /\ ofi = c[seq] /\ viewed.ofi = c[last_seq]
  /\ \A n \in 1 .. Len(ring) : signals[n].ofi = c[ring[n].seq]

SignalTypes ==
  /\ history \in Seq(BookTops) /\ Len(history) = seq /\ last = TopOf(history, seq)
  /\ signals \in Seq([ofi : Int, micro : Int]) /\ Len(signals) = Len(ring)

MicroOfTop == \A n \in 1 .. Len(ring) : signals[n].micro = Micro(ring[n].top)

SignalInv ==
  /\ FeedInv(BookTops) /\ SignalTypes /\ MicroOfTop
  /\ \E c : Cumulates(c) /\ Carried(c)

LEMMA TopTypes ==
  ASSUME NEW t \in BookTops
  PROVE  /\ t.bp \in Int /\ t.ap \in Int /\ t.bq \in Nat /\ t.aq \in Nat
         /\ t.bp >= -1 /\ t.ap >= -1
         /\ (t.bq = 0 <=> t.bp = -1) /\ (t.aq = 0 <=> t.ap = -1)
         /\ (t.bq # 0 /\ t.aq # 0 => t.bp < t.ap)
         /\ (t.bq = 0 /\ t.aq = 0 => t = EmptyTop)
<1>1. t \in [bp : Int, ap : Int, bq : Nat, aq : Nat]
  BY DEF BookTops
<1>2. t = [bp |-> t.bp, ap |-> t.ap, bq |-> t.bq, aq |-> t.aq]
  BY <1>1
<1> QED BY <1>1, <1>2, SignalAssumption DEF BookTops

LEMMA EmptyIsTop == EmptyTop \in BookTops /\ EmptyTop.bp = -1 /\ EmptyTop.ap = -1
                    /\ EmptyTop.bq = 0 /\ EmptyTop.aq = 0
<1>1. EmptyTop \in [bp : Int, ap : Int, bq : Nat, aq : Nat]
  BY SignalAssumption
<1> QED BY <1>1, SignalAssumption, FeedAssumption DEF BookTops

LEMMA TopOfType ==
  ASSUME NEW h \in Seq(BookTops), NEW n \in 0 .. Len(h)
  PROVE  TopOf(h, n) \in BookTops
<1>1. CASE n = 0
  BY <1>1, EmptyIsTop DEF TopOf
<1>2. CASE n # 0
  <2>1. n \in 1 .. Len(h)
    BY <1>2
  <2> QED BY <1>2, <2>1 DEF TopOf
<1> QED BY <1>1, <1>2

\* Two tops' worth of flow is a number.
LEMMA TurnType ==
  ASSUME NEW a \in BookTops, NEW b \in BookTops
  PROVE  Turn(a, b) \in Int
BY TopTypes DEF Turn

LEMMA FlowType ==
  ASSUME NEW h \in Seq(BookTops), NEW n \in 1 .. Len(h)
  PROVE  Flow(h, n) \in Int
<1>1. n \in 0 .. Len(h) /\ n - 1 \in 0 .. Len(h)
  OBVIOUS
<1> QED BY <1>1, TopOfType, TurnType DEF Flow

LEMMA FlowIs ==
  ASSUME history \in Seq(BookTops), NEW n \in 1 .. Len(history)
  PROVE  /\ BidFlow(n) \in Int /\ AskFlow(n) \in Int
         /\ BidFlow(n) + AskFlow(n) = Flow(history, n)
<1>1. n \in 0 .. Len(history) /\ n - 1 \in 0 .. Len(history)
  OBVIOUS
<1> DEFINE a == TopOf(history, n - 1)
           b == TopOf(history, n)
<1>2. a \in BookTops /\ b \in BookTops /\ TopAt(n - 1) = a /\ TopAt(n) = b
  BY <1>1, TopOfType DEF TopAt, TopOf
<1> HIDE DEF a, b
<1>3. BidFlow(n) \in Int
  BY <1>2, TopTypes DEF BidFlow
<1>4. AskFlow(n) \in Int
  BY <1>2, TopTypes DEF AskFlow
<1>5. BidFlow(n) + AskFlow(n) = Turn(a, b)
  BY <1>2 DEF BidFlow, AskFlow, Turn
<1> QED BY <1>3, <1>4, <1>5 DEF Flow, a, b

\* The branchless increment is the flow from the last top to t, case by case.
LEMMA IncrementIsFlow ==
  ASSUME last \in BookTops, NEW t \in BookTops
  PROVE  Increment(t) = Turn(last, t)
<1> DEFINE a == last
           bid == CASE t.bp > a.bp -> t.bq
                    [] t.bp = a.bp -> t.bq - a.bq
                    [] t.bp < a.bp -> -a.bq
           ask == CASE a.ap = -1 \/ t.ap = -1 -> 0
                    [] a.ap # -1 /\ t.ap # -1 /\ t.ap = a.ap -> a.aq - t.aq
                    [] a.ap # -1 /\ t.ap # -1 /\ t.ap > a.ap -> a.aq
                    [] a.ap # -1 /\ t.ap # -1 /\ t.ap < a.ap -> -t.aq
           w == Indicator(t.bp >= a.bp) * t.bq
           x == Indicator(t.bp <= a.bp) * a.bq
           y == Indicator(t.ap <= a.ap) * t.aq
           z == Indicator(t.ap >= a.ap) * a.aq
<1>1. /\ a.bp \in Int /\ a.ap \in Int /\ a.bq \in Nat /\ a.aq \in Nat
      /\ t.bp \in Int /\ t.ap \in Int /\ t.bq \in Nat /\ t.aq \in Nat
      /\ t.ap >= -1 /\ a.ap >= -1 /\ (t.aq = 0 <=> t.ap = -1) /\ (a.aq = 0 <=> a.ap = -1)
  BY TopTypes
<1>2. Increment(t) = w - x - y + z
  BY DEF Increment
<1>3. Turn(last, t) = bid + ask
  BY DEF Turn
<1>4. w = IF t.bp >= a.bp THEN t.bq ELSE 0
  BY <1>1 DEF Indicator
<1>5. x = IF t.bp <= a.bp THEN a.bq ELSE 0
  BY <1>1 DEF Indicator
<1>6. y = IF t.ap <= a.ap THEN t.aq ELSE 0
  BY <1>1 DEF Indicator
<1>7. z = IF t.ap >= a.ap THEN a.aq ELSE 0
  BY <1>1 DEF Indicator
<1> HIDE DEF w, x, y, z
<1>8. w - x = bid
  BY <1>1, <1>4, <1>5
<1>9. z - y = ask
  BY <1>1, <1>6, <1>7
<1>10. w \in Int /\ x \in Int /\ y \in Int /\ z \in Int
  BY <1>1, <1>4, <1>5, <1>6, <1>7
<1> HIDE DEF bid, ask
<1> QED BY <1>1, <1>2, <1>3, <1>8, <1>9, <1>10

\* The recursive sum over a window is the difference of two running totals.
LEMMA WindowIs ==
  ASSUME seq \in Nat, history \in Seq(BookTops), Len(history) = seq,
         NEW c, Cumulates(c), NEW a \in 0 .. seq, NEW b \in a .. seq
  PROVE  Window(a, b) = c[b] - c[a]
<1> DEFINE N == a .. b
           step(g, n) == IF n = a THEN 0 ELSE g[n - 1] + BidFlow(n) + AskFlow(n)
           adds(g) == g = [n \in N |-> step(g, n)]
           sum == CHOOSE g : adds(g)
           h == [n \in N |-> c[n] - c[a]]
<1>1. Window(a, b) = sum[b]
  BY DEF Window
<1>2. /\ \A n \in 0 .. seq : c[n] \in Int
      /\ \A n \in 1 .. seq : c[n] = c[n - 1] + Flow(history, n)
  BY DEF Cumulates
<1>3. /\ a \in Nat /\ b \in N /\ a \in N /\ a \in 0 .. seq
      /\ \A n \in N : /\ n \in 0 .. seq
                      /\ n # a => n \in 1 .. seq /\ n - 1 \in N /\ n - 1 \in 0 .. seq
  OBVIOUS
<1>4. ASSUME NEW n \in N, n # a
      PROVE  c[n] - c[a] = (c[n - 1] - c[a]) + BidFlow(n) + AskFlow(n)
  <2>1. c[n] = c[n - 1] + Flow(history, n)
    BY <1>2, <1>3, <1>4
  <2>2. c[n] \in Int /\ c[n - 1] \in Int /\ c[a] \in Int
    BY <1>2, <1>3, <1>4
  <2> QED BY <1>3, <1>4, <2>1, <2>2, FlowIs
<1>5. adds(h)
  <2>1. ASSUME NEW n \in N PROVE c[n] - c[a] = step(h, n)
    <3>1. CASE n = a
      <4>1. c[a] \in Int
        BY <1>2, <1>3
      <4> QED BY <3>1, <4>1
    <3>2. CASE n # a
      <4>1. h[n - 1] = c[n - 1] - c[a]
        BY <1>3, <3>2
      <4> QED BY <1>4, <3>2, <4>1
    <3> QED BY <3>1, <3>2
  <2>2. h = [n \in N |-> step(h, n)]
    BY <2>1
  <2> QED BY <2>2
<1>6. adds(sum)
  <2> HIDE DEF adds, h
  <2> QED BY <1>5
<1>7. \A n \in N : sum[n] = step(sum, n)
  <2> HIDE DEF sum
  <2> QED BY <1>6
<1> HIDE DEF sum, adds, h
<1>8. \A n \in N : sum[n] = c[n] - c[a]
  <2> DEFINE Bad == {n \in N : sum[n] # c[n] - c[a]}
  <2> SUFFICES ASSUME Bad # {} PROVE FALSE
    OBVIOUS
  <2>1. Bad \in SUBSET Nat
    BY <1>3
  <2>2. PICK n \in Bad : \A m \in Bad : n <= m
    BY <2>1, NatLeast
  <2>3. n \in N /\ sum[n] # c[n] - c[a]
    OBVIOUS
  <2>4. n # a
    <3>1. c[a] \in Int /\ sum[a] = 0
      BY <1>2, <1>3, <1>7
    <3> QED BY <2>3, <3>1
  <2>5. n - 1 \in N /\ n - 1 \notin Bad
    <3>1. n - 1 \in N /\ ~ (n <= n - 1)
      BY <1>3, <2>3, <2>4
    <3> QED BY <2>2, <3>1
  <2>6. sum[n - 1] = c[n - 1] - c[a]
    BY <2>5
  <2>7. sum[n] = sum[n - 1] + BidFlow(n) + AskFlow(n)
    BY <1>7, <2>3, <2>4
  <2> QED BY <1>4, <2>3, <2>4, <2>6, <2>7
<1> QED BY <1>1, <1>3, <1>8

\* A change of the top extends the running total; the numbers before it, and what
\* they carry, keep theirs.
LEMMA ChangeAdds ==
  ASSUME FeedInv(BookTops), SignalTypes, NEW t \in BookTops, Accumulate(t), last' = t, seq' = seq + 1,
         NEW c, Cumulates(c), ofi = c[seq]
  PROVE  /\ history' \in Seq(BookTops) /\ Len(history') = seq' /\ last' = TopOf(history', seq')
         /\ \E d : /\ Cumulates(d)' /\ ofi' = d[seq']
                   /\ \A n \in 0 .. seq : d[n] = c[n]
<1>1. seq \in Nat /\ history \in Seq(BookTops) /\ Len(history) = seq /\ last = TopOf(history, seq)
      /\ history' = Append(history, t) /\ seq' = seq + 1 /\ last' = t
  BY FeedAssumption DEF FeedInv, FeedTypes, SignalTypes, Accumulate
<1>2. /\ history' \in Seq(BookTops) /\ Len(history') = seq + 1 /\ history'[seq + 1] = t
      /\ \A n \in 1 .. seq : history'[n] = history[n]
  BY <1>1
<1>3. /\ \A n \in 0 .. seq : TopOf(history', n) = TopOf(history, n)
      /\ TopOf(history', seq + 1) = t
  BY <1>1, <1>2 DEF TopOf
<1>4. \A n \in 1 .. seq : Flow(history', n) = Flow(history, n)
  <2> SUFFICES ASSUME NEW n \in 1 .. seq PROVE Flow(history', n) = Flow(history, n)
    OBVIOUS
  <2>1. n \in 0 .. seq /\ n - 1 \in 0 .. seq
    BY <1>1
  <2> QED BY <1>3, <2>1 DEF Flow
<1>5. Flow(history', seq + 1) = Increment(t) /\ Increment(t) \in Int
  <2>1. (seq + 1) - 1 = seq /\ seq \in 0 .. seq /\ last \in BookTops
    BY <1>1 DEF FeedInv, FeedTypes
  <2>2. Flow(history', seq + 1) = Turn(last, t)
    BY <1>1, <1>3, <2>1 DEF Flow
  <2> QED BY <2>1, <2>2, IncrementIsFlow, TurnType
<1>6. PICK d : d = [n \in 0 .. seq + 1 |-> IF n = seq + 1 THEN c[seq] + Increment(t) ELSE c[n]]
  OBVIOUS
<1>7. /\ \A n \in 0 .. seq : c[n] \in Int
      /\ c[0] = 0 /\ \A n \in 1 .. seq : c[n] = c[n - 1] + Flow(history, n)
  BY DEF Cumulates
<1>8. /\ \A n \in 0 .. seq : d[n] = c[n]
      /\ d[seq + 1] = c[seq] + Increment(t)
      /\ d \in [0 .. seq + 1 -> Int]
  <2>1. \A n \in 0 .. seq : n \in 0 .. seq + 1 /\ n # seq + 1
    BY <1>1
  <2>2. seq + 1 \in 0 .. seq + 1 /\ seq \in 0 .. seq
    BY <1>1
  <2>3. \A n \in 0 .. seq + 1 : n # seq + 1 => n \in 0 .. seq
    BY <1>1
  <2>4. c[seq] + Increment(t) \in Int
    BY <1>5, <1>7, <2>2
  <2> HIDE DEF Increment
  <2> QED BY <1>6, <1>7, <2>1, <2>2, <2>3, <2>4
<1>9. Cumulates(d)'
  <2>1. d[0] = 0
    BY <1>1, <1>7, <1>8
  <2>2. ASSUME NEW n \in 1 .. seq + 1 PROVE d[n] = d[n - 1] + Flow(history', n)
    <3>1. CASE n = seq + 1
      <4>1. n - 1 = seq /\ seq \in 0 .. seq
        BY <1>1, <3>1
      <4> QED BY <1>5, <1>8, <3>1, <4>1
    <3>2. CASE n # seq + 1
      <4>1. n \in 1 .. seq /\ n \in 0 .. seq /\ n - 1 \in 0 .. seq
        BY <1>1, <3>2
      <4> QED BY <1>4, <1>7, <1>8, <4>1
    <3> QED BY <3>1, <3>2
  <2> QED BY <1>1, <1>8, <2>1, <2>2 DEF Cumulates
<1>10. ofi' = d[seq + 1]
  BY <1>8 DEF Accumulate
<1> QED BY <1>1, <1>2, <1>3, <1>8, <1>9, <1>10

LEMMA SignalInit == SigInit => SignalInv
<1> SUFFICES ASSUME SigInit PROVE SignalInv
  OBVIOUS
<1>1. FeedInv(BookTops)
  BY EmptyIsTop, FeedInit DEF SigInit
<1>2. seq = 0 /\ ring = <<>> /\ last = EmptyTop /\ last_seq = 0 /\ history = <<>> /\ signals = <<>>
      /\ ofi = 0 /\ viewed.ofi = 0
  BY DEF SigInit, Init
<1>3. SignalTypes /\ MicroOfTop
  BY <1>2 DEF SignalTypes, MicroOfTop, TopOf
<1>4. Cumulates([n \in 0 .. 0 |-> 0]) /\ Carried([n \in 0 .. 0 |-> 0])
  BY <1>2 DEF Cumulates, Carried
<1> QED BY <1>1, <1>3, <1>4 DEF SignalInv

\* What the queued updates carry points at numbers already used.
LEMMA QueuedNumbers ==
  ASSUME FeedInv(BookTops)
  PROVE  /\ seq \in Nat /\ last_seq \in 0 .. seq /\ Len(ring) \in Nat
         /\ \A n \in 1 .. Len(ring) : ring[n].seq \in last_seq .. seq /\ ring[n].seq \in 0 .. seq
<1>1. FeedTypes(BookTops) /\ InOrder
  BY DEF FeedInv
<1>2. Len(ring) \in Nat /\ seq \in Nat /\ last_seq \in Nat
      /\ \A n \in 1 .. Len(ring) : ring[n].seq \in Nat
  BY <1>1, RingEntries
<1> QED BY <1>1, <1>2 DEF FeedTypes, InOrder

LEMMA MicroType ==
  ASSUME NEW t \in BookTops
  PROVE  Micro(t) \in Int
<1> DEFINE x == (t.bp * t.aq + t.ap * t.bq) * TickParts
           d == t.bq + t.aq + Indicator(t.bq + t.aq = 0)
<1>1. t.bp \in Int /\ t.ap \in Int /\ t.bq \in Nat /\ t.aq \in Nat /\ TickParts \in Nat
  BY TopTypes, SignalAssumption
<1>2. x \in Int /\ d \in Nat /\ d > 0
  <2>1. Indicator(t.bq + t.aq = 0) = IF t.bq + t.aq = 0 THEN 1 ELSE 0
    BY DEF Indicator
  <2>2. d \in Nat /\ d > 0
    BY <1>1, <2>1
  <2>3. x \in Int
    BY <1>1
  <2> QED BY <2>2, <2>3
<1> HIDE DEF x, d
<1>3. x \div d \in Int
  BY <1>2
<1> QED BY <1>3 DEF x, d, Micro

LEMMA SignalPublish ==
  ASSUME SignalInv, NEW t \in BookTops, SigPublish(t)
  PROVE  SignalInv'
<1> DEFINE k == Len(ring)
           u == [top |-> t, seq |-> seq + 1]
           s == [ofi |-> ofi', micro |-> Micro(t)]
<1>1. /\ FeedInv(BookTops) /\ SignalTypes /\ MicroOfTop
      /\ Publish(t) /\ Accumulate(t) /\ signals' = Append(signals, s) /\ viewed' = viewed
      /\ last' = t /\ seq' = seq + 1 /\ ring' = Append(ring, u) /\ last_seq' = last_seq
  BY DEF SignalInv, SigPublish, Publish, Snapshot, NextSeq, subscriberVars
<1>2. FeedInv(BookTops)'
  BY <1>1, FeedPublish
<1>3. /\ seq \in Nat /\ last_seq \in 0 .. seq /\ k \in Nat
      /\ \A n \in 1 .. k : ring[n].seq \in 0 .. seq
  BY <1>1, QueuedNumbers
<1>4. PICK c : Cumulates(c) /\ Carried(c)
  BY DEF SignalInv
<1>5. PICK d : /\ Cumulates(d)' /\ ofi' = d[seq + 1]
               /\ \A n \in 0 .. seq : d[n] = c[n]
               /\ history' \in Seq(BookTops) /\ Len(history') = seq' /\ last' = TopOf(history', seq')
  <2>1. ofi = c[seq]
    BY <1>4 DEF Carried
  <2> QED BY <1>1, <1>4, <2>1, ChangeAdds
<1>6. /\ signals \in Seq([ofi : Int, micro : Int]) /\ Len(signals) = k
      /\ ring \in Seq([top : BookTops, seq : 1 .. MaxSeq])
  BY <1>1 DEF SignalTypes, FeedInv, FeedTypes
<1>7. s \in [ofi : Int, micro : Int]
  <2>1. d[seq + 1] \in Int
    BY <1>1, <1>3, <1>5 DEF Cumulates
  <2> QED BY <1>5, <2>1, MicroType
<1>8. /\ signals' \in Seq([ofi : Int, micro : Int]) /\ Len(signals') = k + 1
      /\ signals'[k + 1] = s /\ \A n \in 1 .. k : signals'[n] = signals[n]
  <2> HIDE DEF s
  <2> QED BY <1>1, <1>3, <1>6, <1>7
<1>9. Len(ring') = k + 1 /\ ring'[k + 1] = u /\ \A n \in 1 .. k : ring'[n] = ring[n]
  <2> HIDE DEF u
  <2> QED BY <1>1, <1>3, <1>6
<1>10. s.ofi = ofi' /\ s.micro = Micro(t) /\ u.seq = seq + 1 /\ u.top = t
  OBVIOUS
<1> HIDE DEF s, u
<1>11. SignalTypes'
  BY <1>5, <1>8, <1>9 DEF SignalTypes
<1>12. MicroOfTop'
  <2> SUFFICES ASSUME NEW n \in 1 .. k + 1 PROVE signals'[n].micro = Micro(ring'[n].top)
    BY <1>9 DEF MicroOfTop, Micro
  <2>1. CASE n = k + 1
    BY <1>8, <1>9, <1>10, <2>1
  <2>2. CASE n # k + 1
    <3>1. n \in 1 .. k
      BY <1>3, <2>2
    <3> QED BY <1>1, <1>8, <1>9, <3>1 DEF MicroOfTop
  <2> QED BY <2>1, <2>2
<1>13. Carried(d)'
  <2>1. viewed.ofi = d[last_seq]
    BY <1>3, <1>4, <1>5 DEF Carried
  <2>2. ASSUME NEW n \in 1 .. k + 1 PROVE signals'[n].ofi = d[ring'[n].seq]
    <3>1. CASE n = k + 1
      BY <1>5, <1>8, <1>9, <1>10, <3>1
    <3>2. CASE n # k + 1
      <4>1. n \in 1 .. k
        BY <1>3, <3>2
      <4>2. signals[n].ofi = c[ring[n].seq] /\ ring[n].seq \in 0 .. seq
        BY <1>3, <1>4, <4>1 DEF Carried
      <4> QED BY <1>5, <1>8, <1>9, <4>1, <4>2
    <3> QED BY <3>1, <3>2
  <2> QED BY <1>1, <1>5, <1>9, <2>1, <2>2 DEF Carried
<1> QED BY <1>2, <1>5, <1>11, <1>12, <1>13 DEF SignalInv

LEMMA SignalDrop ==
  ASSUME SignalInv, NEW t \in BookTops, SigDrop(t)
  PROVE  SignalInv'
<1>1. /\ FeedInv(BookTops) /\ SignalTypes /\ MicroOfTop
      /\ Drop(t) /\ Accumulate(t) /\ signals' = signals /\ viewed' = viewed
      /\ last' = t /\ seq' = seq + 1 /\ ring' = ring /\ last_seq' = last_seq
  BY DEF SignalInv, SigDrop, Drop, NextSeq, subscriberVars
<1>2. FeedInv(BookTops)'
  BY <1>1, FeedDrop
<1>3. /\ seq \in Nat /\ last_seq \in 0 .. seq
      /\ \A n \in 1 .. Len(ring) : ring[n].seq \in 0 .. seq
  BY <1>1, QueuedNumbers
<1>4. PICK c : Cumulates(c) /\ Carried(c)
  BY DEF SignalInv
<1>5. PICK d : /\ Cumulates(d)' /\ ofi' = d[seq + 1]
               /\ \A n \in 0 .. seq : d[n] = c[n]
               /\ history' \in Seq(BookTops) /\ Len(history') = seq' /\ last' = TopOf(history', seq')
  <2>1. ofi = c[seq]
    BY <1>4 DEF Carried
  <2> QED BY <1>1, <1>4, <2>1, ChangeAdds
<1>6. SignalTypes' /\ MicroOfTop'
  BY <1>1, <1>5 DEF SignalTypes, MicroOfTop, Micro
<1>7. Carried(d)'
  BY <1>1, <1>3, <1>4, <1>5 DEF Carried
<1> QED BY <1>2, <1>5, <1>6, <1>7 DEF SignalInv

LEMMA SignalReceive ==
  ASSUME SignalInv, SigReceive
  PROVE  SignalInv'
<1>1. /\ FeedInv(BookTops) /\ SignalTypes /\ MicroOfTop /\ Receive /\ ring # <<>>
      /\ ring' = Tail(ring) /\ last_seq' = Head(ring).seq /\ seq' = seq /\ last' = last
      /\ viewed' = Head(signals) /\ signals' = Tail(signals) /\ ofi' = ofi /\ history' = history
  BY DEF SignalInv, SigReceive, Receive, publisherVars
<1>2. FeedInv(BookTops)'
  BY <1>1, FeedReceived
<1>3. PICK c : Cumulates(c) /\ Carried(c)
  BY DEF SignalInv
<1>4. /\ signals \in Seq([ofi : Int, micro : Int]) /\ Len(signals) = Len(ring)
      /\ ring \in Seq([top : BookTops, seq : 1 .. MaxSeq]) /\ Len(ring) \in Nat /\ Len(ring) > 0
  <2>1. ring \in Seq([top : BookTops, seq : 1 .. MaxSeq])
    BY <1>1 DEF FeedInv, FeedTypes
  <2> QED BY <1>1, <2>1 DEF SignalTypes
<1>5. /\ signals' \in Seq([ofi : Int, micro : Int]) /\ Len(signals') = Len(ring) - 1
      /\ Len(ring') = Len(ring) - 1 /\ Head(ring) = ring[1] /\ Head(signals) = signals[1]
      /\ \A n \in 1 .. Len(ring) - 1 : ring'[n] = ring[n + 1] /\ signals'[n] = signals[n + 1]
  BY <1>1, <1>4
<1>6. \A n \in 1 .. Len(ring) - 1 : n + 1 \in 1 .. Len(ring)
  BY <1>4
<1>7. SignalTypes'
  BY <1>1, <1>4, <1>5 DEF SignalTypes
<1>8. MicroOfTop'
  <2> SUFFICES ASSUME NEW n \in 1 .. Len(ring) - 1 PROVE signals'[n].micro = Micro(ring'[n].top)
    BY <1>5 DEF MicroOfTop, Micro
  <2> QED BY <1>1, <1>5, <1>6 DEF MicroOfTop
<1>9. Cumulates(c)'
  BY <1>1, <1>3 DEF Cumulates
<1>10. Carried(c)'
  <2>1. viewed'.ofi = c[last_seq']
    BY <1>1, <1>3, <1>4, <1>5 DEF Carried
  <2>2. \A n \in 1 .. Len(ring') : signals'[n].ofi = c[ring'[n].seq]
    <3>1. \A n \in 1 .. Len(ring) : signals[n].ofi = c[ring[n].seq]
      BY <1>3 DEF Carried
    <3> SUFFICES ASSUME NEW n \in 1 .. Len(ring) - 1 PROVE signals'[n].ofi = c[ring'[n].seq]
      BY <1>5
    <3>2. n + 1 \in 1 .. Len(ring) /\ ring'[n] = ring[n + 1] /\ signals'[n] = signals[n + 1]
      BY <1>5, <1>6
    <3> QED BY <3>1, <3>2
  <2> QED BY <1>1, <1>3, <2>1, <2>2 DEF Carried
<1> QED BY <1>2, <1>7, <1>8, <1>9, <1>10 DEF SignalInv

LEMMA SignalStutter ==
  ASSUME SignalInv, UNCHANGED signalVars
  PROVE  SignalInv'
<1>1. FeedInv(BookTops)'
  BY FeedUnchanged DEF SignalInv, signalVars
<1> QED BY <1>1 DEF SignalInv, signalVars, vars, publisherVars, subscriberVars, SignalTypes, MicroOfTop, Micro,
                    Cumulates, Carried

LEMMA SignalsCorrect == SigSpec => []SignalInv
<1>1. SignalInv /\ [SigNext]_signalVars => SignalInv'
  <2> SUFFICES ASSUME SignalInv, [SigNext]_signalVars PROVE SignalInv'
    OBVIOUS
  <2>1. ASSUME NEW t \in BookTops, SigUnchanged(t) PROVE SignalInv'
    BY <2>1, SignalStutter DEF SigUnchanged, Unchanged, signalVars
  <2> QED BY <2>1, SignalPublish, SignalDrop, SignalReceive, SignalStutter DEF SigNext
<1> QED BY <1>1, SignalInit, PTL DEF SigSpec

\* The imbalance of a queued update less the one the subscriber saw last is the
\* flow of every change in between, dropped updates included, for every ring
\* capacity and every sequence of tops a book can report.
THEOREM WindowsAdd == SigSpec => []WindowIsDifference
<1>1. SignalInv => WindowIsDifference
  <2> SUFFICES ASSUME SignalInv, NEW n \in 1 .. Len(ring)
               PROVE  signals[n].ofi - viewed.ofi = Window(last_seq, ring[n].seq)
    BY DEF WindowIsDifference
  <2>1. PICK c : Cumulates(c) /\ Carried(c)
    BY DEF SignalInv
  <2>2. seq \in Nat /\ last_seq \in 0 .. seq /\ ring[n].seq \in last_seq .. seq
    BY QueuedNumbers DEF SignalInv
  <2>3. history \in Seq(BookTops) /\ Len(history) = seq
    BY DEF SignalInv, SignalTypes
  <2>4. Window(last_seq, ring[n].seq) = c[ring[n].seq] - c[last_seq]
    BY <2>1, <2>2, <2>3, WindowIs
  <2> QED BY <2>1, <2>4 DEF Carried
<1> QED BY <1>1, SignalsCorrect, PTL

-----------------------------------------------------------------------------
(* The micro-price *)

\* A quotient lies between two bounds when the dividend does between their multiples.
LEMMA Quotient ==
  ASSUME NEW x \in Int, NEW d \in Nat, d > 0, NEW l \in Int, NEW h \in Int
  PROVE  /\ x \div d \in Int
         /\ l * d <= x => l <= x \div d
         /\ x <= h * d => x \div d <= h
<1> DEFINE q == x \div d
           r == x % d
<1>1. q \in Int /\ r \in 0 .. d - 1 /\ x = d * q + r
  OBVIOUS
<1> HIDE DEF q, r
<1>2. ASSUME l * d <= x, ~ (l <= q) PROVE FALSE
  <2>1. PICK k \in Nat : l = q + 1 + k
    <3>1. l - q - 1 \in Nat /\ l = q + 1 + (l - q - 1)
      BY <1>1, <1>2
    <3> QED BY <3>1
  <2>2. l * d = d * q + d + k * d /\ k * d \in Nat /\ d * q \in Int
    BY <1>1, <2>1
  <2> DEFINE a == d * q
             b == k * d
             e == l * d
  <2>3. a \in Int /\ b \in Nat /\ e = a + d + b /\ x = a + r /\ e <= x
    BY <1>1, <1>2, <2>2
  <2> HIDE DEF a, b, e
  <2> QED BY <1>1, <2>3
<1>3. ASSUME x <= h * d, ~ (q <= h) PROVE FALSE
  <2>1. PICK k \in Nat : q = h + 1 + k
    <3>1. q - h - 1 \in Nat /\ q = h + 1 + (q - h - 1)
      BY <1>1, <1>3
    <3> QED BY <3>1
  <2>2. d * q = h * d + d + k * d /\ k * d \in Nat /\ h * d \in Int
    BY <1>1, <2>1
  <2> DEFINE a == d * q
             b == k * d
             e == h * d
  <2>3. e \in Int /\ b \in Nat /\ a = e + d + b /\ x = a + r /\ x <= e
    BY <1>1, <1>3, <2>2
  <2> HIDE DEF a, b, e
  <2> QED BY <1>1, <2>3
<1> QED BY <1>1, <1>2, <1>3 DEF q

\* The factored form of what the bounds compare: sums of products in four sizes.
LEMMA Leans ==
  ASSUME NEW b \in Int, NEW a \in Int, NEW p \in Nat, NEW q \in Nat, NEW k \in Nat, b <= a
  PROVE  LET x == (b * q + a * p) * k
             d == p + q
         IN  /\ (b * k) * d <= x /\ x <= (a * k) * d
             /\ q <= p => ((b + a) * k) * d <= 2 * x
             /\ p <= q => 2 * x <= ((b + a) * k) * d
<1>1. PICK g \in Nat : a = b + g
  <2>1. a - b \in Nat /\ a = b + (a - b)
    OBVIOUS
  <2> QED BY <2>1
<1> DEFINE x == (b * q + a * p) * k
           d == p + q
           m == (b * k) * d
           gp == (g * p) * k
           gq == (g * q) * k
<1>2. gp \in Nat /\ gq \in Nat /\ m \in Int /\ x \in Int
  BY <1>1
<1>3. x = m + gp
  BY <1>1
<1>4. (a * k) * d = m + gp + gq
  BY <1>1
<1>5. ((b + a) * k) * d = m + m + gp + gq
  BY <1>1
<1>6. q <= p => gq <= gp
  <2> SUFFICES ASSUME q <= p PROVE gq <= gp
    OBVIOUS
  <2>1. PICK e \in Nat : p = q + e
    <3>1. p - q \in Nat /\ p = q + (p - q)
      OBVIOUS
    <3> QED BY <3>1
  <2>2. gp = gq + (g * e) * k /\ (g * e) * k \in Nat
    BY <1>1, <2>1
  <2> DEFINE ge == (g * e) * k
  <2> HIDE DEF gp, gq, ge
  <2>3. gp = gq + ge /\ ge \in Nat
    BY <2>2 DEF ge
  <2> QED BY <1>2, <2>3
<1>7. p <= q => gp <= gq
  <2> SUFFICES ASSUME p <= q PROVE gp <= gq
    OBVIOUS
  <2>1. PICK e \in Nat : q = p + e
    <3>1. q - p \in Nat /\ q = p + (q - p)
      OBVIOUS
    <3> QED BY <3>1
  <2>2. gq = gp + (g * e) * k /\ (g * e) * k \in Nat
    BY <1>1, <2>1
  <2> DEFINE ge == (g * e) * k
  <2> HIDE DEF gp, gq, ge
  <2>3. gq = gp + ge /\ ge \in Nat
    BY <2>2 DEF ge
  <2> QED BY <1>2, <2>3
<1> DEFINE u == (a * k) * d
           v == ((b + a) * k) * d
<1>8. u = m + gp + gq /\ v = m + m + gp + gq
  BY <1>4, <1>5
<1> HIDE DEF x, m, gp, gq, u, v
<1>9. m <= x /\ x <= u /\ (q <= p => v <= 2 * x) /\ (p <= q => 2 * x <= v)
  BY <1>2, <1>3, <1>6, <1>7, <1>8
<1> QED BY <1>9 DEF x, m, u, v

\* The micro-price of every top a book can report.
LEMMA MicroBounds ==
  ASSUME NEW t \in BookTops
  PROVE  IF t.bp # -1 /\ t.ap # -1
         THEN /\ t.bp * TickParts <= Micro(t) /\ Micro(t) <= t.ap * TickParts
              /\ t.aq < t.bq => 2 * Micro(t) >= (t.bp + t.ap) * TickParts - 1
              /\ t.aq > t.bq => 2 * Micro(t) <= (t.bp + t.ap) * TickParts
         ELSE Micro(t) = IF t = EmptyTop THEN 0 ELSE -TickParts
<1> DEFINE b == t.bp
           a == t.ap
           p == t.bq
           q == t.aq
           k == TickParts
           d == p + q
           x == (b * q + a * p) * k
           M == Micro(t)
<1>1. /\ b \in Int /\ a \in Int /\ p \in Nat /\ q \in Nat /\ k \in Nat
      /\ b >= -1 /\ a >= -1 /\ (p = 0 <=> b = -1) /\ (q = 0 <=> a = -1)
      /\ (p # 0 /\ q # 0 => b < a) /\ (p = 0 /\ q = 0 => t = EmptyTop)
      /\ (t = EmptyTop => b = -1 /\ a = -1)
  BY TopTypes, SignalAssumption, EmptyIsTop
<1>2. M = x \div (p + q + Indicator(p + q = 0))
  BY DEF Micro
<1>3. Indicator(p + q = 0) = IF p + q = 0 THEN 1 ELSE 0
  BY DEF Indicator
<1> HIDE DEF M, b, a, p, q, k
<1>4. x \in Int
  BY <1>1
<1>5. CASE b # -1 /\ a # -1
  <2>1. d \in Nat /\ d > 0 /\ b < a
    BY <1>1, <1>5
  <2>2. M = x \div d
    BY <1>1, <1>2, <1>3, <2>1
  <2>3. /\ (b * k) * d <= x /\ x <= (a * k) * d
        /\ q <= p => ((b + a) * k) * d <= 2 * x
        /\ p <= q => 2 * x <= ((b + a) * k) * d
    BY <1>1, <2>1, Leans
  <2> HIDE DEF x, d
  <2>4. b * k \in Int /\ a * k \in Int /\ (b + a) * k \in Int
    BY <1>1
  <2> DEFINE l == b * k
             h == a * k
             v == (b + a) * k
  <2>5. M \in Int /\ l <= M /\ M <= h
    <3>1. l \in Int /\ h \in Int /\ l * d <= x /\ x <= h * d
      BY <2>3, <2>4
    <3> HIDE DEF l, h
    <3> QED BY <1>4, <2>1, <2>2, <3>1, Quotient
  <2>6. (q <= p => v * d <= 2 * x) /\ (p <= q => 2 * x <= v * d) /\ v \in Int
    BY <2>3, <2>4
  <2> HIDE DEF v
  <2>7. PICK r \in 0 .. d - 1 : x = d * M + r
    <3> DEFINE s == x % d
               y == x \div d
    <3>1. s \in 0 .. d - 1 /\ x = d * y + s
      BY <1>4, <2>1
    <3> HIDE DEF s, y
    <3>2. y = M
      BY <2>2 DEF y
    <3> QED BY <3>1, <3>2
  <2>8. q < p => 2 * M >= v - 1
    <3> SUFFICES ASSUME q < p, ~ (2 * M >= v - 1) PROVE FALSE
      OBVIOUS
    <3>1. PICK e \in Nat : v = 2 * M + 2 + e
      <4>1. v - 2 * M - 2 \in Nat /\ v = 2 * M + 2 + (v - 2 * M - 2)
        BY <2>5, <2>6
      <4> QED BY <4>1
    <3> DEFINE dM == d * M
               ed == e * d
               vd == v * d
    <3>2. vd = 2 * dM + 2 * d + ed /\ ed \in Nat /\ dM \in Int
      BY <2>1, <2>5, <3>1
    <3>3. x = dM + r /\ vd <= 2 * x
      BY <1>1, <2>6, <2>7
    <3> HIDE DEF dM, ed, vd
    <3> QED BY <2>1, <3>2, <3>3
  <2>9. q > p => 2 * M <= v
    <3> SUFFICES ASSUME q > p, ~ (2 * M <= v) PROVE FALSE
      OBVIOUS
    <3>1. PICK e \in Nat : 2 * M = v + 1 + e
      <4>1. 2 * M - v - 1 \in Nat /\ 2 * M = v + 1 + (2 * M - v - 1)
        BY <2>5, <2>6
      <4> QED BY <4>1
    <3> DEFINE dM == d * M
               ed == e * d
               vd == v * d
    <3>2. 2 * dM = vd + d + ed /\ ed \in Nat /\ dM \in Int /\ vd \in Int
      <4>1. 2 * dM = d * (2 * M)
        BY <2>1, <2>5
      <4>2. d * (v + 1 + e) = v * d + d + e * d
        BY <2>1, <2>6
      <4> QED BY <2>1, <2>5, <2>6, <3>1, <4>1, <4>2
    <3>3. x = dM + r /\ 2 * x <= vd
      BY <1>1, <2>6, <2>7
    <3> HIDE DEF dM, ed, vd
    <3> QED BY <2>1, <3>2, <3>3
  <2> QED BY <1>5, <2>5, <2>8, <2>9 DEF M, b, a, p, q, k, v
<1>6. CASE b = -1 /\ a = -1
  <2>1. M = x \div 1 /\ x = 0 /\ t = EmptyTop
    BY <1>1, <1>2, <1>3, <1>6
  <2>2. M = 0
    BY <2>1
  <2> QED BY <1>6, <2>1, <2>2 DEF M, b, a
<1>7. CASE (b = -1) # (a = -1)
  <2>1. d \in Nat /\ d > 0 /\ t # EmptyTop
    BY <1>1, <1>7
  <2>2. M = x \div d
    BY <1>1, <1>2, <1>3, <2>1
  <2>3. x = (-k) * d
    <3>1. CASE b = -1
      <4>1. p = 0 /\ a * 0 = 0
        BY <1>1, <3>1
      <4>2. x = ((-1) * q) * k
        BY <1>1, <3>1, <4>1
      <4> QED BY <1>1, <4>1, <4>2
    <3>2. CASE a = -1
      <4>1. q = 0
        BY <1>1, <3>2
      <4>2. x = ((-1) * p) * k
        BY <1>1, <3>2, <4>1
      <4> QED BY <1>1, <4>1, <4>2
    <3> QED BY <1>7, <3>1, <3>2
  <2>4. -k \in Int
    BY <1>1
  <2> DEFINE l == -k
  <2> HIDE DEF x, d, l
  <2>5. M \in Int /\ l <= M /\ M <= l
    <3>1. l \in Int /\ l * d <= x /\ x <= l * d
      <4>1. l \in Int /\ x = l * d
        BY <2>3, <2>4 DEF l
      <4> QED BY <1>4, <4>1
    <3> QED BY <1>4, <2>1, <2>2, <3>1, Quotient
  <2>6. M = -k
    BY <1>1, <2>4, <2>5 DEF l
  <2> QED BY <1>7, <2>1, <2>6 DEF M, b, a, k
<1> QED BY <1>5, <1>6, <1>7

\* The micro-price of every queued update lies in its own top's spread and leans
\* to the thinner side; a one-sided top says minus one tick, an empty one zero.
THEOREM MicroLeans == SigSpec => []MicroInSpread
<1>1. SignalInv => MicroInSpread
  <2> SUFFICES ASSUME SignalInv, NEW n \in 1 .. Len(ring)
               PROVE  LET t == ring[n].top
                          m == signals[n].micro
                      IN  IF t.bp # -1 /\ t.ap # -1
                          THEN /\ t.bp * TickParts <= m /\ m <= t.ap * TickParts
                               /\ t.aq < t.bq => 2 * m >= (t.bp + t.ap) * TickParts - 1
                               /\ t.aq > t.bq => 2 * m <= (t.bp + t.ap) * TickParts
                          ELSE m = IF t = EmptyTop THEN 0 ELSE -TickParts
    BY DEF MicroInSpread
  <2> DEFINE t == ring[n].top
  <2>1. t \in BookTops
    BY RingEntries DEF SignalInv, FeedInv
  <2>2. signals[n].micro = Micro(t)
    BY DEF SignalInv, MicroOfTop
  <2> HIDE DEF t
  <2>3. IF t.bp # -1 /\ t.ap # -1
        THEN /\ t.bp * TickParts <= Micro(t) /\ Micro(t) <= t.ap * TickParts
             /\ t.aq < t.bq => 2 * Micro(t) >= (t.bp + t.ap) * TickParts - 1
             /\ t.aq > t.bq => 2 * Micro(t) <= (t.bp + t.ap) * TickParts
        ELSE Micro(t) = IF t = EmptyTop THEN 0 ELSE -TickParts
    BY <2>1, MicroBounds
  <2> QED BY <2>2, <2>3 DEF t
<1> QED BY <1>1, SignalsCorrect, PTL

-----------------------------------------------------------------------------
(* The risk gateway: exposure and rate for every limit, window and depth.  The *)
(* gateway's counters are the venue's truth plus what has not been reported yet *)
(* (Conserved), and their worst case is within the limit (WorstCase); the ring   *)
(* holds the times of the last accepts (Ring), and accepts a ring's depth apart  *)
(* are a window apart (Spaced).                                                  *)

W == RateWindowMsgs

Conserved ==
  /\ \A s \in OrderSides : open_lots[s] = resting[s] + fillsDue[s] + cancelsDue[s]
  /\ position = net_pos + fillsDue["Buy"] - fillsDue["Sell"]

WorstCase == \A s \in OrderSides : open_lots[s] + Signed(s, net_pos) <= PosLimit

ExposureInv == GatewayTypes /\ Conserved /\ WorstCase

Spaced ==
  /\ Len(accepts) = n_sent /\ WindowTicks <= clock
  /\ \A n \in 1 .. n_sent : accepts[n] <= clock
  /\ \A m, n \in 1 .. n_sent : m <= n => accepts[m] <= accepts[n]
  /\ \A n \in 1 .. n_sent : n + W <= n_sent => accepts[n + W] - accepts[n] >= WindowTicks

Ring ==
  /\ \A n \in 1 .. n_sent : n_sent < n + W => stamps[(n - 1) % W] = accepts[n]
  /\ \A n \in Nat : (n_sent <= n /\ n < W) => stamps[n % W] = 0

RateInv == GatewayTypes /\ Spaced /\ Ring /\ ("RATE" \in verdict => TooSoon)

-----------------------------------------------------------------------------
LEMMA GatewayStarts == GatewayInit => ExposureInv /\ RateInv
<1> SUFFICES ASSUME GatewayInit PROVE ExposureInv /\ RateInv
  OBVIOUS
<1>1. W \in Nat /\ W > 0 /\ WindowTicks \in Nat /\ PosLimit \in Nat
  BY RiskAssumption DEF W
<1>2. GatewayTypes
  BY <1>1, RiskAssumption DEF GatewayInit, GatewayTypes, Zero, NoVerdict
<1>3. Conserved /\ WorstCase
  BY <1>1 DEF GatewayInit, Conserved, WorstCase, Zero, OrderSides, Signed
<1>4. Spaced
  BY <1>1 DEF GatewayInit, Spaced
<1>5. Ring
  <2>1. \A n \in Nat : n % W \in 0 .. W - 1
    BY <1>1
  <2> QED BY <2>1 DEF GatewayInit, Ring, W
<1>6. "RATE" \notin verdict
  BY DEF GatewayInit, NoVerdict
<1> QED BY <1>2, <1>3, <1>4, <1>5, <1>6 DEF ExposureInv, RateInv

-----------------------------------------------------------------------------
(* Types and exposure *)

LEMMA ExposureAccept ==
  ASSUME ExposureInv, NEW side \in OrderSides, NEW px \in Prices, NEW q \in Quantities,
         Accept(side, px, q)
  PROVE  ExposureInv'
<1>0. GatewayTypes /\ Conserved /\ WorstCase
  BY DEF ExposureInv
<1>1. q \in Int /\ ~(q <= 0) /\ ~OverLimit(Prospective(side, q))
  BY RiskAssumption DEF Accept, Violated
<1>2. q \in Nat
  BY <1>1
<1>3. /\ open_lots' = [open_lots EXCEPT ![side] = @ + q] /\ resting' = [resting EXCEPT ![side] = @ + q]
      /\ UNCHANGED <<net_pos, clock, position, fillsDue, cancelsDue>>
      /\ n_sent' = n_sent + 1 /\ verdict' = {} /\ accepts' = Append(accepts, clock)
      /\ stamps' = [stamps EXCEPT ![n_sent % RateWindowMsgs] = clock]
  BY DEF Accept, Prospective, Stamped
<1>4. open_lots' \in [OrderSides -> Nat] /\ resting' \in [OrderSides -> Nat]
  BY <1>0, <1>2, <1>3 DEF GatewayTypes
<1>5. stamps' \in [0 .. RateWindowMsgs - 1 -> Nat] /\ n_sent' \in Nat /\ accepts' \in Seq(Nat)
  <2>1. n_sent \in Nat /\ clock \in Nat /\ accepts \in Seq(Nat)
        /\ stamps \in [0 .. RateWindowMsgs - 1 -> Nat]
    BY <1>0 DEF GatewayTypes
  <2>2. accepts' \in Seq(Nat)
    BY <1>3, <2>1
  <2>3. stamps' \in [0 .. RateWindowMsgs - 1 -> Nat]
    BY <1>3, <2>1
  <2> QED BY <1>3, <2>1, <2>2, <2>3
<1>6. GatewayTypes'
  <2>1. verdict' \in SUBSET {"none", "QTY", "PRICE_BAND", "POSITION", "RATE"}
    BY <1>3
  <2>2. /\ net_pos' \in Int /\ clock' \in Nat /\ position' \in Int
        /\ fillsDue' \in [OrderSides -> Nat] /\ cancelsDue' \in [OrderSides -> Nat]
    BY <1>0, <1>3 DEF GatewayTypes
  <2> QED BY <1>4, <1>5, <2>1, <2>2 DEF GatewayTypes
<1>7. Conserved'
  <2>1. \A s \in OrderSides : open_lots'[s] = resting'[s] + fillsDue[s] + cancelsDue[s]
    <3> SUFFICES ASSUME NEW s \in OrderSides
                 PROVE  open_lots'[s] = resting'[s] + fillsDue[s] + cancelsDue[s]
      OBVIOUS
    <3>1. /\ open_lots[s] \in Nat /\ resting[s] \in Nat /\ fillsDue[s] \in Nat /\ cancelsDue[s] \in Nat
          /\ open_lots[s] = resting[s] + fillsDue[s] + cancelsDue[s]
      BY <1>0 DEF GatewayTypes, Conserved
    <3>2. /\ open_lots'[s] = IF s = side THEN open_lots[s] + q ELSE open_lots[s]
          /\ resting'[s] = IF s = side THEN resting[s] + q ELSE resting[s]
      BY <1>0, <1>3 DEF GatewayTypes
    <3> QED BY <1>2, <3>1, <3>2
  <2> QED BY <1>0, <1>3, <2>1 DEF Conserved
<1>8. WorstCase'
  <2>1. \A s \in OrderSides : ~(open_lots'[s] + Signed(s, net_pos) > PosLimit)
    BY <1>1, <1>3 DEF OverLimit, Prospective
  <2>2. \A s \in OrderSides : open_lots'[s] \in Nat /\ Signed(s, net_pos) \in Int
    BY <1>0, <1>4 DEF GatewayTypes, Signed
  <2>3. PosLimit \in Nat /\ \A s \in OrderSides : Signed(s, net_pos)' = Signed(s, net_pos)
    BY <1>3, RiskAssumption DEF Signed
  <2> QED BY <2>1, <2>2, <2>3 DEF WorstCase
<1> QED BY <1>6, <1>7, <1>8 DEF ExposureInv

LEMMA ExposureReport ==
  ASSUME ExposureInv, NEW s \in OrderSides, NEW q \in Lots, Report(s, q)
  PROVE  ExposureInv'
<1>0. GatewayTypes /\ Conserved /\ WorstCase
  BY DEF ExposureInv
<1>1. q \in Nat /\ q >= 1 /\ PosLimit \in Nat
  BY RiskAssumption DEF Lots
<1>2. /\ resting \in [OrderSides -> Nat] /\ fillsDue \in [OrderSides -> Nat] /\ cancelsDue \in [OrderSides -> Nat]
      /\ open_lots \in [OrderSides -> Nat] /\ net_pos \in Int /\ position \in Int
      /\ Signed(s, q) \in Int
  BY <1>0, <1>1 DEF GatewayTypes, Signed
<1>3. NoVerdict \in SUBSET {"none", "QTY", "PRICE_BAND", "POSITION", "RATE"}
  BY DEF NoVerdict
<1>4. CASE Filled(s, q)
  <2>0. resting' \in [OrderSides -> Nat] /\ fillsDue' \in [OrderSides -> Nat] /\ position' \in Int
    BY <1>1, <1>2, <1>4 DEF Filled
  <2>1. GatewayTypes'
    BY <1>0, <1>3, <1>4, <2>0 DEF Filled, counters, rate, GatewayTypes
  <2>2. Conserved' /\ WorstCase'
    BY <1>0, <1>1, <1>2, <1>4 DEF Filled, counters, Conserved, WorstCase, OrderSides, Signed
  <2> QED BY <2>1, <2>2 DEF ExposureInv
<1>5. CASE Cancelled(s, q)
  <2>0. resting' \in [OrderSides -> Nat] /\ cancelsDue' \in [OrderSides -> Nat]
    BY <1>1, <1>2, <1>5 DEF Cancelled
  <2>1. GatewayTypes'
    BY <1>0, <1>3, <1>5, <2>0 DEF Cancelled, counters, rate, GatewayTypes
  <2>2. Conserved' /\ WorstCase'
    BY <1>0, <1>1, <1>2, <1>5 DEF Cancelled, counters, Conserved, WorstCase, OrderSides, Signed
  <2> QED BY <2>1, <2>2 DEF ExposureInv
<1>6. CASE on_cancel(s, q)
  <2>1. open_lots[s] >= q
    BY <1>0, <1>1, <1>2, <1>6 DEF on_cancel, Conserved
  <2>2. open_lots' \in [OrderSides -> Nat] /\ cancelsDue' \in [OrderSides -> Nat]
    BY <1>1, <1>2, <1>6, <2>1 DEF on_cancel, Released
  <2>3. GatewayTypes'
    BY <1>0, <1>3, <1>6, <2>2 DEF on_cancel, rate, GatewayTypes
  <2>4. Conserved' /\ WorstCase'
    BY <1>0, <1>1, <1>2, <1>6 DEF on_cancel, Released, Conserved, WorstCase, OrderSides, Signed
  <2> QED BY <2>3, <2>4 DEF ExposureInv
<1>7. CASE on_fill(s, q)
  <2>1. open_lots[s] >= q
    BY <1>0, <1>1, <1>2, <1>7 DEF on_fill, Conserved
  <2>2. open_lots' \in [OrderSides -> Nat] /\ fillsDue' \in [OrderSides -> Nat] /\ net_pos' \in Int
    BY <1>1, <1>2, <1>7, <2>1 DEF on_fill, Released
  <2>3. GatewayTypes'
    BY <1>0, <1>3, <1>7, <2>2 DEF on_fill, rate, GatewayTypes
  <2>4. Conserved' /\ WorstCase'
    BY <1>0, <1>1, <1>2, <1>7 DEF on_fill, Released, Conserved, WorstCase, OrderSides, Signed
  <2> QED BY <2>3, <2>4 DEF ExposureInv
<1> QED BY <1>4, <1>5, <1>6, <1>7 DEF Report

LEMMA ExposureStep == ExposureInv /\ [GatewayNext]_gatewayVars => ExposureInv'
<1> SUFFICES ASSUME ExposureInv, [GatewayNext]_gatewayVars PROVE ExposureInv'
  OBVIOUS
<1>1. ASSUME UNCHANGED <<counters, venue, rate>>, clock' \in Nat,
             verdict' \in SUBSET {"none", "QTY", "PRICE_BAND", "POSITION", "RATE"}
      PROVE  ExposureInv'
  BY <1>1 DEF ExposureInv, counters, venue, rate, GatewayTypes, Conserved, WorstCase, Signed
<1>2. CASE UNCHANGED gatewayVars
  BY <1>1, <1>2 DEF gatewayVars, ExposureInv, GatewayTypes
<1>3. ASSUME NEW side \in OrderSides, NEW px \in Prices, NEW q \in Quantities, Reject(side, px, q)
      PROVE  ExposureInv'
  <2>1. Violated(side, px, q) \in SUBSET {"none", "QTY", "PRICE_BAND", "POSITION", "RATE"}
    BY DEF Violated
  <2> QED BY <1>1, <1>3, <2>1 DEF Reject, ExposureInv, GatewayTypes
<1>4. CASE Tick
  BY <1>1, <1>4 DEF Tick, NoVerdict, ExposureInv, GatewayTypes
<1> QED BY <1>2, <1>3, <1>4, ExposureAccept, ExposureReport DEF GatewayNext, Check

LEMMA ExposureCorrect == GatewaySpec => []ExposureInv
BY GatewayStarts, ExposureStep, PTL DEF GatewaySpec

\* Every counter keeps its type; open lots never go below zero.
THEOREM GatewayTyped == GatewaySpec => []GatewayTypes
BY ExposureCorrect, PTL DEF ExposureInv

\* Whatever fills or is cancelled at the venue, reported or not, the position
\* could never be pushed over the limit by what rests on one side.
THEOREM ExposureBounded == GatewaySpec => []ExposureWithinLimit
<1>1. ExposureInv => ExposureWithinLimit
  <2> SUFFICES ASSUME ExposureInv, NEW s \in OrderSides
               PROVE  Signed(s, position) + resting[s] <= PosLimit
    BY DEF ExposureWithinLimit
  <2>1. /\ open_lots[s] \in Nat /\ resting[s] \in Nat /\ cancelsDue[s] \in Nat
        /\ fillsDue["Buy"] \in Nat /\ fillsDue["Sell"] \in Nat
        /\ net_pos \in Int /\ PosLimit \in Nat /\ s \in {"Buy", "Sell"}
    BY RiskAssumption DEF ExposureInv, GatewayTypes, OrderSides
  <2>2. /\ open_lots[s] = resting[s] + fillsDue[s] + cancelsDue[s]
        /\ position = net_pos + fillsDue["Buy"] - fillsDue["Sell"]
        /\ open_lots[s] + Signed(s, net_pos) <= PosLimit
    BY DEF ExposureInv, Conserved, WorstCase
  <2>3. CASE s = "Buy"
    BY <2>1, <2>2, <2>3 DEF Signed
  <2>4. CASE s = "Sell"
    BY <2>1, <2>2, <2>4 DEF Signed
  <2> QED BY <2>1, <2>3, <2>4
<1> QED BY <1>1, ExposureCorrect, PTL

-----------------------------------------------------------------------------
(* The rate window *)

LEMMA WType == W \in Nat /\ W > 0 /\ WindowTicks \in Nat
BY RiskAssumption DEF W

\* Accepts less than a ring's depth apart have different stamps.
LEMMA StampInjective ==
  ASSUME NEW m \in Nat, NEW n \in Nat, m < n, n < m + W
  PROVE  m % W # n % W
<1> DEFINE a == m \div W
           b == n \div W
           k == b - a
<1>1. /\ m = W * a + (m % W) /\ a \in Int /\ (m % W) \in Int
      /\ n = W * b + (n % W) /\ b \in Int /\ (n % W) \in Int
  BY WType
<1> SUFFICES ASSUME m % W = n % W PROVE FALSE
  OBVIOUS
<1> HIDE DEF a, b
<1>2. n - m = W * k /\ k \in Int
  BY <1>1, WType
<1> HIDE DEF k
<1>3. CASE k >= 1
  <2>1. W * k >= W
    BY <1>2, <1>3, WType
  <2> QED BY <1>2, <2>1, WType
<1>4. CASE k <= 0
  <2>1. W * k <= 0
    BY <1>2, <1>4, WType
  <2> QED BY <1>2, <2>1
<1> QED BY <1>2, <1>3, <1>4

\* The stamp an accept overwrites is that of the accept W before it.
LEMMA StampReused ==
  ASSUME NEW n \in Nat, W <= n
  PROVE  (n - W) % W = n % W
<1> DEFINE m == n - W
           a == m \div W
           b == n \div W
           k == b - a
           r == m % W
           t == n % W
<1>1. m \in Nat /\ a \in Int /\ b \in Int /\ r \in 0 .. W - 1 /\ t \in 0 .. W - 1
      /\ m = W * a + r /\ n = W * b + t
  BY WType
<1> HIDE DEF a, b, r, t
<1>2. W * k = W + r - t /\ k \in Int
  <2>1. W * k = W * b - W * a
    BY <1>1, WType
  <2> QED BY <1>1, <2>1, WType
<1> HIDE DEF k
<1>3. CASE k >= 2
  <2>1. W * k >= W + W
    BY <1>2, <1>3, WType
  <2> QED BY <1>1, <1>2, <2>1, WType
<1>4. CASE k <= 0
  <2>1. W * k <= 0
    BY <1>2, <1>4, WType
  <2> QED BY <1>1, <1>2, <2>1, WType
<1>5. CASE k = 1
  <2>1. r = t
    BY <1>1, <1>2, <1>5, WType
  <2> QED BY <2>1 DEF r, t
<1> QED BY <1>2, <1>3, <1>4, <1>5

LEMMA RateAccept ==
  ASSUME GatewayTypes, Spaced, Ring, NEW side \in OrderSides, NEW px \in Prices, NEW q \in Quantities,
         Accept(side, px, q)
  PROVE  Spaced' /\ Ring'
<1> DEFINE N == n_sent
<1>1. /\ N \in Nat /\ clock \in Nat /\ accepts \in Seq(Nat) /\ stamps \in [0 .. W - 1 -> Nat]
      /\ Len(accepts) = N /\ WindowTicks <= clock
      /\ \A n \in 1 .. N : accepts[n] <= clock /\ accepts[n] \in Nat
  BY DEF GatewayTypes, Spaced, W
<1>2. /\ n_sent' = N + 1 /\ accepts' = Append(accepts, clock) /\ clock' = clock
      /\ stamps' = [stamps EXCEPT ![N % W] = clock]
      /\ ~(clock - stamps[N % W] < WindowTicks)
  BY DEF Accept, Stamped, Violated, TooSoon, W
<1>3. N % W \in 0 .. W - 1
  BY <1>1, WType
<1>4. /\ Len(accepts') = N + 1 /\ accepts'[N + 1] = clock
      /\ \A n \in 1 .. N : accepts'[n] = accepts[n]
  BY <1>1, <1>2
<1>5. \A n \in 1 .. N + 1 : accepts'[n] <= clock
  <2> SUFFICES ASSUME NEW n \in 1 .. N + 1 PROVE accepts'[n] <= clock
    OBVIOUS
  <2>1. n = N + 1 \/ n \in 1 .. N
    BY <1>1
  <2> QED BY <1>1, <1>4, <2>1
<1>6. \A m, n \in 1 .. N + 1 : m <= n => accepts'[m] <= accepts'[n]
  <2> SUFFICES ASSUME NEW m \in 1 .. N + 1, NEW n \in 1 .. N + 1, m <= n
               PROVE  accepts'[m] <= accepts'[n]
    OBVIOUS
  <2>1. CASE n = N + 1
    BY <1>4, <1>5, <2>1
  <2>2. CASE n \in 1 .. N
    <3>1. m \in 1 .. N
      BY <1>1, <2>2
    <3> QED BY <1>4, <2>2, <3>1 DEF Spaced
  <2> QED BY <1>1, <2>1, <2>2
<1>7. \A n \in 1 .. N + 1 : n + W <= N + 1 => accepts'[n + W] - accepts'[n] >= WindowTicks
  <2> SUFFICES ASSUME NEW n \in 1 .. N + 1, n + W <= N + 1
               PROVE  accepts'[n + W] - accepts'[n] >= WindowTicks
    OBVIOUS
  <2>1. n \in 1 .. N /\ n + W \in 1 .. N + 1
    BY <1>1, WType
  <2>2. CASE n + W \in 1 .. N
    <3>1. accepts'[n + W] = accepts[n + W] /\ accepts'[n] = accepts[n] /\ n + W <= N
      BY <1>1, <1>4, <2>1, <2>2
    <3> QED BY <2>1, <3>1 DEF Spaced
  <2>3. CASE n + W = N + 1
    <3>1. n - 1 = N - W /\ N < n + W /\ W <= N
      BY <1>1, <2>1, <2>3, WType
    <3>2. (n - 1) % W = N % W
      BY <1>1, <3>1, StampReused
    <3>3. stamps[N % W] = accepts[n]
      BY <2>1, <3>1, <3>2 DEF Ring
    <3>4. accepts'[n + W] = clock /\ accepts'[n] = accepts[n] /\ accepts[n] \in Nat
      BY <1>1, <1>4, <2>1, <2>3
    <3> QED BY <1>1, <1>2, <3>3, <3>4, WType
  <2> QED BY <1>1, <2>1, <2>2, <2>3, WType
<1>8. Spaced'
  BY <1>1, <1>2, <1>4, <1>5, <1>6, <1>7 DEF Spaced
<1>9. \A n \in 1 .. N + 1 : N + 1 < n + W => stamps'[(n - 1) % W] = accepts'[n]
  <2> SUFFICES ASSUME NEW n \in 1 .. N + 1, N + 1 < n + W
               PROVE  stamps'[(n - 1) % W] = accepts'[n]
    OBVIOUS
  <2>1. CASE n = N + 1
    <3>1. n - 1 = N
      BY <1>1, <2>1
    <3> QED BY <1>1, <1>2, <1>3, <1>4, <2>1, <3>1
  <2>2. CASE n \in 1 .. N
    <3>1. n - 1 \in Nat /\ n - 1 < N /\ N < (n - 1) + W /\ N < n + W
      BY <1>1, <2>2, WType
    <3>2. (n - 1) % W # N % W /\ (n - 1) % W \in 0 .. W - 1
      BY <1>1, <3>1, StampInjective, WType
    <3>3. stamps'[(n - 1) % W] = stamps[(n - 1) % W]
      BY <1>1, <1>2, <3>2
    <3> QED BY <1>4, <2>2, <3>1, <3>3 DEF Ring
  <2> QED BY <1>1, <2>1, <2>2
<1>10. \A n \in Nat : (N + 1 <= n /\ n < W) => stamps'[n % W] = 0
  <2> SUFFICES ASSUME NEW n \in Nat, N + 1 <= n, n < W PROVE stamps'[n % W] = 0
    OBVIOUS
  <2>1. N < n /\ n < N + W /\ N <= n
    BY <1>1, WType
  <2>2. N % W # n % W
    BY <1>1, <2>1, StampInjective
  <2>3. n % W \in 0 .. W - 1
    BY WType
  <2>4. stamps'[n % W] = stamps[n % W]
    BY <1>1, <1>2, <2>2, <2>3
  <2> QED BY <2>1, <2>4 DEF Ring
<1>11. Ring'
  BY <1>2, <1>9, <1>10 DEF Ring, W
<1> QED BY <1>8, <1>11

LEMMA RateStep == RateInv /\ ExposureInv' /\ [GatewayNext]_gatewayVars => RateInv'
<1> SUFFICES ASSUME RateInv, GatewayTypes', [GatewayNext]_gatewayVars PROVE RateInv'
  BY DEF ExposureInv
<1>0. GatewayTypes /\ Spaced /\ Ring /\ ("RATE" \in verdict => TooSoon)
  BY DEF RateInv
<1>1. ASSUME UNCHANGED <<rate, clock>>, verdict' = NoVerdict PROVE RateInv'
  BY <1>0, <1>1 DEF rate, RateInv, Spaced, Ring, NoVerdict
<1>2. CASE UNCHANGED gatewayVars
  BY <1>0, <1>2 DEF gatewayVars, rate, RateInv, Spaced, Ring, TooSoon
<1>3. ASSUME NEW side \in OrderSides, NEW px \in Prices, NEW q \in Quantities, Accept(side, px, q)
      PROVE  RateInv'
  <2>1. "RATE" \notin verdict'
    BY <1>3 DEF Accept
  <2> QED BY <1>0, <1>3, <2>1, RateAccept DEF RateInv
<1>4. ASSUME NEW side \in OrderSides, NEW px \in Prices, NEW q \in Quantities, Reject(side, px, q)
      PROVE  RateInv'
  <2>1. "RATE" \in verdict' => TooSoon
    BY <1>4 DEF Reject, Violated
  <2>2. UNCHANGED <<n_sent, stamps, accepts, clock>>
    BY <1>4 DEF Reject, rate
  <2>3. Spaced' /\ Ring' /\ (TooSoon <=> TooSoon')
    BY <1>0, <2>2 DEF Spaced, Ring, TooSoon
  <2> QED BY <2>1, <2>3 DEF RateInv
<1>5. ASSUME NEW s \in OrderSides, NEW q \in Lots, Report(s, q) PROVE RateInv'
  BY <1>1, <1>5 DEF Report, Filled, Cancelled, on_cancel, on_fill
<1>6. CASE Tick
  <2>1. clock' = clock + 1 /\ UNCHANGED <<n_sent, stamps, accepts>> /\ "RATE" \notin verdict'
    BY <1>6 DEF Tick, rate, NoVerdict
  <2>2. clock \in Nat /\ n_sent \in Nat /\ accepts \in Seq(Nat) /\ WindowTicks \in Nat /\ Len(accepts) = n_sent
    BY <1>0, WType DEF GatewayTypes, Spaced
  <2>3. \A n \in 1 .. n_sent : accepts[n] <= clock'
    <3>1. \A n \in 1 .. n_sent : accepts[n] \in Nat /\ accepts[n] <= clock
      BY <1>0, <2>2 DEF Spaced
    <3> QED BY <2>1, <2>2, <3>1
  <2>4. Spaced'
    BY <1>0, <2>1, <2>2, <2>3 DEF Spaced
  <2>5. Ring'
    BY <1>0, <2>1 DEF Ring
  <2> QED BY <2>1, <2>4, <2>5 DEF RateInv
<1> QED BY <1>2, <1>3, <1>4, <1>5, <1>6 DEF GatewayNext, Check

LEMMA RateCorrect == GatewaySpec => []RateInv
<1>1. RateInv /\ ExposureInv /\ ExposureInv' /\ [GatewayNext]_gatewayVars => RateInv'
  BY RateStep
<1> QED BY <1>1, GatewayStarts, ExposureCorrect, PTL DEF GatewaySpec

\* An accept less than a window old is one of the last RateWindowMsgs.
LEMMA RecentAreLast == ASSUME RateInv PROVE Recent \subseteq (n_sent - W + 1) .. n_sent
<1> SUFFICES ASSUME NEW n \in Recent PROVE n \in (n_sent - W + 1) .. n_sent
  OBVIOUS
<1>1. /\ n_sent \in Nat /\ accepts \in Seq(Nat) /\ Len(accepts) = n_sent /\ clock \in Nat
      /\ n \in 1 .. n_sent /\ clock - accepts[n] < WindowTicks
  BY DEF RateInv, GatewayTypes, Spaced, Recent
<1>2. CASE n + W <= n_sent
  <2>1. n + W \in 1 .. n_sent
    BY <1>1, <1>2, WType
  <2>2. accepts[n + W] - accepts[n] >= WindowTicks /\ accepts[n + W] <= clock
    BY <1>1, <1>2, <2>1 DEF RateInv, Spaced
  <2>3. accepts[n] \in Nat /\ accepts[n + W] \in Nat
    BY <1>1, <2>1
  <2> QED BY <1>1, <2>2, <2>3, WType
<1>3. CASE n + W > n_sent
  BY <1>1, <1>3, WType
<1> QED BY <1>1, <1>2, <1>3, WType

LEMMA LastCount ==
  ASSUME n_sent \in Nat
  PROVE  /\ IsFiniteSet((n_sent - W + 1) .. n_sent)
         /\ Cardinality((n_sent - W + 1) .. n_sent) = W
<1> DEFINE a == n_sent - W + 1
<1>1. a \in Int /\ n_sent \in Int /\ a <= n_sent /\ n_sent - a + 1 = W
  BY WType
<1> HIDE DEF a
<1>2. IsFiniteSet(a .. n_sent) /\ Cardinality(a .. n_sent) = n_sent - a + 1
  BY <1>1, FS_Interval
<1> QED BY <1>1, <1>2 DEF a

\* Never more than RateWindowMsgs accepts within a window.
THEOREM RateBounded == GatewaySpec => []RateRespected
<1>1. RateInv => RateRespected
  <2> SUFFICES ASSUME RateInv PROVE Cardinality(Recent) <= W
    BY DEF RateRespected, W
  <2>1. n_sent \in Nat
    BY DEF RateInv, GatewayTypes
  <2> QED BY <2>1, RecentAreLast, LastCount, FS_Subset
<1> QED BY <1>1, RateCorrect, PTL

\* An order refused for the rate would have been one more than allowed.
THEOREM RateExact == GatewaySpec => []RateRefusalExact
<1>1. RateInv => RateRefusalExact
  <2> SUFFICES ASSUME RateInv, "RATE" \in verdict PROVE Cardinality(Recent) = W
    BY DEF RateRefusalExact, W
  <2>1. /\ n_sent \in Nat /\ accepts \in Seq(Nat) /\ Len(accepts) = n_sent /\ clock \in Nat
        /\ WindowTicks <= clock /\ Spaced /\ Ring /\ clock - stamps[n_sent % W] < WindowTicks
    BY DEF RateInv, GatewayTypes, Spaced, TooSoon, W
  <2>2. W <= n_sent
    <3> SUFFICES ASSUME n_sent < W PROVE FALSE
      BY <2>1, WType
    <3>1. stamps[n_sent % W] = 0
      BY <2>1 DEF Ring
    <3> QED BY <2>1, <3>1, WType
  <2> DEFINE a == n_sent - W + 1
  <2>3. a \in 1 .. n_sent /\ n_sent < a + W /\ a - 1 = n_sent - W
    BY <2>1, <2>2, WType
  <2>4. (a - 1) % W = n_sent % W
    BY <2>1, <2>2, <2>3, StampReused
  <2>5. accepts[a] = stamps[n_sent % W]
    BY <2>1, <2>3, <2>4 DEF Ring
  <2>6. (a .. n_sent) \subseteq Recent
    <3> SUFFICES ASSUME NEW n \in a .. n_sent PROVE n \in Recent
      OBVIOUS
    <3>1. n \in 1 .. n_sent /\ a <= n /\ a \in 1 .. n_sent
      BY <2>1, <2>3
    <3>2. accepts[a] <= accepts[n] /\ accepts[a] \in Nat /\ accepts[n] \in Nat
      BY <2>1, <3>1 DEF Spaced
    <3>3. clock - accepts[n] < WindowTicks
      BY <2>1, <2>5, <3>2, WType
    <3> QED BY <2>1, <3>1, <3>3 DEF Recent
  <2>7. Recent = a .. n_sent
    BY <2>6, RecentAreLast
  <2> QED BY <2>1, <2>7, LastCount
<1> QED BY <1>1, RateCorrect, PTL
=============================================================================
