---------------------------- MODULE OrderBookProofs ----------------------------
(***************************************************************************)
(* Proofs about OrderBook for every ladder length, arena size, quantity    *)
(* bound and generation modulus.                                           *)
(*                                                                         *)
(* In this order: types; the cached best prices; totals over a queue; the  *)
(* invariant BookInv, that free list, queues, bitmaps and totals agree     *)
(* with the order each slot holds; what follows from it of the properties  *)
(* of OrderBook; the bounds on generations; the calls in progress; that    *)
(* levels and arena are used as Ladder allows; that every step is one of   *)
(* the abstract book PriceTimeBook.  Properties of sequences and totals    *)
(* whose proof needs an induction take a least counterexample instead.     *)
(***************************************************************************)
EXTENDS OrderBookRefinement, FiniteSetTheorems, WellFoundedInduction, TLAPS

-----------------------------------------------------------------------------
(* Unlinking *)

\* Unlinking a slot from a level's list leaves a list of slots.
LEMMA UnlinkedType ==
  ASSUME NEW queue \in Seq(Slots), NEW slot \in Slots
  PROVE  Unlinked(queue, slot) \in Seq(Slots)
<1> DEFINE pos == CHOOSE i \in DOMAIN queue : queue[i] = slot
           at(i) == queue[IF i < pos THEN i ELSE i + 1]
<1>1. Len(queue) - 1 \in Int /\ Len(queue) \in Nat
  OBVIOUS
<1>2. ASSUME NEW i \in 1 .. Len(queue) - 1
      PROVE  at(i) \in Slots
  <2>1. queue[i] \in Slots /\ queue[i + 1] \in Slots
    BY <1>1
  <2> QED BY <2>1
<1>3. CASE Len(queue) = 0
  <2>1. Unlinked(queue, slot) = <<>>
    BY <1>3 DEF Unlinked
  <2> QED BY <2>1
<1>4. CASE Len(queue) > 0
  <2>1. [i \in 1 .. Len(queue) - 1 |-> at(i)] \in [1 .. Len(queue) - 1 -> Slots]
    BY <1>2
  <2>2. Len(queue) - 1 \in Nat
    BY <1>1, <1>4
  <2> QED BY <2>1, <2>2 DEF Unlinked
<1> QED BY <1>1, <1>3, <1>4

-----------------------------------------------------------------------------
(* The bitmap searches *)

LEMMA TicksNat == NumTicks \in Nat /\ \A t \in Ticks : t \in Nat /\ t < NumTicks
BY BookAssumption DEF Ticks

\* A non-empty set of naturals has a least element.
LEMMA NatLeast ==
  ASSUME NEW T \in SUBSET Nat, T # {}
  PROVE  \E x \in T : \A y \in T : x <= y
<1> DEFINE R == OpToRel(<, Nat)
<1>1. IsWellFoundedOn(R, Nat)
  BY NatLessThanWellFounded
<1>2. PICK x \in T : \A y \in T : ~ (<<y, x>> \in R)
  <2> HIDE DEF R
  <2> QED BY <1>1, WFMin
<1>3. ASSUME NEW y \in T PROVE x <= y
  <2>1. ~ (<<y, x>> \in Nat \X Nat /\ y < x)
    BY <1>2 DEF OpToRel
  <2> QED BY <2>1
<1> QED BY <1>3

\* A non-empty set of naturals with an upper bound has a greatest element.
LEMMA NatGreatest ==
  ASSUME NEW T \in SUBSET Nat, T # {}, NEW n \in Nat, \A t \in T : t <= n
  PROVE  \E x \in T : \A y \in T : y <= x
<1> DEFINE U == {n - t : t \in T}
<1>1. U \in SUBSET Nat /\ U # {}
  <2>1. \A t \in T : n - t \in Nat
    OBVIOUS
  <2> QED BY <2>1
<1>2. PICK u \in U : \A v \in U : u <= v
  BY <1>1, NatLeast
<1>3. PICK x \in T : u = n - x
  BY <1>2
<1>4. ASSUME NEW y \in T PROVE y <= x
  <2>1. n - y \in U
    OBVIOUS
  <2>2. n - x <= n - y
    BY <1>2, <1>3, <2>1
  <2> QED BY <2>2
<1> QED BY <1>4

\* next_set(i) returns the lowest set bit from i on, or NPOS when there is none.
LEMMA NextSetLeast ==
  ASSUME NEW S \in SUBSET Ticks, NEW i \in Ticks
  PROVE  \/ NextSet(S, i) = NPOS /\ \A t \in S : t < i
         \/ /\ NextSet(S, i) \in S /\ NextSet(S, i) >= i
            /\ \A t \in S : t >= i => NextSet(S, i) <= t
<1> DEFINE T == {t \in S : t >= i}
<1>1. T \in SUBSET Nat
  BY TicksNat
<1>2. CASE T = {}
  <2>1. \A t \in S : t < i
    BY <1>2, TicksNat
  <2> QED BY <2>1, <1>2 DEF NextSet
<1>3. CASE T # {}
  <2>1. \E t \in S : t >= i /\ \A u \in S : u >= i => t <= u
    BY <1>1, <1>3, NatLeast
  <2> QED BY <2>1 DEF NextSet
<1> QED BY <1>2, <1>3

\* prev_set(i) returns the highest set bit up to i, or NPOS when there is none.
LEMMA PrevSetGreatest ==
  ASSUME NEW S \in SUBSET Ticks, NEW i \in Ticks
  PROVE  \/ PrevSet(S, i) = NPOS /\ \A t \in S : t > i
         \/ /\ PrevSet(S, i) \in S /\ PrevSet(S, i) <= i
            /\ \A t \in S : t <= i => PrevSet(S, i) >= t
<1> DEFINE T == {t \in S : t <= i}
<1>1. T \in SUBSET Nat /\ i \in Nat /\ \A t \in T : t <= i
  BY TicksNat
<1>2. CASE T = {}
  <2>1. \A t \in S : t > i
    BY <1>2, TicksNat
  <2> QED BY <2>1, <1>2 DEF PrevSet
<1>3. CASE T # {}
  <2>1. \E t \in S : t <= i /\ \A u \in S : u <= i => t >= u
    <3>1. PICK x \in T : \A y \in T : y <= x
      <4> HIDE DEF T
      <4> QED BY <1>1, <1>3, NatGreatest
    <3> QED BY <3>1, <1>1
  <2> QED BY <2>1 DEF PrevSet
<1> QED BY <1>2, <1>3
-----------------------------------------------------------------------------
(* Type correctness *)

LEMMA ConstantTypes ==
  /\ NPOS \in Nat /\ NPOS \notin Ticks /\ NumTicks \notin Ticks /\ 0 \in Ticks
  /\ NoId \in Nat \X Nat /\ FilledId \in Nat \X Nat /\ NoTaker \in Taker
  /\ Dead \in Order /\ \A s \in Slots : s \in Nat
BY BookAssumption
   DEF NPOS, Ticks, NoId, FilledId, NoTaker, Taker, Dead, Order, Sides, Slots

\* What every call returns is an id and a number.
LEMMA RetTypes ==
  ASSUME NEW q \in Int
  PROVE  /\ [id |-> NoId, qty |-> q] \in [id : Nat \X Nat, qty : Int]
         /\ [id |-> FilledId, qty |-> q] \in [id : Nat \X Nat, qty : Int]
BY ConstantTypes

LEMMA NewBestType ==
  ASSUME NEW S \in SUBSET Ticks, NEW i \in Ticks
  PROVE  AskAfter(S, i) \in Ticks \union {NumTicks} /\ BidAfter(S, i) \in Ticks \union {NPOS}
BY NextSetLeast, PrevSetGreatest DEF AskAfter, BidAfter

LEMMA UnlinkAndReleaseType ==
  ASSUME TypeOK, NEW slot \in Slots, UnlinkAndRelease(slot)
  PROVE  /\ levels' \in [Ticks -> Seq(Slots)] /\ totalQty' \in [Ticks -> Int]
         /\ order' \in [Slots -> Order] /\ free' \in Seq(Slots) /\ gens' \in [Slots -> Nat]
         /\ bids' \subseteq Ticks /\ asks' \subseteq Ticks
         /\ bestBid' \in Ticks \union {NPOS} /\ bestAsk' \in Ticks \union {NumTicks}
<1> DEFINE idx == order[slot].idx
<1>1. idx \in Ticks /\ order[slot].qty \in Nat
  BY DEF TypeOK, Order
<1>2. levels' \in [Ticks -> Seq(Slots)]
  <2>1. Unlinked(levels[idx], slot) \in Seq(Slots)
    BY <1>1, UnlinkedType DEF TypeOK
  <2> QED BY <1>1, <2>1 DEF TypeOK, UnlinkAndRelease
<1>3. totalQty' \in [Ticks -> Int]
  BY <1>1 DEF TypeOK, UnlinkAndRelease
<1>4. order' \in [Slots -> Order]
  BY ConstantTypes DEF TypeOK, UnlinkAndRelease
<1>5. free' \in Seq(Slots) /\ gens' \in [Slots -> Nat]
  BY DEF TypeOK, UnlinkAndRelease, Release
<1>6. bids' \subseteq Ticks /\ asks' \subseteq Ticks
  BY DEF TypeOK, UnlinkAndRelease
<1>7. bestBid' \in Ticks \union {NPOS} /\ bestAsk' \in Ticks \union {NumTicks}
  BY <1>1, <1>6, NewBestType DEF TypeOK, UnlinkAndRelease
<1> QED BY <1>2, <1>3, <1>4, <1>5, <1>6, <1>7

\* A step that touches neither book nor arena has only its own values to type.
LEMMA QuietType ==
  ASSUME TypeOK, UNCHANGED <<bookVars, free, gens>>,
         pc' \in {"idle", "match", "sweep"}, taker' \in Taker, sweep' \in Ticks,
         reload' \in Seq(Slots), ret' \in [id : Nat \X Nat, qty : Int]
  PROVE  TypeOK'
BY DEF TypeOK, bookVars

LEMMA RejectType ==
  ASSUME TypeOK, Reject PROVE TypeOK'
<1>1. ret' \in [id : Nat \X Nat, qty : Int]
  BY RetTypes DEF Reject
<1>2. UNCHANGED <<bookVars, free, gens>>
  BY DEF Reject
<1>3. /\ pc' \in {"idle", "match", "sweep"} /\ taker' \in Taker /\ sweep' \in Ticks
      /\ reload' \in Seq(Slots)
  BY DEF Reject, TypeOK
<1> QED BY <1>1, <1>2, <1>3, QuietType

LEMMA NotFoundType ==
  ASSUME TypeOK, NotFound, UNCHANGED <<pc, taker, sweep, reload>> PROVE TypeOK'
<1>1. ret' \in [id : Nat \X Nat, qty : Int] /\ UNCHANGED <<bookVars, free, gens>>
  BY RetTypes DEF NotFound
<1>2. /\ pc' \in {"idle", "match", "sweep"} /\ taker' \in Taker /\ sweep' \in Ticks
      /\ reload' \in Seq(Slots)
  BY DEF TypeOK
<1> QED BY <1>1, <1>2, QuietType

LEMMA TypeInit == Init => TypeOK
<1> SUFFICES ASSUME Init PROVE TypeOK
  OBVIOUS
<1>1. free \in Seq(Slots)
  BY BookAssumption DEF Init, Slots
<1>2. reload \in Seq(Slots) /\ levels \in [Ticks -> Seq(Slots)]
  BY DEF Init
<1> QED BY <1>1, <1>2, ConstantTypes DEF Init, TypeOK, NoRet

LEMMA TypeStep == TypeOK /\ [Next]_vars => TypeOK'
<1> SUFFICES ASSUME TypeOK, [Next]_vars PROVE TypeOK'
  OBVIOUS
<1>t. /\ totalQty \in [Ticks -> Int] /\ order \in [Slots -> Order] /\ gens \in [Slots -> Nat]
      /\ free \in Seq(Slots) /\ sweep \in Ticks
  BY DEF TypeOK
<1>b. /\ bids \subseteq Ticks /\ asks \subseteq Ticks
      /\ bestBid \in Ticks \union {NPOS} /\ bestAsk \in Ticks \union {NumTicks}
  BY DEF TypeOK
<1>1. CASE UNCHANGED vars
  BY <1>1 DEF TypeOK, vars
<1>2. ASSUME NEW side \in Sides, NEW idx \in 0..NumTicks, NEW qty \in 0..MaxQty,
             NEW postOnly \in BOOLEAN, NewOrder(side, idx, qty, postOnly)
      PROVE  TypeOK'
  <2>1. CASE Reject
    BY <2>1, RejectType
  <2>2. CASE Start(side, idx, qty, 0) /\ idx < NumTicks
    <3>1. idx \in Ticks /\ qty \in Nat
      BY <2>2, BookAssumption DEF Ticks
    <3>2. taker' \in Taker /\ ret' \in [id : Nat \X Nat, qty : Int]
      BY <2>2, <3>1, RetTypes DEF Start, Taker, NoRet
    <3>3. UNCHANGED <<bookVars, free, gens>> /\ pc' = "match"
      BY <2>2 DEF Start
    <3>4. sweep' \in Ticks /\ reload' \in Seq(Slots)
      BY <2>2 DEF Start, TypeOK
    <3> QED BY <3>2, <3>3, <3>4, QuietType
  <2> QED BY <1>2, <2>1, <2>2, BookAssumption DEF NewOrder, Refused
<1>3. ASSUME NEW side \in Sides, NEW idx \in 0..NumTicks, NEW display \in 0..MaxQty,
             NEW total \in 0..MaxQty, NewIceberg(side, idx, display, total)
      PROVE  TypeOK'
  <2>1. CASE Reject
    BY <2>1, RejectType
  <2>2. CASE Start(side, idx, total, display) /\ idx < NumTicks
    <3>1. idx \in Ticks /\ total \in Nat /\ display \in Nat
      BY <2>2, BookAssumption DEF Ticks
    <3>2. taker' \in Taker /\ ret' \in [id : Nat \X Nat, qty : Int]
      BY <2>2, <3>1, RetTypes DEF Start, Taker, NoRet
    <3>3. UNCHANGED <<bookVars, free, gens>> /\ pc' = "match"
      BY <2>2 DEF Start
    <3>4. sweep' \in Ticks /\ reload' \in Seq(Slots)
      BY <2>2 DEF Start, TypeOK
    <3> QED BY <3>2, <3>3, <3>4, QuietType
  <2> QED BY <1>3, <2>1, <2>2, BookAssumption DEF NewIceberg
<1>4. CASE EnterSweep
  <2>1. (IF taker.side = "Buy" THEN bestAsk ELSE bestBid) \in Ticks
    <3>1. taker.idx \in Ticks
      BY DEF TypeOK, Taker
    <3> QED BY <1>4, <3>1, TicksNat DEF TypeOK, EnterSweep, Crosses
  <2>2. UNCHANGED <<bookVars, free, gens>> /\ pc' = "sweep"
    BY <1>4 DEF EnterSweep
  <2>3. /\ taker' \in Taker /\ sweep' \in Ticks /\ reload' \in Seq(Slots)
        /\ ret' \in [id : Nat \X Nat, qty : Int]
    BY <1>4, <2>1 DEF EnterSweep, TypeOK
  <2> QED BY <2>2, <2>3, QuietType
<1>5. CASE TakerFilled
  <2>1. UNCHANGED <<bookVars, free, gens>> /\ pc' = "idle"
    BY <1>5 DEF TakerFilled
  <2>2. taker' \in Taker /\ sweep' \in Ticks /\ reload' \in Seq(Slots)
    BY <1>5, ConstantTypes DEF TakerFilled, TypeOK
  <2>3. ret' \in [id : Nat \X Nat, qty : Int]
    BY <1>5, RetTypes DEF TakerFilled
  <2> QED BY <2>1, <2>2, <2>3, QuietType
<1>6. ASSUME Filling
      PROVE  /\ Maker \in Slots /\ order[Maker] \in Order
             /\ Fill \in Nat /\ Fill <= order[Maker].qty
             /\ [taker EXCEPT !.qty = @ - Fill] \in Taker
             /\ Tail(levels[sweep]) \in Seq(Slots)
  <2>1. levels[sweep] \in Seq(Slots) /\ levels[sweep] # <<>>
    BY <1>6 DEF TypeOK, Filling
  <2>2. Maker \in Slots /\ Tail(levels[sweep]) \in Seq(Slots)
    BY <2>1 DEF Maker
  <2>3. order[Maker] \in Order /\ order[Maker].qty \in Nat /\ taker.qty \in Nat
    BY <2>2 DEF TypeOK, Order, Taker
  <2>4. Fill \in Nat /\ Fill <= order[Maker].qty /\ taker.qty - Fill \in Nat
    BY <2>3 DEF Fill, Least
  <2>5. [taker EXCEPT !.qty = @ - Fill] \in Taker
    BY <2>4 DEF TypeOK, Taker
  <2> QED BY <2>2, <2>3, <2>4, <2>5
<1>7. CASE FillPart
  <2>1. [order[Maker] EXCEPT !.qty = @ - Fill] \in Order
    <3>1. order[Maker].qty - Fill \in Nat
      BY <1>6, <1>7 DEF FillPart, Order
    <3> QED BY <3>1, <1>6, <1>7 DEF FillPart, Order
  <2>2. order' \in [Slots -> Order]
    BY <1>6, <1>7, <1>t, <2>1 DEF FillPart
  <2>3. totalQty' \in [Ticks -> Int]
    <3>1. totalQty[sweep] - Fill \in Int
      BY <1>6, <1>7, <1>t DEF FillPart
    <3> QED BY <1>7, <1>t, <3>1 DEF FillPart
  <2> QED BY <1>6, <1>7, <2>2, <2>3 DEF TypeOK, FillPart
<1>8. CASE FillReload
  <2> DEFINE refill == Least(order[Maker].display, order[Maker].hidden)
  <2>1. refill \in Nat /\ order[Maker].hidden - refill \in Nat
    BY <1>6, <1>8 DEF FillReload, Least, Order
  <2>2. order' \in [Slots -> Order]
    <3>1. [order[Maker] EXCEPT !.qty = refill, !.hidden = @ - refill] \in Order
      BY <1>6, <1>8, <2>1 DEF FillReload, Order
    <3> QED BY <1>6, <1>8, <3>1 DEF TypeOK, FillReload
  <2>3. totalQty' \in [Ticks -> Int]
    <3>1. totalQty[sweep] - Fill + refill \in Int
      BY <1>6, <1>8, <1>t, <2>1 DEF FillReload
    <3> QED BY <1>8, <1>t, <3>1 DEF FillReload
  <2>4. levels' \in [Ticks -> Seq(Slots)] /\ reload' \in Seq(Slots)
    BY <1>6, <1>8 DEF TypeOK, FillReload
  <2> QED BY <1>6, <1>8, <2>2, <2>3, <2>4 DEF TypeOK, FillReload
<1>9. CASE FillRelease
  <2>1. order' \in [Slots -> Order]
    BY <1>6, <1>9, ConstantTypes DEF TypeOK, FillRelease
  <2>5. totalQty' \in [Ticks -> Int]
    <3>1. totalQty[sweep] - Fill \in Int
      BY <1>6, <1>9, <1>t DEF FillRelease
    <3> QED BY <1>9, <1>t, <3>1 DEF FillRelease
  <2>2. levels' \in [Ticks -> Seq(Slots)]
    BY <1>6, <1>9 DEF TypeOK, FillRelease
  <2>3. free' \in Seq(Slots)
    BY <1>6, <1>9 DEF TypeOK, FillRelease, Release
  <2>4. gens' \in [Slots -> Nat]
    <3>1. gens' = [gens EXCEPT ![Maker] = @ + 1] /\ Maker \in Slots
      BY <1>6, <1>9 DEF FillRelease, Release
    <3> QED BY <1>t, <3>1
  <2> QED BY <1>6, <1>9, <2>1, <2>2, <2>3, <2>4, <2>5 DEF TypeOK, FillRelease
<1>10. CASE LeaveSweep
  <2>1. Spliced \in Seq(Slots) /\ sweep \in Ticks
    BY DEF TypeOK, Spliced
  <2>2. levels' \in [Ticks -> Seq(Slots)] /\ reload' \in Seq(Slots)
    BY <1>10, <2>1 DEF TypeOK, LeaveSweep
  <2>3. bids' \subseteq Ticks /\ asks' \subseteq Ticks
    BY <1>10 DEF TypeOK, LeaveSweep
  <2>4. bestBid' \in Ticks \union {NPOS} /\ bestAsk' \in Ticks \union {NumTicks}
    BY <1>10, <2>1, <2>3, NewBestType DEF TypeOK, LeaveSweep
  <2> QED BY <1>10, <2>2, <2>3, <2>4 DEF TypeOK, LeaveSweep
<1>11. CASE Rest
  <2>1. PICK slot \in Slots :
          /\ Acquire(slot)
          /\ order' = [order EXCEPT ![slot] =
               [side |-> taker.side, idx |-> taker.idx, qty |-> Shown,
                hidden |-> taker.qty - Shown, display |-> taker.display]]
          /\ levels' = [levels EXCEPT ![taker.idx] = Append(@, slot)]
          /\ ret' = [id |-> <<slot, gens'[slot]>>, qty |-> 0]
    BY <1>11 DEF Rest
  <2>2. /\ taker.side \in Sides /\ taker.idx \in Ticks /\ taker.display \in Nat
        /\ Shown \in Nat /\ taker.qty - Shown \in Nat
    <3>1. /\ taker.side \in Sides /\ taker.idx \in Ticks /\ taker.display \in Nat
          /\ taker.qty \in Nat
      BY DEF TypeOK, Taker
    <3> QED BY <3>1 DEF Shown, Least
  <2>3. order' \in [Slots -> Order]
    BY <2>1, <2>2 DEF TypeOK, Order
  <2>8. levels' \in [Ticks -> Seq(Slots)]
    BY <2>1, <2>2 DEF TypeOK
  <2>4. free' \in Seq(Slots) /\ gens' \in [Slots -> Nat]
    <3>1. gens' = [gens EXCEPT ![slot] = @ + 1] /\ free # <<>> /\ free' = Tail(free)
      BY <2>1 DEF Acquire
    <3>2. gens[slot] + 1 \in Nat
      BY <1>t
    <3> QED BY <1>t, <3>1, <3>2
  <2>5. totalQty' \in [Ticks -> Int]
    <3>1. totalQty[taker.idx] + Shown \in Int
      BY <1>t, <2>2
    <3> QED BY <1>11, <1>t, <3>1 DEF Rest
  <2>6. /\ bids' \subseteq Ticks /\ asks' \subseteq Ticks
        /\ bestBid' \in Ticks \union {NPOS} /\ bestAsk' \in Ticks \union {NumTicks}
    <3>1. MarkOccupied(taker.side, taker.idx)
      BY <1>11 DEF Rest
    <3> QED BY <1>b, <2>2, <3>1 DEF MarkOccupied
  <2>7. ret' \in [id : Nat \X Nat, qty : Int]
    BY <2>1, <2>4, ConstantTypes
  <2> QED BY <1>11, <2>3, <2>4, <2>5, <2>6, <2>7, <2>8, ConstantTypes DEF TypeOK, Rest
<1>12. CASE RestExhausted
  <2>1. UNCHANGED <<bookVars, free, gens>> /\ pc' = "idle"
    BY <1>12 DEF RestExhausted
  <2>2. taker' \in Taker /\ sweep' \in Ticks /\ reload' \in Seq(Slots)
    BY <1>12, ConstantTypes DEF RestExhausted, TypeOK
  <2>3. ret' \in [id : Nat \X Nat, qty : Int]
    BY <1>12, RetTypes DEF RestExhausted
  <2> QED BY <2>1, <2>2, <2>3, QuietType
<1>13. ASSUME NEW id \in HeldIds, Cancel(id)
       PROVE  TypeOK'
  <2>1. CASE Accepts(id)
    <3>1. id[1] \in Slots /\ UnlinkAndRelease(id[1]) /\ ret' = [id |-> NoId, qty |-> 1]
      BY <1>13, <2>1 DEF Cancel, Accepts
    <3>2. ret' \in [id : Nat \X Nat, qty : Int]
      BY <3>1, RetTypes
    <3> QED BY <1>13, <3>1, <3>2, UnlinkAndReleaseType DEF TypeOK, Cancel
  <2>2. CASE ~Accepts(id)
    BY <1>13, <2>2, NotFoundType DEF Cancel
  <2> QED BY <2>1, <2>2
<1>14. ASSUME NEW id \in HeldIds, NEW q \in 0..MaxQty, Reduce(id, q)
       PROVE  TypeOK'
  <2>1. CASE NotFound
    BY <1>14, <2>1, NotFoundType DEF Reduce
  <2>2. CASE Accepts(id) /\ q < order[id[1]].qty /\ ReducePart(id[1], q)
    <3>1. id[1] \in Slots /\ order[id[1]] \in Order /\ q \in Nat
      BY <2>2, BookAssumption DEF Accepts, TypeOK
    <3>2. order[id[1]].qty - q \in Nat /\ order[id[1]].idx \in Ticks
      BY <2>2, <3>1 DEF Order
    <3>3. [order[id[1]] EXCEPT !.qty = @ - q] \in Order
      BY <3>1, <3>2 DEF Order
    <3>4. order' \in [Slots -> Order]
      BY <2>2, <3>1, <3>3 DEF TypeOK, ReducePart
    <3>5. totalQty' \in [Ticks -> Int]
      <4>1. totalQty[order[id[1]].idx] - q \in Int
        BY <3>1, <3>2 DEF TypeOK
      <4> QED BY <2>2, <4>1 DEF TypeOK, ReducePart
    <3>6. ret' \in [id : Nat \X Nat, qty : Int]
      BY <2>2, <3>1, RetTypes DEF ReducePart
    <3> QED BY <1>14, <2>2, <3>4, <3>5, <3>6 DEF TypeOK, Reduce, ReducePart
  <2>3. CASE Accepts(id) /\ ReduceAll(id[1])
    <3>1. order[id[1]].qty \in Int
      BY <2>3 DEF Accepts, TypeOK, Order
    <3> QED BY <1>14, <2>3, <3>1, UnlinkAndReleaseType, RetTypes
            DEF TypeOK, Reduce, ReduceAll, Accepts
  <2> QED BY <1>14, <2>1, <2>2, <2>3 DEF Reduce
<1> QED BY <1>1, <1>2, <1>3, <1>4, <1>5, <1>7, <1>8, <1>9, <1>10, <1>11, <1>12,
           <1>13, <1>14 DEF Next, Engine, Calls

\* The variables keep their types in every execution of the book.
THEOREM TypeCorrect == Spec => []TypeOK
BY TypeInit, TypeStep, PTL DEF Spec

-----------------------------------------------------------------------------
(* The cached best prices, and the book that never stands crossed *)

BestInv == BestBidCached /\ BestAskCached /\ NotCrossed /\ SweepAtBest

\* Clearing the bit of the best level and searching on finds the new best.
LEMMA BestBidAfter ==
  ASSUME NEW S \in SUBSET Ticks, NEW i \in Ticks, \A t \in S : t <= i
  PROVE  IF S = {} THEN BidAfter(S, i) = NPOS
                   ELSE BidAfter(S, i) \in S /\ \A t \in S : t <= BidAfter(S, i)
<1>1. \A t \in S : ~ t > i
  BY TicksNat
<1> QED BY <1>1, PrevSetGreatest, ConstantTypes, TicksNat DEF BidAfter

LEMMA BestAskAfter ==
  ASSUME NEW S \in SUBSET Ticks, NEW i \in Ticks, \A t \in S : i <= t
  PROVE  IF S = {} THEN AskAfter(S, i) = NumTicks
                   ELSE AskAfter(S, i) \in S /\ \A t \in S : AskAfter(S, i) <= t
<1>1. \A t \in S : ~ t < i
  BY TicksNat
<1> QED BY <1>1, NextSetLeast, ConstantTypes, TicksNat DEF AskAfter

\* Removing an order, cancelled or reduced to nothing, keeps the caches exact
\* and moves them only apart.
LEMMA UnlinkKeepsBest ==
  ASSUME TypeOK, BestInv, NEW slot \in Slots, UnlinkAndRelease(slot)
  PROVE  BestBidCached' /\ BestAskCached' /\ NotCrossed'
<1> DEFINE idx == order[slot].idx
<1>1. idx \in Ticks
  BY DEF TypeOK, Order
<1>2. BestBidCached' /\ (bestBid' = bestBid \/ bestBid' = NPOS
                        \/ (bestBid # NPOS /\ bestBid' <= bestBid))
  <2>1. CASE UNCHANGED <<bids, bestBid>>
    BY <2>1 DEF BestInv, BestBidCached
  <2>2. CASE bids' = bids \ {idx} /\ idx = bestBid /\ bestBid' = BidAfter(bids', idx)
    <3>1. bids' \in SUBSET Ticks /\ \A t \in bids' : t <= idx
      BY <1>1, <2>2, ConstantTypes DEF BestInv, BestBidCached, TypeOK
    <3>2. BestBidCached' /\ (bids' = {} => bestBid' = NPOS)
      BY <1>1, <2>2, <3>1, BestBidAfter DEF BestBidCached
    <3>3. bestBid # NPOS /\ (bids' # {} => bestBid' <= bestBid)
      BY <1>1, <2>2, <3>1, <3>2, ConstantTypes DEF BestBidCached
    <3> QED BY <3>2, <3>3
  <2>3. CASE bids' = bids \ {idx} /\ idx # bestBid /\ bestBid' = bestBid
    BY <2>3 DEF BestInv, BestBidCached
  <2> QED BY <2>1, <2>2, <2>3 DEF UnlinkAndRelease
<1>3. BestAskCached' /\ bestAsk' >= bestAsk
  <2>0. bestAsk \in Nat
    BY TicksNat DEF TypeOK
  <2>1. CASE UNCHANGED <<asks, bestAsk>>
    BY <2>0, <2>1 DEF BestInv, BestAskCached
  <2>2. CASE asks' = asks \ {idx} /\ idx = bestAsk /\ bestAsk' = AskAfter(asks', idx)
    <3>1. asks' \in SUBSET Ticks /\ \A t \in asks' : idx <= t
      BY <1>1, <2>2, ConstantTypes DEF BestInv, BestAskCached, TypeOK
    <3>2. BestAskCached'
      BY <1>1, <2>2, <3>1, BestAskAfter DEF BestAskCached
    <3>3. bestAsk' >= bestAsk
      <4>1. idx \in Nat /\ bestAsk = idx /\ bestAsk' \in asks' \union {NumTicks}
        BY <1>1, <2>2, <3>2, TicksNat DEF BestAskCached
      <4>2. \A t \in asks' \union {NumTicks} : idx <= t
        BY <1>1, <3>1, TicksNat
      <4> QED BY <4>1, <4>2
    <3> QED BY <3>2, <3>3
  <2>3. CASE asks' = asks \ {idx} /\ idx # bestAsk /\ bestAsk' = bestAsk
    <3>1. (asks' # {} => asks # {}) /\ (asks' = {} => asks = {} \/ bestAsk \notin asks)
      BY <2>3
    <3> QED BY <2>0, <2>3, <3>1 DEF BestInv, BestAskCached
  <2> QED BY <2>1, <2>2, <2>3 DEF UnlinkAndRelease
<1>4. NotCrossed'
  <2>1. bestAsk \in Nat /\ bestAsk' \in Nat
    BY <1>3, TicksNat, UnlinkAndReleaseType DEF TypeOK
  <2>2. bestBid' # NPOS => bestBid' \in Nat
    BY TicksNat, UnlinkAndReleaseType DEF TypeOK
  <2>3. bestBid # NPOS => bestBid \in Nat
    BY TicksNat DEF TypeOK
  <2> QED BY <1>2, <1>3, <2>1, <2>2, <2>3 DEF BestInv, NotCrossed
<1> QED BY <1>2, <1>3, <1>4

LEMMA BestStep == TypeOK /\ BestInv /\ [Next]_vars => BestInv'
<1> SUFFICES ASSUME TypeOK, BestInv, [Next]_vars PROVE BestInv'
  OBVIOUS
<1> USE DEF BestInv
<1>0. TypeOK'
  BY TypeStep
<1>1. ASSUME UNCHANGED <<bids, asks, bestBid, bestAsk>>
      PROVE  BestBidCached' /\ BestAskCached' /\ NotCrossed'
  BY <1>1 DEF BestBidCached, BestAskCached, NotCrossed
<1>2. CASE UNCHANGED vars
  BY <1>1, <1>2 DEF vars, SweepAtBest
<1>3. ASSUME NEW side \in Sides, NEW idx \in 0..NumTicks, NEW qty \in 0..MaxQty,
             NEW postOnly \in BOOLEAN, NewOrder(side, idx, qty, postOnly)
      PROVE  BestInv'
  BY <1>1, <1>3 DEF NewOrder, Refused, Reject, Start, bookVars, SweepAtBest
<1>4. ASSUME NEW side \in Sides, NEW idx \in 0..NumTicks, NEW display \in 0..MaxQty,
             NEW total \in 0..MaxQty, NewIceberg(side, idx, display, total)
      PROVE  BestInv'
  BY <1>1, <1>4 DEF NewIceberg, Reject, Start, bookVars, SweepAtBest
<1>5. CASE EnterSweep
  <2>1. SweepAtBest'
    <3>1. taker.side = "Buy" => bestAsk < NumTicks
      BY <1>5, TicksNat DEF EnterSweep, Crosses, TypeOK, Taker
    <3> QED BY <1>5, <3>1, TicksNat
            DEF EnterSweep, bookVars, Crosses, SweepAtBest, BestAskCached, BestBidCached
  <2> QED BY <1>1, <1>5, <2>1 DEF EnterSweep, bookVars
<1>6. CASE TakerFilled
  BY <1>1, <1>6 DEF TakerFilled, bookVars, SweepAtBest
<1>7. CASE FillPart
  BY <1>1, <1>7 DEF FillPart, SweepAtBest, TypeOK, Taker
<1>8. CASE FillReload
  BY <1>1, <1>8 DEF FillReload, SweepAtBest, TypeOK, Taker
<1>9. CASE FillRelease
  BY <1>1, <1>9 DEF FillRelease, SweepAtBest, TypeOK, Taker
<1>10. CASE LeaveSweep
  <2>0. SweepAtBest'
    BY <1>10 DEF LeaveSweep, SweepAtBest
  <2>1. CASE UNCHANGED <<bids, asks, bestBid, bestAsk>>
    BY <1>1, <2>0, <2>1
  <2>2. CASE /\ taker.side = "Buy" /\ asks' = asks \ {sweep}
             /\ bestAsk' = AskAfter(asks', sweep) /\ UNCHANGED <<bids, bestBid>>
    <3>1. sweep = bestAsk /\ sweep \in Ticks /\ \A t \in asks : sweep <= t
      BY <1>10, <2>2 DEF LeaveSweep, SweepAtBest, TypeOK, BestAskCached
    <3>2. BestAskCached' /\ bestAsk' >= bestAsk
      <4>1. asks' \in SUBSET Ticks /\ \A t \in asks' : sweep <= t
        BY <2>2, <3>1 DEF TypeOK
      <4>2. BestAskCached'
        BY <2>2, <3>1, <4>1, BestAskAfter DEF BestAskCached
      <4>3. bestAsk' >= bestAsk
        BY <3>1, <4>1, <4>2, TicksNat DEF BestAskCached
      <4> QED BY <4>2, <4>3
    <3>3. BestBidCached' /\ NotCrossed'
      <4>1. bestAsk \in Nat /\ bestAsk' \in Nat /\ (bestBid # NPOS => bestBid \in Nat)
        BY <1>0, TicksNat DEF TypeOK
      <4> QED BY <2>2, <3>2, <4>1 DEF BestBidCached, NotCrossed
    <3> QED BY <2>0, <3>2, <3>3
  <2>3. CASE /\ taker.side # "Buy" /\ bids' = bids \ {sweep}
             /\ bestBid' = BidAfter(bids', sweep) /\ UNCHANGED <<asks, bestAsk>>
    <3>1. sweep = bestBid /\ sweep \in Ticks /\ \A t \in bids : t <= sweep
      BY <1>10, <2>3 DEF LeaveSweep, SweepAtBest, TypeOK, BestBidCached
    <3>2. BestBidCached' /\ (bestBid' = NPOS \/ bestBid' <= bestBid)
      BY <2>3, <3>1, BestBidAfter, TicksNat DEF BestBidCached, TypeOK
    <3>3. BestAskCached'
      BY <2>3 DEF BestAskCached
    <3>4. NotCrossed'
      <4>1. bestBid # NPOS /\ bestBid \in Nat /\ bestAsk \in Nat
        BY <3>1, TicksNat, ConstantTypes DEF TypeOK
      <4>2. bestBid' \in Ticks \union {NPOS} /\ bestAsk' = bestAsk
        BY <1>0, <2>3 DEF TypeOK
      <4> QED BY <3>2, <4>1, <4>2, TicksNat DEF NotCrossed
    <3> QED BY <2>0, <3>2, <3>3, <3>4
  <2> QED BY <1>10, <2>1, <2>2, <2>3 DEF LeaveSweep
<1>11. CASE Rest
  <2>0. SweepAtBest' /\ taker.idx \in Ticks /\ ~Crosses(taker.side, taker.idx)
    BY <1>11 DEF Rest, Resting, SweepAtBest, TypeOK, Taker
  <2>1. CASE taker.side = "Buy"
    <3>1. taker.idx < bestAsk /\ UNCHANGED <<asks, bestAsk>> /\ bids' = bids \union {taker.idx}
          /\ bestBid' = IF bestBid = NPOS \/ taker.idx > bestBid THEN taker.idx ELSE bestBid
      <4>1. bestAsk \in Nat /\ taker.idx \in Nat /\ ~ bestAsk <= taker.idx
        BY <2>0, <2>1, TicksNat DEF Crosses, TypeOK
      <4> QED BY <1>11, <2>1, <4>1 DEF Rest, MarkOccupied
    <3>2. BestAskCached'
      BY <3>1 DEF BestAskCached
    <3>4. BestBidCached'
      <4>1. CASE bestBid = NPOS
        <5>1. bids = {} /\ bestBid' = taker.idx
          BY <3>1, <4>1, ConstantTypes DEF BestBidCached, TypeOK
        <5> QED BY <2>0, <3>1, <5>1, TicksNat DEF BestBidCached
      <4>2. CASE bestBid # NPOS
        <5>1. bestBid \in bids /\ bestBid \in Nat /\ \A t \in bids : t \in Nat /\ t <= bestBid
          BY <4>2, TicksNat DEF BestBidCached, TypeOK
        <5> QED BY <2>0, <3>1, <4>2, <5>1, TicksNat DEF BestBidCached
      <4> QED BY <4>1, <4>2
    <3>3. NotCrossed'
      BY <2>0, <3>1 DEF NotCrossed
    <3> QED BY <2>0, <3>2, <3>3, <3>4
  <2>2. CASE taker.side # "Buy"
    <3>1. (bestBid = NPOS \/ bestBid < taker.idx) /\ UNCHANGED <<bids, bestBid>>
          /\ asks' = asks \union {taker.idx}
          /\ bestAsk' = IF taker.idx < bestAsk THEN taker.idx ELSE bestAsk
      <4>1. taker.idx \in Nat /\ (bestBid # NPOS => bestBid \in Nat /\ ~ bestBid >= taker.idx)
        BY <2>0, <2>2, TicksNat DEF Crosses, TypeOK
      <4>2. MarkOccupied(taker.side, taker.idx)
        BY <1>11 DEF Rest
      <4> QED BY <2>2, <4>1, <4>2 DEF MarkOccupied
    <3>2. BestBidCached' /\ BestAskCached'
      <4>1. \A t \in asks : t \in Nat
        BY TicksNat DEF TypeOK
      <4>2. bestAsk \in Nat /\ taker.idx \in Nat /\ taker.idx < NumTicks
        BY <2>0, TicksNat DEF TypeOK
      <4>3. BestAskCached'
        BY <3>1, <4>1, <4>2 DEF BestAskCached
      <4> QED BY <3>1, <4>3 DEF BestBidCached
    <3>3. NotCrossed'
      BY <2>0, <3>1 DEF NotCrossed
    <3> QED BY <2>0, <3>2, <3>3
  <2> QED BY <2>1, <2>2
<1>12. CASE RestExhausted
  BY <1>1, <1>12 DEF RestExhausted, bookVars, SweepAtBest
<1>13. ASSUME NEW id \in HeldIds, Cancel(id)
       PROVE  BestInv'
  <2>0. SweepAtBest'
    BY <1>13 DEF Cancel, SweepAtBest
  <2>1. CASE NotFound
    BY <1>1, <2>0, <2>1 DEF NotFound, bookVars
  <2>2. CASE Accepts(id) /\ UnlinkAndRelease(id[1])
    BY <2>0, <2>2, UnlinkKeepsBest DEF Accepts
  <2> QED BY <1>13, <2>1, <2>2 DEF Cancel
<1>14. ASSUME NEW id \in HeldIds, NEW q \in 0..MaxQty, Reduce(id, q)
       PROVE  BestInv'
  <2>0. SweepAtBest'
    BY <1>14 DEF Reduce, SweepAtBest
  <2>1. CASE NotFound
    BY <1>1, <2>0, <2>1 DEF NotFound, bookVars
  <2>2. CASE Accepts(id) /\ ReducePart(id[1], q)
    BY <1>1, <2>0, <2>2 DEF ReducePart
  <2>3. CASE Accepts(id) /\ ReduceAll(id[1])
    BY <2>0, <2>3, UnlinkKeepsBest DEF Accepts, ReduceAll
  <2> QED BY <1>14, <2>1, <2>2, <2>3 DEF Reduce
<1> QED BY <1>2, <1>3, <1>4, <1>5, <1>6, <1>7, <1>8, <1>9, <1>10, <1>11, <1>12,
           <1>13, <1>14 DEF Next, Engine, Calls

LEMMA BestCorrect == Spec => []BestInv
<1>1. Init => BestInv
  BY DEF Init, BestInv, BestBidCached, BestAskCached, NotCrossed, SweepAtBest
<1> QED BY <1>1, TypeInit, TypeStep, BestStep, PTL DEF Spec

\* The book never stands crossed: the loops of new_order trade away whatever a
\* resting order would cross, and nothing else adds to a side.
THEOREM NeverCrossed == Spec => []NotCrossed
BY BestCorrect, PTL DEF BestInv

\* best_bid_ and best_ask_ always equal what the bitmaps say.
THEOREM BestCachesExact == Spec => []BestCached
BY BestCorrect, PTL DEF BestInv, BestCached

-----------------------------------------------------------------------------
(* The sum of a quantity over a set of slots *)

\* f adds up the weights w of any set of slots.
IsTotal(f, w) ==
  /\ f \in [SUBSET Slots -> Int] /\ f[{}] = 0
  /\ \A A \in SUBSET Slots : \A x \in A : f[A] = f[A \ {x}] + w[x]

Total(w) == CHOOSE f : IsTotal(f, w)

LEMMA SlotsFinite == PoolCap \in Nat /\ IsFiniteSet(Slots)
BY BookAssumption, FS_Interval DEF Slots

LEMMA TotalIs ==
  ASSUME NEW w \in [Slots -> Int]
  PROVE  IsTotal(Total(w), w)
<1> DEFINE adds(f, n) == /\ f \in [SUBSET (1 .. n) -> Int] /\ f[{}] = 0
                         /\ \A A \in SUBSET (1 .. n) : \A x \in A : f[A] = f[A \ {x}] + w[x]
           some(n) == \E f : adds(f, n)
           bad == {n \in Nat : n <= PoolCap /\ ~ some(n)}
<1>1. bad = {}
  <2> SUFFICES ASSUME bad # {} PROVE FALSE
    OBVIOUS
  <2>1. PICK n \in bad : \A m \in bad : n <= m
    <3> HIDE DEF bad
    <3>1. bad \in SUBSET Nat
      BY DEF bad
    <3> QED BY <3>1, NatLeast
  <2>2. n \in Nat /\ n <= PoolCap /\ PoolCap \in Nat /\ ~ some(n)
    <3> HIDE DEF some
    <3> QED BY <2>1, SlotsFinite
  <2>3. CASE n = 0
    <3> DEFINE f == [A \in SUBSET (1 .. 0) |-> 0]
    <3>1. 1 .. 0 = {}
      OBVIOUS
    <3>2. adds(f, 0)
      BY <3>1
    <3> QED BY <2>2, <2>3, <3>2
  <2>4. CASE n # 0
    <3>1. some(n - 1)
      <4> HIDE DEF some
      <4>1. n - 1 \in Nat /\ n - 1 <= PoolCap /\ ~ (n <= n - 1)
        BY <2>2, <2>4
      <4>2. n - 1 \notin bad
        BY <2>1, <4>1
      <4> QED BY <4>1, <4>2
    <3>2. PICK f : adds(f, n - 1)
      BY <3>1
    <3> DEFINE g == [A \in SUBSET (1 .. n) |-> IF n \in A THEN f[A \ {n}] + w[n] ELSE f[A]]
    <3>3. 1 .. n - 1 = (1 .. n) \ {n} /\ n \in 1 .. n /\ n \in Slots
      BY <2>2, <2>4 DEF Slots
    <3>4. ASSUME NEW A \in SUBSET (1 .. n)
          PROVE  A \ {n} \in SUBSET (1 .. n - 1) /\ (n \notin A => A \in SUBSET (1 .. n - 1))
      BY <3>3
    <3>5. \A i \in 1 .. n : w[i] \in Int
      BY <2>2 DEF Slots
    <3>6. g \in [SUBSET (1 .. n) -> Int] /\ g[{}] = 0
      BY <3>2, <3>3, <3>4, <3>5
    <3>7. ASSUME NEW A \in SUBSET (1 .. n), NEW x \in A
          PROVE  g[A] = g[A \ {x}] + w[x]
      <4>1. A \ {x} \in SUBSET (1 .. n) /\ w[x] \in Int /\ w[n] \in Int
        BY <3>3, <3>5
      <4>2. CASE n \notin A
        BY <3>2, <3>4, <4>1, <4>2
      <4>3. CASE x = n
        BY <4>1, <4>3
      <4>4. CASE n \in A /\ x # n
        <5>1. x \in A \ {n} /\ (A \ {x}) \ {n} = (A \ {n}) \ {x} /\ n \in A \ {x}
          BY <4>4
        <5>2. f[A \ {n}] = f[(A \ {n}) \ {x}] + w[x]
          BY <3>2, <3>4, <5>1
        <5>3. f[(A \ {n}) \ {x}] \in Int
          <6>1. (A \ {n}) \ {x} \in SUBSET (1 .. n - 1)
            BY <3>4
          <6> QED BY <3>2, <6>1
        <5>4. g[A] = f[A \ {n}] + w[n] /\ g[A \ {x}] = f[(A \ {x}) \ {n}] + w[n]
          BY <4>1, <4>4, <5>1
        <5>5. f[(A \ {x}) \ {n}] = f[(A \ {n}) \ {x}]
          BY <5>1
        <5> QED BY <4>1, <5>2, <5>3, <5>4, <5>5
      <4> QED BY <4>2, <4>3, <4>4
    <3>8. adds(g, n)
      <4> HIDE DEF g
      <4> QED BY <3>6, <3>7
    <3>9. some(n)
      <4> HIDE DEF adds
      <4> QED BY <3>8
    <3> QED BY <2>2, <3>9
  <2> QED BY <2>3, <2>4
<1>2. some(PoolCap)
  <2> HIDE DEF some
  <2> QED BY <1>1, SlotsFinite
<1>3. \E f : IsTotal(f, w)
  BY <1>2 DEF IsTotal, Slots
<1> QED BY <1>3 DEF Total

\* The sums of two weights agree where the weights do.
LEMMA TotalLocal ==
  ASSUME NEW v, NEW w, NEW f, NEW g, IsTotal(f, v), IsTotal(g, w),
         NEW A \in SUBSET Slots, \A s \in A : v[s] = w[s]
  PROVE  f[A] = g[A]
<1> DEFINE bad == {k \in Nat : \E B \in SUBSET A : IsFiniteSet(B) /\ Cardinality(B) = k /\ f[B] # g[B]}
<1>1. CASE bad = {}
  <2>1. IsFiniteSet(A) /\ Cardinality(A) \in Nat
    BY SlotsFinite, FS_Subset, FS_CardinalityType
  <2> QED BY <1>1, <2>1
<1>2. CASE bad # {}
  <2>1. PICK k \in bad : \A m \in bad : k <= m
    <3> HIDE DEF bad
    <3>1. bad \in SUBSET Nat
      BY DEF bad
    <3> QED BY <1>2, <3>1, NatLeast
  <2>2. PICK B \in SUBSET A : IsFiniteSet(B) /\ Cardinality(B) = k /\ f[B] # g[B]
    BY <2>1
  <2>3. B # {}
    BY <2>2 DEF IsTotal
  <2>4. PICK x \in B : TRUE
    BY <2>3
  <2>5. IsFiniteSet(B \ {x}) /\ Cardinality(B \ {x}) = k - 1 /\ Cardinality(B \ {x}) \in Nat
    BY <2>2, <2>4, FS_RemoveElement, FS_CardinalityType
  <2>6. k \in Nat /\ ~ (k <= k - 1)
    BY <2>1
  <2>7. f[B \ {x}] = g[B \ {x}]
    <3>1. B \ {x} \in SUBSET A
      BY <2>2
    <3>2. k - 1 \notin bad
      BY <2>1, <2>6
    <3> QED BY <2>5, <3>1, <3>2
  <2>8. f[B] = f[B \ {x}] + v[x] /\ g[B] = g[B \ {x}] + w[x] /\ v[x] = w[x]
    BY <2>2, <2>4 DEF IsTotal
  <2> QED BY <2>2, <2>7, <2>8
<1> QED BY <1>1, <1>2

\* One slot comes, goes or changes its weight.
LEMMA TotalChange ==
  ASSUME NEW v \in [Slots -> Int], NEW w \in [Slots -> Int], NEW s \in Slots,
         \A x \in Slots : x # s => v[x] = w[x],
         NEW A \in SUBSET Slots, NEW B \in SUBSET Slots, A \ {s} = B \ {s}
  PROVE  /\ Total(v)[A] \in Int /\ Total(w)[B] \in Int
         /\ Total(w)[B] = Total(v)[A] - (IF s \in A THEN v[s] ELSE 0) + (IF s \in B THEN w[s] ELSE 0)
<1> DEFINE f == Total(v)
           g == Total(w)
<1>1. IsTotal(f, v) /\ IsTotal(g, w)
  BY TotalIs
<1> HIDE DEF f, g
<1>2. f[A \ {s}] = g[A \ {s}]
  BY <1>1, TotalLocal
<1>3. f[A] \in Int /\ g[B] \in Int /\ f[A \ {s}] \in Int /\ v[s] \in Int /\ w[s] \in Int
  BY <1>1 DEF IsTotal
<1>4. f[A] = f[A \ {s}] + (IF s \in A THEN v[s] ELSE 0)
  <2>1. CASE s \in A
    BY <1>1, <2>1 DEF IsTotal
  <2>2. CASE s \notin A
    <3>1. f[A \ {s}] = f[A]
      BY <2>2, A \ {s} = A
    <3> QED BY <1>3, <2>2, <3>1
  <2> QED BY <2>1, <2>2
<1>5. g[B] = g[B \ {s}] + (IF s \in B THEN w[s] ELSE 0)
  <2>1. CASE s \in B
    BY <1>1, <2>1 DEF IsTotal
  <2>2. CASE s \notin B
    <3>1. g[B \ {s}] = g[B]
      BY <2>2, B \ {s} = B
    <3> QED BY <1>3, <2>2, <3>1
  <2> QED BY <2>1, <2>2
<1>6. g[B] = f[A] - (IF s \in A THEN v[s] ELSE 0) + (IF s \in B THEN w[s] ELSE 0)
  <2> DEFINE a == IF s \in A THEN v[s] ELSE 0
             b == IF s \in B THEN w[s] ELSE 0
  <2>1. a \in Int /\ b \in Int
    BY <1>3
  <2>2. f[A] = f[A \ {s}] + a /\ g[B] = f[A \ {s}] + b
    BY <1>2, <1>4, <1>5
  <2> HIDE DEF a, b
  <2>3. g[B] = f[A] - a + b
    BY <1>3, <2>1, <2>2
  <2> QED BY <2>3 DEF a, b
<1> QED BY <1>3, <1>6 DEF f, g

\* Folding over a queue that holds no slot twice adds up its slots.
LEMMA FoldIsTotal ==
  ASSUME NEW q \in Seq(Slots), IsInjective(q), NEW w \in [Slots -> Int],
         NEW f \in [Slots -> Order], \A s \in Slots : w[s] = f[s].qty
  PROVE  FoldSeq(LAMBDA s, sum : sum + f[s].qty, 0, q) = Total(w)[ToSet(q)]
<1> DEFINE S == DOMAIN q
           pick(A) == CHOOSE x \in A : TRUE
           next(g, A) == IF A = {} THEN 0 ELSE g[A \ {pick(A)}] + f[q[pick(A)]].qty
           folds(g) == g = [A \in SUBSET S |-> next(g, A)]
           iter == CHOOSE g : folds(g)
           img(A) == {q[i] : i \in A}
           T == Total(w)
           h == [A \in SUBSET S |-> T[img(A)]]
<1>1. FoldSeq(LAMBDA s, sum : sum + f[s].qty, 0, q) = iter[S]
  BY DEF FoldSeq, FoldFunction, FoldFunctionOnSet, MapThenFoldSet
<1>2. IsTotal(T, w)
  BY TotalIs
<1>3. S = 1 .. Len(q) /\ Len(q) \in Nat /\ \A i \in S : q[i] \in Slots
  OBVIOUS
<1>4. ToSet(q) = img(S)
  BY DEF ToSet
<1>5. ASSUME NEW A \in SUBSET S PROVE img(A) \in SUBSET Slots
  BY <1>3
<1>6. ASSUME NEW A \in SUBSET S, NEW x \in A
      PROVE  T[img(A)] = T[img(A \ {x})] + f[q[x]].qty
  <2>1. img(A \ {x}) = img(A) \ {q[x]} /\ q[x] \in img(A) /\ q[x] \in Slots
    BY <1>3 DEF IsInjective
  <2>2. T[img(A)] = T[img(A) \ {q[x]}] + w[q[x]]
    <3> HIDE DEF T, img
    <3> QED BY <1>2, <1>5, <2>1 DEF IsTotal
  <2> QED BY <2>1, <2>2
<1>7. ASSUME NEW A \in SUBSET S, A # {} PROVE pick(A) \in A
  BY <1>7
<1>8. img({}) = {}
  OBVIOUS
<1>9. folds(h)
  <2>1. ASSUME NEW A \in SUBSET S PROVE h[A] = next(h, A)
    <3>1. CASE A = {}
      BY <1>2, <1>8, <3>1 DEF IsTotal
    <3>2. CASE A # {}
      <4>1. pick(A) \in A /\ A \ {pick(A)} \in SUBSET S
        BY <1>7, <3>2
      <4> HIDE DEF pick, T, img
      <4> QED BY <1>6, <3>2, <4>1
    <3> QED BY <3>1, <3>2
  <2>2. h = [A \in SUBSET S |-> h[A]]
    OBVIOUS
  <2> HIDE DEF h, next
  <2> QED BY <2>1, <2>2
<1>10. folds(iter)
  <2> HIDE DEF folds
  <2> QED BY <1>9
<1> HIDE DEF iter, h, T
<1>11. iter[S] = T[img(S)]
  <2> DEFINE bad == {k \in Nat : \E A \in SUBSET S : IsFiniteSet(A) /\ Cardinality(A) = k /\ iter[A] # T[img(A)]}
  <2>1. CASE bad = {}
    <3>1. IsFiniteSet(S) /\ Cardinality(S) \in Nat
      BY <1>3, FS_Interval, FS_CardinalityType
    <3> QED BY <2>1, <3>1
  <2>2. CASE bad # {}
    <3>1. PICK k \in bad : \A m \in bad : k <= m
      <4> HIDE DEF bad
      <4>1. bad \in SUBSET Nat
        BY DEF bad
      <4> QED BY <2>2, <4>1, NatLeast
    <3>2. PICK A \in SUBSET S : IsFiniteSet(A) /\ Cardinality(A) = k /\ iter[A] # T[img(A)]
      BY <3>1
    <3>3. iter[A] = next(iter, A)
      BY <1>10
    <3>4. A # {}
      BY <1>2, <1>8, <3>2, <3>3 DEF IsTotal
    <3> DEFINE x == pick(A)
    <3>5. x \in A
      BY <1>7, <3>4
    <3>6. iter[A] = iter[A \ {x}] + f[q[x]].qty
      BY <3>3, <3>4
    <3> HIDE DEF x
    <3>7. IsFiniteSet(A \ {x}) /\ Cardinality(A \ {x}) = k - 1 /\ Cardinality(A \ {x}) \in Nat
      BY <3>2, <3>5, FS_RemoveElement, FS_CardinalityType
    <3>8. k - 1 \notin bad /\ A \ {x} \in SUBSET S
      <4> HIDE DEF bad
      <4>1. k \in Nat /\ ~ (k <= k - 1)
        BY <3>1 DEF bad
      <4> QED BY <3>1, <4>1
    <3>9. iter[A \ {x}] = T[img(A \ {x})]
      BY <3>7, <3>8
    <3> QED BY <1>6, <3>2, <3>5, <3>6, <3>9
  <2> QED BY <2>1, <2>2
<1> QED BY <1>1, <1>4, <1>11 DEF T

-----------------------------------------------------------------------------
(* Queues that hold no slot twice *)

LEMMA SeqTail ==
  ASSUME NEW q \in Seq(Slots), q # <<>>, IsInjective(q)
  PROVE  /\ Tail(q) \in Seq(Slots) /\ IsInjective(Tail(q))
         /\ ToSet(Tail(q)) = ToSet(q) \ {Head(q)}
         /\ Head(q) \in ToSet(q) /\ Head(q) \in Slots
<1> DEFINE r == Tail(q)
<1>1. /\ Len(q) \in Nat /\ Len(q) > 0 /\ DOMAIN q = 1 .. Len(q) /\ Head(q) = q[1] /\ 1 \in DOMAIN q
      /\ r \in Seq(Slots) /\ Len(r) = Len(q) - 1 /\ DOMAIN r = 1 .. Len(q) - 1
      /\ \A i \in 1 .. Len(q) - 1 : r[i] = q[i + 1] /\ i + 1 \in DOMAIN q
  OBVIOUS
<1> HIDE DEF r
<1>2. \A i, j \in DOMAIN q : q[i] = q[j] => i = j
  BY DEF IsInjective
<1>3. IsInjective(r)
  <2> SUFFICES ASSUME NEW i \in DOMAIN r, NEW j \in DOMAIN r, r[i] = r[j] PROVE i = j
    BY DEF IsInjective
  <2>1. i + 1 = j + 1 /\ i \in Nat /\ j \in Nat
    BY <1>1, <1>2
  <2> QED BY <2>1
<1>4. ToSet(r) \subseteq ToSet(q) \ {Head(q)}
  <2> SUFFICES ASSUME NEW i \in DOMAIN r PROVE r[i] \in ToSet(q) \ {Head(q)}
    BY DEF ToSet
  <2>1. r[i] = q[i + 1] /\ i + 1 \in DOMAIN q /\ i + 1 # 1
    BY <1>1
  <2> QED BY <1>1, <1>2, <2>1 DEF ToSet
<1>5. ToSet(q) \ {Head(q)} \subseteq ToSet(r)
  <2> SUFFICES ASSUME NEW i \in DOMAIN q, q[i] # Head(q) PROVE q[i] \in ToSet(r)
    BY DEF ToSet
  <2>1. i - 1 \in DOMAIN r /\ (i - 1) + 1 = i
    BY <1>1
  <2>2. r[i - 1] = q[i]
    BY <1>1, <2>1
  <2> QED BY <2>1, <2>2 DEF ToSet
<1>6. Head(q) \in ToSet(q) /\ Head(q) \in Slots
  BY <1>1 DEF ToSet
<1> QED BY <1>1, <1>3, <1>4, <1>5, <1>6 DEF r

LEMMA SeqAppend ==
  ASSUME NEW q \in Seq(Slots), IsInjective(q), NEW s \in Slots, s \notin ToSet(q)
  PROVE  /\ Append(q, s) \in Seq(Slots) /\ IsInjective(Append(q, s))
         /\ ToSet(Append(q, s)) = ToSet(q) \union {s} /\ Append(q, s) # <<>>
<1> DEFINE r == Append(q, s)
           n == Len(q) + 1
<1>1. /\ Len(q) \in Nat /\ DOMAIN q = 1 .. Len(q)
      /\ r \in Seq(Slots) /\ DOMAIN r = 1 .. n /\ r[n] = s /\ \A i \in DOMAIN q : r[i] = q[i]
  OBVIOUS
<1> HIDE DEF r
<1>2. \A i \in DOMAIN r : i \in DOMAIN q \/ i = n
  BY <1>1
<1>3. n \in DOMAIN r /\ DOMAIN q \subseteq DOMAIN r /\ r # <<>>
  BY <1>1
<1>4. \A i \in DOMAIN q : q[i] # s
  BY DEF ToSet
<1>5. IsInjective(r)
  BY <1>1, <1>2, <1>4 DEF IsInjective
<1>6. ToSet(r) = ToSet(q) \union {s}
  BY <1>1, <1>2, <1>3 DEF ToSet
<1> QED BY <1>1, <1>3, <1>5, <1>6 DEF r

LEMMA SeqPush ==
  ASSUME NEW q \in Seq(Slots), IsInjective(q), NEW s \in Slots, s \notin ToSet(q)
  PROVE  IsInjective(<<s>> \o q) /\ ToSet(<<s>> \o q) = ToSet(q) \union {s}
<1> DEFINE r == <<s>> \o q
<1>1. /\ Len(q) \in Nat /\ DOMAIN q = 1 .. Len(q)
      /\ DOMAIN r = 1 .. Len(q) + 1 /\ r[1] = s /\ \A i \in DOMAIN q : r[i + 1] = q[i]
  OBVIOUS
<1> HIDE DEF r
<1>2. \A i \in DOMAIN r : i = 1 \/ (i - 1 \in DOMAIN q /\ r[i] = q[i - 1])
  <2> SUFFICES ASSUME NEW i \in DOMAIN r, i # 1 PROVE i - 1 \in DOMAIN q /\ r[i] = q[i - 1]
    OBVIOUS
  <2>1. i - 1 \in DOMAIN q /\ (i - 1) + 1 = i
    BY <1>1
  <2> QED BY <1>1, <2>1
<1>3. 1 \in DOMAIN r /\ \A i \in DOMAIN q : i + 1 \in DOMAIN r
  BY <1>1
<1>4. \A i \in DOMAIN q : q[i] # s
  BY DEF ToSet
<1>5. IsInjective(r)
  <2> SUFFICES ASSUME NEW i \in DOMAIN r, NEW j \in DOMAIN r, r[i] = r[j] PROVE i = j
    BY DEF IsInjective
  <2>1. i \in Int /\ j \in Int
    BY <1>1
  <2>2. i = 1 <=> j = 1
    BY <1>1, <1>2, <1>4
  <2>3. i # 1 => i - 1 = j - 1
    BY <1>2, <2>2 DEF IsInjective
  <2> QED BY <2>1, <2>2, <2>3
<1>6. ToSet(r) = ToSet(q) \union {s}
  BY <1>1, <1>2, <1>3 DEF ToSet
<1> QED BY <1>5, <1>6 DEF r

\* The intrusive unlink takes one slot out and keeps the others' order.
LEMMA SeqUnlink ==
  ASSUME NEW q \in Seq(Slots), IsInjective(q), NEW s \in ToSet(q)
  PROVE  /\ Unlinked(q, s) \in Seq(Slots) /\ IsInjective(Unlinked(q, s))
         /\ ToSet(Unlinked(q, s)) = ToSet(q) \ {s}
<1> DEFINE p == CHOOSE i \in DOMAIN q : q[i] = s
           r == Unlinked(q, s)
           at(i) == IF i < p THEN i ELSE i + 1
<1>1. p \in DOMAIN q /\ q[p] = s
  BY DEF ToSet
<1>2. Len(q) \in Nat /\ DOMAIN q = 1 .. Len(q) /\ p \in 1 .. Len(q)
  BY <1>1
<1> HIDE DEF p
<1>3. r = [i \in 1 .. Len(q) - 1 |-> q[at(i)]]
  BY DEF Unlinked, p
<1>4. r \in Seq(Slots)
  <2>1. s \in Slots
    BY <1>1
  <2> QED BY <2>1, UnlinkedType
<1>5. DOMAIN r = 1 .. Len(q) - 1 /\ \A i \in 1 .. Len(q) - 1 : r[i] = q[at(i)]
  BY <1>3
<1>6. \A i \in 1 .. Len(q) - 1 : at(i) \in DOMAIN q /\ at(i) # p
  BY <1>2
<1>7. \A i, j \in 1 .. Len(q) - 1 : at(i) = at(j) => i = j
  BY <1>2
<1>8. \A n \in DOMAIN q : n # p => \E i \in 1 .. Len(q) - 1 : at(i) = n
  <2> SUFFICES ASSUME NEW n \in DOMAIN q, n # p PROVE \E i \in 1 .. Len(q) - 1 : at(i) = n
    OBVIOUS
  <2>1. CASE n < p
    BY <1>2, <2>1
  <2>2. CASE n > p
    <3>1. n - 1 \in 1 .. Len(q) - 1 /\ at(n - 1) = n
      BY <1>2, <2>2
    <3> QED BY <3>1
  <2> QED BY <1>2, <2>1, <2>2
<1> HIDE DEF at, r
<1>9. IsInjective(r)
  <2> SUFFICES ASSUME NEW i \in DOMAIN r, NEW j \in DOMAIN r, r[i] = r[j] PROVE i = j
    BY DEF IsInjective
  <2>1. at(i) = at(j)
    BY <1>5, <1>6 DEF IsInjective
  <2> QED BY <1>5, <1>7, <2>1
<1>10. ToSet(r) \subseteq ToSet(q) \ {s}
  <2> SUFFICES ASSUME NEW i \in DOMAIN r PROVE r[i] \in ToSet(q) \ {s}
    BY DEF ToSet
  <2>1. r[i] = q[at(i)] /\ at(i) \in DOMAIN q /\ at(i) # p
    BY <1>5, <1>6
  <2> QED BY <1>1, <2>1 DEF ToSet, IsInjective
<1>11. ToSet(q) \ {s} \subseteq ToSet(r)
  <2> SUFFICES ASSUME NEW n \in DOMAIN q, q[n] # s PROVE q[n] \in ToSet(r)
    BY DEF ToSet
  <2>1. PICK i \in 1 .. Len(q) - 1 : at(i) = n
    BY <1>1, <1>8
  <2> QED BY <1>5, <2>1 DEF ToSet
<1> QED BY <1>4, <1>9, <1>10, <1>11 DEF r

\* The maker at the front of a sweep, with those the sweep refilled behind.
LEMMA SeqFront ==
  ASSUME NEW a \in Seq(Slots), NEW b \in Seq(Slots), a # <<>>
  PROVE  /\ a \o b \in Seq(Slots) /\ a \o b # <<>>
         /\ Head(a \o b) = Head(a) /\ Tail(a \o b) = Tail(a) \o b
         /\ \A s \in Slots : Tail(a) \o Append(b, s) = Append(Tail(a) \o b, s)
<1>1. a \o b \in Seq(Slots) /\ a \o b # <<>> /\ Head(a \o b) = Head(a)
  OBVIOUS
<1>2. Tail(a \o b) = Tail(a) \o b
  OBVIOUS
<1>3. \A s \in Slots : Tail(a) \o Append(b, s) = Append(Tail(a) \o b, s)
  OBVIOUS
<1> QED BY <1>1, <1>2, <1>3

-----------------------------------------------------------------------------
(* Every slot in one place, every level of one side, every total exact *)

\* The slot holds a resting order, of the level at t.
Held(s) == gens[s] % 2 = 1
At(t) == {s \in Slots : Held(s) /\ order[s].idx = t}

Quantities == [s \in Slots |-> order[s].qty]

FreeExact == IsInjective(free) /\ ToSet(free) = {s \in Slots : ~Held(s)}

QueuesExact == \A t \in Ticks : IsInjective(Queue(t)) /\ ToSet(Queue(t)) = At(t)

Marked(s) ==
  /\ order[s].idx \in Marks(order[s].side) /\ order[s].qty > 0
  /\ order[s].hidden > 0 => order[s].display > 0

MarksExact ==
  /\ \A s \in Slots : Held(s) => Marked(s)
  /\ bids \intersect asks = {}
  /\ \A t \in bids \union asks : At(t) # {} \/ (pc = "sweep" /\ t = sweep)

TotalsExact == \A t \in Ticks : totalQty[t] = Total(Quantities)[At(t)]

BookInv == FreeExact /\ QueuesExact /\ MarksExact /\ TotalsExact

LEMMA BookTypes ==
  ASSUME TypeOK
  PROVE  /\ \A t \in Ticks : Queue(t) \in Seq(Slots) /\ levels[t] \in Seq(Slots) /\ totalQty[t] \in Int
         /\ \A s \in Slots : /\ order[s] \in Order /\ order[s].idx \in Ticks /\ order[s].side \in Sides
                             /\ order[s].qty \in Nat /\ order[s].hidden \in Nat
                             /\ order[s].display \in Nat /\ gens[s] \in Nat
         /\ Quantities \in [Slots -> Int]
BY DEF TypeOK, Queue, Order, Quantities

\* The slot's generation is counted up.
LEMMA Bumped ==
  ASSUME TypeOK, NEW s \in Slots, gens' = [gens EXCEPT ![s] = @ + 1]
  PROVE  /\ gens'[s] = gens[s] + 1 /\ (Held(s)' <=> ~Held(s))
         /\ \A x \in Slots : x # s => gens'[x] = gens[x] /\ (Held(x)' <=> Held(x))
<1>1. gens[s] \in Nat /\ gens'[s] = gens[s] + 1 /\ \A x \in Slots : x # s => gens'[x] = gens[x]
  BY DEF TypeOK
<1>2. \A g \in Nat : (g + 1) % 2 = 1 <=> ~ (g % 2 = 1)
  OBVIOUS
<1>3. (gens[s] + 1) % 2 = 1 <=> ~ (gens[s] % 2 = 1)
  BY <1>1, <1>2
<1> QED BY <1>1, <1>3 DEF Held

\* What a step that works on one slot of the level i does to the levels' orders.
LEMMA AtStep ==
  ASSUME TypeOK, NEW s \in Slots, NEW i \in Ticks,
         \A x \in Slots : x # s => order'[x] = order[x] /\ (Held(x)' <=> Held(x)),
         Held(s) => order[s].idx = i, Held(s)' => order'[s].idx = i
  PROVE  /\ At(i)' = IF Held(s)' THEN At(i) \union {s} ELSE At(i) \ {s}
         /\ \A t \in Ticks : t # i => At(t)' = At(t)
         /\ \A t \in Ticks : At(t)' \ {s} = At(t) \ {s}
<1>1. \A t \in Ticks : \A x \in Slots : x # s => (x \in At(t)' <=> x \in At(t))
  BY DEF At
<1>2. \A t \in Ticks : s \in At(t) => t = i
  BY DEF At
<1>3. \A t \in Ticks : s \in At(t)' => t = i
  BY DEF At
<1>4. s \in At(i)' <=> Held(s)'
  BY DEF At
<1>5. \A t \in Ticks : At(t) \subseteq Slots /\ At(t)' \subseteq Slots
  BY DEF At
<1>6. At(i)' = IF Held(s)' THEN At(i) \union {s} ELSE At(i) \ {s}
  BY <1>1, <1>4, <1>5
<1>7. \A t \in Ticks : t # i => At(t)' = At(t)
  BY <1>1, <1>2, <1>3, <1>5
<1>8. \A t \in Ticks : At(t)' \ {s} = At(t) \ {s}
  BY <1>1, <1>5
<1> QED BY <1>6, <1>7, <1>8

LEMMA TotalsStep ==
  ASSUME TypeOK, TypeOK', TotalsExact, NEW s \in Slots, NEW i \in Ticks,
         \A x \in Slots : x # s => order'[x] = order[x] /\ (Held(x)' <=> Held(x)),
         Held(s) => order[s].idx = i, Held(s)' => order'[s].idx = i,
         \A t \in Ticks : t # i => totalQty'[t] = totalQty[t],
         totalQty'[i] = totalQty[i] - (IF Held(s) THEN order[s].qty ELSE 0)
                                    + (IF Held(s)' THEN order'[s].qty ELSE 0)
  PROVE  TotalsExact'
<1> DEFINE v == Quantities
           w == Quantities'
<1>1. v \in [Slots -> Int] /\ \A x \in Slots : v[x] = order[x].qty
  BY BookTypes DEF Quantities
<1>2. w \in [Slots -> Int] /\ \A x \in Slots : w[x] = order'[x].qty
  BY DEF Quantities, TypeOK, Order
<1> HIDE DEF v, w
<1>3. \A x \in Slots : x # s => v[x] = w[x]
  BY <1>1, <1>2
<1>4. \A t \in Ticks : At(t) \in SUBSET Slots /\ At(t)' \in SUBSET Slots /\ At(t)' \ {s} = At(t) \ {s}
  BY AtStep DEF At
<1>5. ASSUME NEW t \in Ticks
      PROVE  Total(w)[At(t)'] = Total(v)[At(t)] - (IF s \in At(t) THEN v[s] ELSE 0) + (IF s \in At(t)' THEN w[s] ELSE 0)
             /\ Total(v)[At(t)] \in Int
  BY <1>1, <1>2, <1>3, <1>4, TotalChange
<1>6. \A t \in Ticks : /\ s \in At(t) <=> (t = i /\ Held(s))
                       /\ s \in At(t)' <=> (t = i /\ Held(s)')
  BY DEF At
<1>7. ASSUME NEW t \in Ticks
      PROVE  totalQty'[t] = Total(w)[At(t)']
  <2>1. totalQty[t] = Total(v)[At(t)] /\ totalQty[t] \in Int
    BY BookTypes DEF TotalsExact, v
  <2>2. CASE t = i
    <3>1. totalQty'[i] = totalQty[i] - (IF Held(s) THEN v[s] ELSE 0) + (IF Held(s)' THEN w[s] ELSE 0)
      BY <1>1, <1>2
    <3> QED BY <1>5, <1>6, <2>1, <2>2, <3>1
  <2>3. CASE t # i
    <3>1. totalQty'[t] = totalQty[t]
      BY <2>3
    <3>2. Total(w)[At(t)'] = Total(v)[At(t)] - 0 + 0
      BY <1>5, <1>6, <2>3
    <3> QED BY <1>5, <2>1, <3>1, <3>2
  <2> QED BY <2>2, <2>3
<1> QED BY <1>7 DEF TotalsExact, w

\* A step that changes neither orders nor queues.
LEMMA BookStands ==
  ASSUME TypeOK, BookInv, UNCHANGED <<totalQty, order, free, gens, bids, asks>>,
         \A t \in Ticks : Queue(t)' = Queue(t),
         pc # "sweep" \/ UNCHANGED <<pc, sweep>>
  PROVE  BookInv'
<1> USE DEF BookInv
<1>1. \A t : At(t)' = At(t)
  BY DEF At, Held
<1>2. FreeExact'
  BY DEF FreeExact, Held
<1>3. QueuesExact'
  BY <1>1 DEF QueuesExact
<1>4. MarksExact'
  BY <1>1 DEF MarksExact, Marked, Marks, Held
<1>5. TotalsExact'
  BY <1>1 DEF TotalsExact, Quantities
<1> QED BY <1>2, <1>3, <1>4, <1>5

\* The queues outside a sweep are the levels.
LEMMA QueueIdle ==
  ASSUME TypeOK, pc # "sweep"
  PROVE  \A t \in Ticks : Queue(t) = levels[t]
BY DEF Queue

\* The order a sweep works on.
LEMMA MakerFacts ==
  ASSUME TypeOK, BookInv, Filling
  PROVE  /\ Maker \in Slots /\ Held(Maker) /\ order[Maker].idx = sweep /\ sweep \in Ticks /\ Marked(Maker)
         /\ levels[sweep] \in Seq(Slots) /\ levels[sweep] # <<>> /\ reload \in Seq(Slots)
         /\ Queue(sweep) = levels[sweep] \o reload /\ Queue(sweep) \in Seq(Slots) /\ Queue(sweep) # <<>>
         /\ Head(Queue(sweep)) = Maker /\ Tail(Queue(sweep)) = Tail(levels[sweep]) \o reload
         /\ Fill \in Nat /\ Fill > 0 /\ Fill <= order[Maker].qty /\ Fill <= taker.qty
         /\ taker.qty \in Nat
<1>1. /\ levels[sweep] \in Seq(Slots) /\ levels[sweep] # <<>> /\ reload \in Seq(Slots) /\ sweep \in Ticks
      /\ Queue(sweep) = levels[sweep] \o reload /\ taker.qty \in Nat /\ taker.qty > 0
  BY DEF TypeOK, Filling, Queue, Taker
<1>2. /\ Queue(sweep) \in Seq(Slots) /\ Queue(sweep) # <<>> /\ Head(Queue(sweep)) = Maker
      /\ Tail(Queue(sweep)) = Tail(levels[sweep]) \o reload
  <2> DEFINE a == levels[sweep]
  <2>1. a \in Seq(Slots) /\ a # <<>> /\ Queue(sweep) = a \o reload
    BY <1>1
  <2> HIDE DEF a
  <2>2. a \o reload \in Seq(Slots) /\ a \o reload # <<>> /\ Head(a \o reload) = Head(a)
    BY <1>1, <2>1, SeqFront
  <2>3. Tail(a \o reload) = Tail(a) \o reload
    BY <1>1, <2>1, SeqFront
  <2>4. Maker = Head(a)
    BY DEF Maker, a
  <2>5. /\ Queue(sweep) \in Seq(Slots) /\ Queue(sweep) # <<>> /\ Head(Queue(sweep)) = Maker
        /\ Tail(Queue(sweep)) = Tail(a) \o reload
    BY <2>1, <2>2, <2>3, <2>4
  <2> QED BY <2>5 DEF a
<1>3. Maker \in ToSet(Queue(sweep)) /\ Maker \in Slots
  BY <1>1, <1>2, SeqTail DEF BookInv, QueuesExact
<1>4. Held(Maker) /\ order[Maker].idx = sweep
  BY <1>1, <1>3 DEF BookInv, QueuesExact, At
<1>5. Marked(Maker) /\ order[Maker].qty > 0 /\ order[Maker].qty \in Nat
  BY <1>3, <1>4, BookTypes DEF BookInv, MarksExact, Marked
<1>6. Fill \in Nat /\ Fill > 0 /\ Fill <= order[Maker].qty /\ Fill <= taker.qty
  BY <1>1, <1>5 DEF Fill, Least
<1> QED BY <1>1, <1>2, <1>3, <1>4, <1>5, <1>6

\* An order that still shows something stays properly marked.
LEMMA MarkedKept ==
  ASSUME NEW s \in Slots, Marked(s), UNCHANGED <<bids, asks>>,
         order'[s].idx = order[s].idx, order'[s].side = order[s].side,
         order'[s].display = order[s].display, order'[s].qty > 0,
         order'[s].hidden > 0 => order[s].hidden > 0
  PROVE  Marked(s)'
BY DEF Marked, Marks

LEMMA MarkedSame ==
  ASSUME NEW s \in Slots, Marked(s), UNCHANGED <<bids, asks>>, order'[s] = order[s]
  PROVE  Marked(s)'
BY DEF Marked, Marks

LEMMA FillPartKeeps ==
  ASSUME TypeOK, TypeOK', BookInv, FillPart
  PROVE  BookInv'
<1>0. PICK s \in Slots : s = Maker
  BY MakerFacts DEF FillPart
<1>1. /\ s \in Slots /\ Held(s) /\ order[s].idx = sweep /\ sweep \in Ticks /\ Marked(s)
      /\ Fill \in Nat /\ Fill < order[s].qty
  BY <1>0, MakerFacts DEF FillPart
<1>2. /\ order' = [order EXCEPT ![s].qty = @ - Fill] /\ totalQty' = [totalQty EXCEPT ![sweep] = @ - Fill]
      /\ UNCHANGED <<levels, free, gens, bids, asks, pc, sweep, reload>>
  BY <1>0 DEF FillPart
<1>3. /\ order'[s].qty = order[s].qty - Fill /\ order'[s].idx = order[s].idx /\ order'[s].side = order[s].side
      /\ order'[s].hidden = order[s].hidden /\ order'[s].display = order[s].display
      /\ \A x \in Slots : x # s => order'[x] = order[x]
      /\ totalQty'[sweep] = totalQty[sweep] - Fill
      /\ \A t \in Ticks : t # sweep => totalQty'[t] = totalQty[t]
  BY <1>1, <1>2 DEF TypeOK, Order
<1>4. \A x \in Slots : Held(x)' <=> Held(x)
  BY <1>2 DEF Held
<1>5. \A t \in Ticks : At(t)' = At(t)
  <2>1. sweep \in Ticks /\ s \in At(sweep)
    BY <1>1 DEF At
  <2> QED BY <1>1, <1>3, <1>4, <2>1, AtStep
<1>6. TotalsExact'
  <2>1. totalQty'[sweep] = totalQty[sweep] - order[s].qty + order'[s].qty
    BY <1>1, <1>3, BookTypes
  <2> QED BY <1>1, <1>3, <1>4, <2>1, TotalsStep DEF BookInv
<1>7. FreeExact' /\ QueuesExact'
  BY <1>2, <1>4, <1>5 DEF BookInv, FreeExact, QueuesExact, Queue
<1>8. MarksExact'
  <2>1. Marked(s)'
    <3>1. order'[s].qty > 0
      BY <1>1, <1>3, BookTypes
    <3> QED BY <1>1, <1>2, <1>3, <3>1, MarkedKept
  <2>2. ASSUME NEW x \in Slots, Held(x)' PROVE Marked(x)'
    <3>1. Marked(x)
      BY <1>4, <2>2 DEF BookInv, MarksExact
    <3> QED BY <1>2, <1>3, <2>1, <3>1, MarkedSame
  <2>3. bids' \cup asks' \subseteq Ticks
    BY DEF TypeOK
  <2> QED BY <1>2, <1>5, <2>2, <2>3 DEF BookInv, MarksExact
<1> QED BY <1>6, <1>7, <1>8 DEF BookInv

LEMMA FillReloadKeeps ==
  ASSUME TypeOK, TypeOK', BookInv, FillReload
  PROVE  BookInv'
<1>0. PICK s \in Slots : s = Maker
  BY MakerFacts DEF FillReload
<1> DEFINE refill == Least(order[s].display, order[s].hidden)
           q == Queue(sweep)
<1>1. /\ s \in Slots /\ Held(s) /\ order[s].idx = sweep /\ sweep \in Ticks /\ Marked(s)
      /\ Fill = order[s].qty /\ order[s].hidden > 0
      /\ levels[sweep] \in Seq(Slots) /\ reload \in Seq(Slots) /\ levels[sweep] # <<>>
      /\ q = levels[sweep] \o reload /\ q \in Seq(Slots) /\ q # <<>>
      /\ Head(q) = s /\ Tail(q) = Tail(levels[sweep]) \o reload
  BY <1>0, MakerFacts DEF FillReload
<1>2. /\ order' = [order EXCEPT ![s].qty = refill, ![s].hidden = @ - refill]
      /\ totalQty' = [totalQty EXCEPT ![sweep] = @ - Fill + refill]
      /\ levels' = [levels EXCEPT ![sweep] = Tail(@)] /\ reload' = Append(reload, s)
      /\ pc = "sweep" /\ UNCHANGED <<free, gens, bids, asks, pc, sweep>>
  BY <1>0 DEF FillReload, Filling
<1>3. refill \in Nat /\ refill > 0 /\ refill <= order[s].hidden
  <2>1. /\ order[s].hidden \in Nat /\ order[s].hidden > 0
        /\ order[s].display \in Nat /\ order[s].display > 0
    BY <1>1, BookTypes DEF Marked
  <2> QED BY <2>1 DEF Least
<1> HIDE DEF refill, q
<1>4. /\ order'[s].qty = refill /\ order'[s].idx = order[s].idx /\ order'[s].side = order[s].side
      /\ order'[s].hidden \in Nat /\ order'[s].display = order[s].display
      /\ \A x \in Slots : x # s => order'[x] = order[x]
  <2>1. order \in [Slots -> Order] /\ s \in Slots /\ order[s] \in Order
    BY <1>1 DEF TypeOK
  <2>2. order[s].hidden \in Nat /\ order[s].hidden - refill \in Nat
    BY <1>3, <2>1 DEF Order
  <2>3. order' = [order EXCEPT ![s] = [order[s] EXCEPT !.qty = refill, !.hidden = @ - refill]]
    BY <1>2, <2>1
  <2>4. order'[s] = [order[s] EXCEPT !.qty = refill, !.hidden = @ - refill]
    BY <2>1, <2>3
  <2>5. \A x \in Slots : x # s => order'[x] = order[x]
    BY <2>1, <2>3
  <2> QED BY <2>1, <2>2, <2>4, <2>5 DEF Order
<1>5. /\ totalQty'[sweep] = totalQty[sweep] - Fill + refill
      /\ \A t \in Ticks : t # sweep => totalQty'[t] = totalQty[t]
  BY <1>1, <1>2 DEF TypeOK
<1>6. \A x \in Slots : Held(x)' <=> Held(x)
  BY <1>2 DEF Held
<1>7. \A t \in Ticks : At(t)' = At(t)
  <2>1. /\ s \in Slots /\ sweep \in Ticks /\ s \in At(sweep) /\ Held(s)'
        /\ order[s].idx = sweep /\ order'[s].idx = sweep
    BY <1>1, <1>4, <1>6 DEF At
  <2>2. \A x \in Slots : x # s => order'[x] = order[x] /\ (Held(x)' <=> Held(x))
    BY <1>4, <1>6
  <2> QED BY <2>1, <2>2, AtStep
<1>8. TotalsExact'
  <2>1. totalQty'[sweep] = totalQty[sweep] - order[s].qty + order'[s].qty
    BY <1>1, <1>4, <1>5
  <2> QED BY <1>1, <1>4, <1>5, <1>6, <2>1, TotalsStep DEF BookInv
<1>9. FreeExact'
  BY <1>2, <1>6 DEF BookInv, FreeExact
<1>10. QueuesExact'
  <2>1. IsInjective(q) /\ ToSet(q) = At(sweep)
    BY <1>1 DEF BookInv, QueuesExact, q
  <2>2. /\ Tail(q) \in Seq(Slots) /\ IsInjective(Tail(q))
        /\ ToSet(Tail(q)) = At(sweep) \ {s} /\ s \in At(sweep)
    BY <1>1, <2>1, SeqTail
  <2>3. IsInjective(Append(Tail(q), s)) /\ ToSet(Append(Tail(q), s)) = At(sweep)
    <3>1. s \notin ToSet(Tail(q))
      BY <2>2
    <3>2. IsInjective(Append(Tail(q), s)) /\ ToSet(Append(Tail(q), s)) = ToSet(Tail(q)) \cup {s}
      BY <1>1, <2>2, <3>1, SeqAppend
    <3> QED BY <2>2, <3>2
  <2>4. Queue(sweep)' = Append(Tail(q), s)
    <3>1. Queue(sweep)' = Tail(levels[sweep]) \o Append(reload, s)
      BY <1>1, <1>2 DEF Queue, TypeOK
    <3>2. Tail(levels[sweep]) \o Append(reload, s) = Append(Tail(levels[sweep]) \o reload, s)
      <4> DEFINE a == levels[sweep]
      <4>1. a \in Seq(Slots) /\ a # <<>> /\ reload \in Seq(Slots) /\ s \in Slots
        BY <1>1
      <4> HIDE DEF a
      <4>2. Tail(a) \o Append(reload, s) = Append(Tail(a) \o reload, s)
        BY <4>1, SeqFront
      <4> QED BY <4>2 DEF a
    <3> QED BY <1>1, <3>1, <3>2
  <2>5. \A t \in Ticks : t # sweep => Queue(t)' = Queue(t)
    BY <1>1, <1>2 DEF Queue, TypeOK
  <2> QED BY <1>2, <1>7, <2>3, <2>4, <2>5 DEF BookInv, QueuesExact
<1>11. MarksExact'
  <2>1. Marked(s)'
    BY <1>1, <1>2, <1>3, <1>4, MarkedKept
  <2>2. ASSUME NEW x \in Slots, Held(x)' PROVE Marked(x)'
    <3>1. Marked(x)
      BY <1>6, <2>2 DEF BookInv, MarksExact
    <3> QED BY <1>2, <1>4, <2>1, <3>1, MarkedSame
  <2>3. bids' \cup asks' \subseteq Ticks
    BY DEF TypeOK
  <2> QED BY <1>2, <1>7, <2>2, <2>3 DEF BookInv, MarksExact
<1> QED BY <1>8, <1>9, <1>10, <1>11 DEF BookInv

\* A slot goes back to the arena: the free list gains it, no level holds it.
LEMMA ReleaseKeeps ==
  ASSUME TypeOK, FreeExact, NEW s \in Slots, Held(s), Release(s), order' = [order EXCEPT ![s] = Dead]
  PROVE  /\ FreeExact' /\ ~Held(s)'
         /\ \A x \in Slots : x # s => order'[x] = order[x] /\ (Held(x)' <=> Held(x))
<1>1. /\ ~Held(s)' /\ \A x \in Slots : x # s => (Held(x)' <=> Held(x))
  BY Bumped DEF Release
<1>2. s \notin ToSet(free) /\ free \in Seq(Slots) /\ free' = <<s>> \o free
  BY DEF FreeExact, TypeOK, Release
<1>3. IsInjective(free') /\ ToSet(free') = ToSet(free) \union {s}
  BY <1>2, SeqPush DEF FreeExact
<1>4. FreeExact'
  BY <1>1, <1>3 DEF FreeExact
<1>5. \A x \in Slots : x # s => order'[x] = order[x]
  BY DEF TypeOK
<1> QED BY <1>1, <1>4, <1>5

LEMMA FillReleaseKeeps ==
  ASSUME TypeOK, TypeOK', BookInv, FillRelease
  PROVE  BookInv'
<1>0. PICK s \in Slots : s = Maker
  BY MakerFacts DEF FillRelease
<1> DEFINE q == Queue(sweep)
<1>1. /\ s \in Slots /\ Held(s) /\ order[s].idx = sweep /\ sweep \in Ticks /\ Marked(s)
      /\ Fill = order[s].qty
      /\ levels[sweep] \in Seq(Slots) /\ reload \in Seq(Slots) /\ levels[sweep] # <<>>
      /\ q = levels[sweep] \o reload /\ q \in Seq(Slots) /\ q # <<>>
      /\ Head(q) = s /\ Tail(q) = Tail(levels[sweep]) \o reload
  BY <1>0, MakerFacts DEF FillRelease
<1>2. /\ order' = [order EXCEPT ![s] = Dead] /\ Release(s)
      /\ totalQty' = [totalQty EXCEPT ![sweep] = @ - Fill]
      /\ levels' = [levels EXCEPT ![sweep] = Tail(@)]
      /\ pc = "sweep" /\ UNCHANGED <<bids, asks, pc, sweep, reload>>
  BY <1>0 DEF FillRelease, Filling
<1> HIDE DEF q
<1>3. /\ FreeExact' /\ ~Held(s)'
      /\ \A x \in Slots : x # s => order'[x] = order[x] /\ (Held(x)' <=> Held(x))
  <2>1. s \in Slots /\ Held(s) /\ Release(s) /\ order' = [order EXCEPT ![s] = Dead] /\ FreeExact
    BY <1>1, <1>2 DEF BookInv
  <2> QED BY <2>1, ReleaseKeeps
<1>4. /\ totalQty'[sweep] = totalQty[sweep] - order[s].qty
      /\ \A t \in Ticks : t # sweep => totalQty'[t] = totalQty[t]
  BY <1>1, <1>2 DEF TypeOK
<1>5. \A t \in Ticks : At(t)' = IF t = sweep THEN At(t) \ {s} ELSE At(t)
  <2>1. PICK i \in Ticks : i = sweep
    BY <1>1
  <2>2. order[s].idx = i /\ ~Held(s)'
    BY <1>1, <1>3, <2>1
  <2>3. At(i)' = At(i) \ {s} /\ \A t \in Ticks : t # i => At(t)' = At(t)
    BY <1>3, <2>2, AtStep
  <2> QED BY <2>1, <2>3
<1>6. TotalsExact'
  <2>1. totalQty'[sweep] = totalQty[sweep] - order[s].qty + 0
    BY <1>1, <1>4, BookTypes
  <2>2. s \in Slots /\ sweep \in Ticks /\ order[s].idx = sweep /\ Held(s) /\ ~Held(s)'
    BY <1>1, <1>3
  <2> QED BY <1>3, <1>4, <2>1, <2>2, TotalsStep DEF BookInv
<1>7. QueuesExact'
  <2>1. IsInjective(q) /\ ToSet(q) = At(sweep)
    BY <1>1 DEF BookInv, QueuesExact, q
  <2>2. IsInjective(Tail(q)) /\ ToSet(Tail(q)) = At(sweep) \ {s}
    BY <1>1, <2>1, SeqTail
  <2>3. Queue(sweep)' = Tail(q)
    BY <1>1, <1>2 DEF Queue, TypeOK
  <2>4. \A t \in Ticks : t # sweep => Queue(t)' = Queue(t)
    BY <1>1, <1>2 DEF Queue, TypeOK
  <2> QED BY <1>2, <1>5, <2>2, <2>3, <2>4 DEF BookInv, QueuesExact
<1>8. MarksExact'
  <2>1. ASSUME NEW x \in Slots, Held(x)' PROVE Marked(x)'
    <3>1. x # s /\ Marked(x)
      BY <1>1, <1>3, <2>1 DEF BookInv, MarksExact
    <3> QED BY <1>2, <1>3, <3>1, MarkedSame
  <2>2. ASSUME NEW t \in bids' \union asks', t # sweep PROVE At(t)' # {}
    <3>1. t \in Ticks /\ t \in bids \union asks
      BY <1>2, <2>2 DEF TypeOK
    <3> QED BY <1>5, <2>2, <3>1 DEF BookInv, MarksExact
  <2> QED BY <1>2, <2>1, <2>2 DEF BookInv, MarksExact
<1> QED BY <1>3, <1>6, <1>7, <1>8 DEF BookInv

LEMMA LeaveSweepKeeps ==
  ASSUME TypeOK, BestInv, BookInv, LeaveSweep
  PROVE  BookInv'
<1>1. /\ pc = "sweep" /\ pc' = "match" /\ sweep' = sweep /\ sweep \in Ticks
      /\ levels' = [levels EXCEPT ![sweep] = Spliced]
      /\ UNCHANGED <<totalQty, order, free, gens>>
  BY DEF LeaveSweep, TypeOK
<1>2. Spliced = Queue(sweep)
  BY <1>1 DEF Spliced, Queue
<1>3. \A t \in Ticks : Queue(t)' = Queue(t)
  BY <1>1, <1>2 DEF Queue, TypeOK
<1>4. \A t : At(t)' = At(t)
  BY <1>1 DEF At, Held
<1>5. FreeExact' /\ QueuesExact' /\ TotalsExact'
  BY <1>1, <1>3, <1>4 DEF BookInv, FreeExact, Held, QueuesExact, TotalsExact, Quantities
<1>6. Spliced = <<>> <=> At(sweep) = {}
  <2>1. Spliced \in Seq(Slots) /\ ToSet(Spliced) = At(sweep)
    BY <1>1, <1>2, BookTypes DEF BookInv, QueuesExact
  <2>2. Spliced # <<>> => Spliced[1] \in ToSet(Spliced)
    BY <2>1 DEF ToSet
  <2>3. Spliced = <<>> => ToSet(Spliced) = {}
    BY DEF ToSet
  <2> QED BY <2>1, <2>2, <2>3
<1>7. /\ bids' = IF Spliced = <<>> /\ taker.side # "Buy" THEN bids \ {sweep} ELSE bids
      /\ asks' = IF Spliced = <<>> /\ taker.side = "Buy" THEN asks \ {sweep} ELSE asks
  BY DEF LeaveSweep
<1>8. IF taker.side = "Buy" THEN sweep \in asks ELSE sweep \in bids
  BY <1>1 DEF BestInv, SweepAtBest
<1>9. MarksExact'
  <2>1. ASSUME NEW x \in Slots, Held(x)' PROVE Marked(x)'
    <3>1. Held(x) /\ Marked(x) /\ order'[x] = order[x]
      BY <1>1, <2>1 DEF Held, BookInv, MarksExact
    <3>2. Spliced = <<>> => order[x].idx # sweep
      BY <1>6, <3>1 DEF At
    <3>3. order[x].idx \in Marks(order[x].side)'
      BY <1>7, <3>1, <3>2 DEF Marked, Marks
    <3> QED BY <3>1, <3>3 DEF Marked
  <2>2. bids' \intersect asks' = {}
    BY <1>7 DEF BookInv, MarksExact
  <2>3. ASSUME NEW t \in bids' \union asks' PROVE At(t)' # {}
    <3>1. t \in bids \union asks
      BY <1>7, <2>3
    <3>2. CASE t = sweep
      <4>1. Spliced # <<>>
        BY <1>7, <1>8, <2>3, <3>2 DEF BookInv, MarksExact
      <4> QED BY <1>4, <1>6, <3>2, <4>1
    <3>3. CASE t # sweep
      BY <1>4, <3>1, <3>3 DEF BookInv, MarksExact
    <3> QED BY <3>2, <3>3
  <2> QED BY <2>1, <2>2, <2>3 DEF MarksExact
<1> QED BY <1>5, <1>9 DEF BookInv

LEMMA RestKeeps ==
  ASSUME TypeOK, TypeOK', BestInv, BookInv, Rest
  PROVE  BookInv'
<1>1. PICK s \in Slots :
        /\ Acquire(s)
        /\ order' = [order EXCEPT ![s] =
             [side |-> taker.side, idx |-> taker.idx, qty |-> Shown,
              hidden |-> taker.qty - Shown, display |-> taker.display]]
        /\ levels' = [levels EXCEPT ![taker.idx] = Append(@, s)]
  BY DEF Rest
<1>2. PICK i \in Ticks : i = taker.idx
  BY DEF TypeOK, Taker
<1>3. /\ totalQty' = [totalQty EXCEPT ![i] = @ + Shown] /\ MarkOccupied(taker.side, i)
      /\ pc = "match" /\ pc' = "idle" /\ taker.qty > 0 /\ ~Crosses(taker.side, i)
      /\ UNCHANGED <<sweep, reload>>
  BY <1>2 DEF Rest, Resting
<1>4. /\ taker.side \in Sides /\ taker.qty \in Nat /\ taker.display \in Nat
      /\ Shown \in Nat /\ Shown > 0 /\ (taker.qty - Shown > 0 => taker.display > 0)
  <2>1. taker.side \in Sides /\ taker.qty \in Nat /\ taker.display \in Nat
    BY DEF TypeOK, Taker
  <2> QED BY <1>3, <2>1 DEF Shown, Least
<1>5. /\ free # <<>> /\ s = Head(free) /\ free' = Tail(free) /\ gens' = [gens EXCEPT ![s] = @ + 1]
  BY <1>1 DEF Acquire
<1>6. s \in ToSet(free) /\ IsInjective(free') /\ ToSet(free') = ToSet(free) \ {s}
  BY <1>5, SeqTail DEF BookInv, FreeExact, TypeOK
<1>7. ~Held(s) /\ Held(s)' /\ \A x \in Slots : x # s => (Held(x)' <=> Held(x))
  BY <1>5, <1>6, Bumped DEF BookInv, FreeExact
<1>8. FreeExact'
  BY <1>6, <1>7 DEF BookInv, FreeExact
<1>9. /\ order'[s].side = taker.side /\ order'[s].idx = i /\ order'[s].qty = Shown
      /\ order'[s].hidden = taker.qty - Shown /\ order'[s].display = taker.display
      /\ \A x \in Slots : x # s => order'[x] = order[x]
  BY <1>1, <1>2 DEF TypeOK
<1>10. At(i)' = At(i) \union {s} /\ \A t \in Ticks : t # i => At(t)' = At(t)
  BY <1>7, <1>9, AtStep
<1>11. TotalsExact'
  <2>1. /\ totalQty'[i] = totalQty[i] - 0 + order'[s].qty
        /\ \A t \in Ticks : t # i => totalQty'[t] = totalQty[t]
    BY <1>3, <1>4, <1>9 DEF TypeOK
  <2> QED BY <1>7, <1>9, <2>1, TotalsStep DEF BookInv
<1>12. QueuesExact'
  <2>1. \A t \in Ticks : Queue(t) = levels[t] /\ Queue(t)' = levels'[t]
    BY <1>3 DEF Queue
  <2>2. levels'[i] = Append(levels[i], s) /\ \A t \in Ticks : t # i => levels'[t] = levels[t]
    BY <1>1, <1>2 DEF TypeOK
  <2>3. levels[i] \in Seq(Slots) /\ IsInjective(levels[i]) /\ ToSet(levels[i]) = At(i) /\ s \notin At(i)
    BY <1>7, <2>1, BookTypes DEF BookInv, QueuesExact, At
  <2>4. IsInjective(levels'[i]) /\ ToSet(levels'[i]) = At(i) \union {s}
    BY <2>2, <2>3, SeqAppend
  <2>5. ASSUME NEW t \in Ticks PROVE IsInjective(Queue(t)') /\ ToSet(Queue(t)') = At(t)'
    <3>1. CASE t = i
      BY <1>10, <2>1, <2>4, <3>1
    <3>2. CASE t # i
      <4>1. Queue(t)' = Queue(t) /\ At(t)' = At(t)
        BY <1>10, <2>1, <2>2, <3>2
      <4> QED BY <4>1 DEF BookInv, QueuesExact
    <3> QED BY <3>1, <3>2
  <2> QED BY <2>5 DEF QueuesExact
<1>13. MarksExact'
  <2>1. /\ bids' = IF taker.side = "Buy" THEN bids \union {i} ELSE bids
        /\ asks' = IF taker.side = "Buy" THEN asks ELSE asks \union {i}
    BY <1>3 DEF MarkOccupied
  <2>2. Marked(s)'
    BY <1>4, <1>9, <2>1 DEF Marked, Marks
  <2>3. ASSUME NEW x \in Slots, Held(x)', x # s PROVE Marked(x)'
    <3>1. Marked(x) /\ order'[x] = order[x]
      BY <1>7, <1>9, <2>3 DEF BookInv, MarksExact
    <3>2. order[x].idx \in Marks(order[x].side)'
      BY <2>1, <3>1 DEF Marked, Marks
    <3> QED BY <3>1, <3>2 DEF Marked
  <2>4. bids' \intersect asks' = {}
    <3>1. CASE taker.side = "Buy"
      <4>1. bestAsk \in Nat /\ i \in Nat /\ ~ bestAsk <= i
        BY <1>3, <3>1, TicksNat DEF Crosses, TypeOK
      <4>2. i \notin asks
        BY <4>1, TicksNat DEF BestInv, BestAskCached, TypeOK
      <4> QED BY <2>1, <3>1, <4>2 DEF BookInv, MarksExact
    <3>2. CASE taker.side # "Buy"
      <4>1. bestBid = NPOS \/ (bestBid \in Nat /\ i \in Nat /\ ~ bestBid >= i)
        BY <1>3, <3>2, TicksNat DEF Crosses, TypeOK
      <4>2. i \notin bids
        <5>1. CASE bids = {}
          BY <5>1
        <5>2. CASE bids # {}
          <6>1. bestBid \in bids /\ bestBid # NPOS /\ \A t \in bids : t <= bestBid
            BY <5>2, ConstantTypes DEF BestInv, BestBidCached, TypeOK
          <6> QED BY <4>1, <6>1
        <5> QED BY <5>1, <5>2
      <4> QED BY <2>1, <3>2, <4>2 DEF BookInv, MarksExact
    <3> QED BY <3>1, <3>2
  <2>5. ASSUME NEW t \in bids' \union asks' PROVE At(t)' # {}
    <3>1. CASE t = i
      BY <1>10, <3>1
    <3>2. CASE t # i
      <4>1. t \in bids \union asks /\ t \in Ticks
        BY <2>1, <2>5, <3>2 DEF TypeOK
      <4>2. At(t) # {}
        BY <1>3, <4>1 DEF BookInv, MarksExact
      <4> QED BY <1>10, <3>2, <4>1, <4>2
    <3> QED BY <3>1, <3>2
  <2> QED BY <2>2, <2>3, <2>4, <2>5 DEF MarksExact
<1> QED BY <1>8, <1>11, <1>12, <1>13 DEF BookInv

LEMMA UnlinkKeeps ==
  ASSUME TypeOK, TypeOK', BookInv, pc = "idle", UNCHANGED <<pc, sweep, reload>>,
         NEW s \in Slots, Held(s), UnlinkAndRelease(s)
  PROVE  BookInv'
<1>1. PICK i \in Ticks : i = order[s].idx
  BY BookTypes
<1>2. /\ levels' = [levels EXCEPT ![i] = Unlinked(@, s)]
      /\ totalQty' = [totalQty EXCEPT ![i] = @ - order[s].qty]
      /\ order' = [order EXCEPT ![s] = Dead] /\ Release(s)
      /\ bids' = IF Unlinked(levels[i], s) = <<>> /\ order[s].side = "Buy" THEN bids \ {i} ELSE bids
      /\ asks' = IF Unlinked(levels[i], s) = <<>> /\ order[s].side = "Sell" THEN asks \ {i} ELSE asks
  BY <1>1 DEF UnlinkAndRelease
<1>3. /\ FreeExact' /\ ~Held(s)'
      /\ \A x \in Slots : x # s => order'[x] = order[x] /\ (Held(x)' <=> Held(x))
  BY <1>2, ReleaseKeeps DEF BookInv
<1>4. At(i)' = At(i) \ {s} /\ \A t \in Ticks : t # i => At(t)' = At(t)
  BY <1>1, <1>3, AtStep
<1>5. TotalsExact'
  <2>1. /\ totalQty'[i] = totalQty[i] - order[s].qty + 0
        /\ \A t \in Ticks : t # i => totalQty'[t] = totalQty[t]
    <3>1. totalQty[i] \in Int /\ order[s].qty \in Nat
      BY BookTypes
    <3> QED BY <1>2, <3>1 DEF TypeOK
  <2> QED BY <1>1, <1>3, <2>1, TotalsStep DEF BookInv
<1>6. \A t \in Ticks : Queue(t) = levels[t] /\ Queue(t)' = levels'[t]
  BY DEF Queue
<1>7. /\ levels'[i] = Unlinked(levels[i], s) /\ levels'[i] \in Seq(Slots)
      /\ IsInjective(levels'[i]) /\ ToSet(levels'[i]) = At(i) \ {s}
  <2>1. levels[i] \in Seq(Slots) /\ IsInjective(levels[i]) /\ ToSet(levels[i]) = At(i) /\ s \in At(i)
    BY <1>1, <1>6, BookTypes DEF BookInv, QueuesExact, At
  <2>2. levels'[i] = Unlinked(levels[i], s)
    BY <1>2 DEF TypeOK
  <2> QED BY <2>1, <2>2, SeqUnlink
<1>8. QueuesExact'
  <2>1. ASSUME NEW t \in Ticks PROVE IsInjective(Queue(t)') /\ ToSet(Queue(t)') = At(t)'
    <3>1. CASE t = i
      BY <1>4, <1>6, <1>7, <3>1
    <3>2. CASE t # i
      <4>1. Queue(t)' = Queue(t) /\ At(t)' = At(t)
        BY <1>2, <1>4, <1>6, <3>2 DEF TypeOK
      <4> QED BY <4>1 DEF BookInv, QueuesExact
    <3> QED BY <3>1, <3>2
  <2> QED BY <2>1 DEF QueuesExact
<1>9. Unlinked(levels[i], s) = <<>> <=> At(i)' = {}
  <2>1. levels'[i] # <<>> => levels'[i][1] \in ToSet(levels'[i])
    BY <1>7 DEF ToSet
  <2>2. levels'[i] = <<>> => ToSet(levels'[i]) = {}
    BY DEF ToSet
  <2> QED BY <1>4, <1>7, <2>1, <2>2
<1>10. MarksExact'
  <2>1. i \in Marks(order[s].side) /\ order[s].side \in {"Buy", "Sell"} /\ bids \intersect asks = {}
    BY <1>1, BookTypes DEF BookInv, MarksExact, Marked, Sides
  <2>2. ASSUME NEW x \in Slots, Held(x)' PROVE Marked(x)'
    <3>1. x # s /\ Marked(x) /\ order'[x] = order[x] /\ Held(x)
      BY <1>3, <2>2 DEF BookInv, MarksExact
    <3>2. order[x].idx = i => At(i)' # {}
      BY <1>4, <3>1 DEF At
    <3>3. order[x].idx \in Marks(order[x].side)'
      BY <1>2, <1>9, <3>1, <3>2 DEF Marked, Marks
    <3> QED BY <3>1, <3>3 DEF Marked
  <2>3. bids' \intersect asks' = {}
    BY <1>2, <2>1
  <2>4. ASSUME NEW t \in bids' \union asks' PROVE At(t)' # {}
    <3>1. t \in bids \union asks /\ t \in Ticks
      BY <1>2, <2>4 DEF TypeOK
    <3>2. CASE t = i
      BY <1>2, <1>9, <2>1, <2>4, <3>2 DEF Marks
    <3>3. CASE t # i
      <4>1. At(t) # {}
        BY <3>1 DEF BookInv, MarksExact
      <4> QED BY <1>4, <3>1, <3>3, <4>1
    <3> QED BY <3>2, <3>3
  <2> QED BY <2>2, <2>3, <2>4 DEF MarksExact
<1> QED BY <1>3, <1>5, <1>8, <1>10 DEF BookInv

LEMMA ReducePartKeeps ==
  ASSUME TypeOK, TypeOK', BookInv, pc = "idle", UNCHANGED <<pc, sweep, reload>>,
         NEW s \in Slots, Held(s), NEW q \in Nat, q < order[s].qty, ReducePart(s, q)
  PROVE  BookInv'
<1>1. PICK i \in Ticks : i = order[s].idx
  BY BookTypes
<1>2. /\ order' = [order EXCEPT ![s].qty = @ - q]
      /\ totalQty' = [totalQty EXCEPT ![i] = @ - q]
      /\ UNCHANGED <<levels, free, gens, bids, asks>>
  BY <1>1 DEF ReducePart
<1>3. /\ order'[s].qty = order[s].qty - q /\ order'[s].idx = i /\ order'[s].side = order[s].side
      /\ order'[s].hidden = order[s].hidden /\ order'[s].display = order[s].display
      /\ \A x \in Slots : x # s => order'[x] = order[x]
  BY <1>1, <1>2 DEF TypeOK, Order
<1>4. \A x \in Slots : Held(x)' <=> Held(x)
  BY <1>2 DEF Held
<1>5. \A t \in Ticks : At(t)' = At(t)
  <2>1. s \in At(i)
    BY <1>1 DEF At
  <2> QED BY <1>1, <1>3, <1>4, <2>1, AtStep
<1>6. TotalsExact'
  <2>1. /\ totalQty'[i] = totalQty[i] - order[s].qty + order'[s].qty
        /\ \A t \in Ticks : t # i => totalQty'[t] = totalQty[t]
    <3>1. totalQty[i] \in Int /\ order[s].qty \in Nat
      BY BookTypes
    <3>2. totalQty'[i] = totalQty[i] - q /\ \A t \in Ticks : t # i => totalQty'[t] = totalQty[t]
      BY <1>2 DEF TypeOK
    <3> QED BY <1>3, <3>1, <3>2
  <2> QED BY <1>1, <1>3, <1>4, <2>1, TotalsStep DEF BookInv
<1>7. FreeExact' /\ QueuesExact'
  BY <1>2, <1>4, <1>5 DEF BookInv, FreeExact, QueuesExact, Queue
<1>8. MarksExact'
  <2>1. Marked(s)'
    <3>1. order'[s].qty > 0 /\ Marked(s)
      BY <1>3, BookTypes DEF BookInv, MarksExact
    <3> QED BY <1>1, <1>2, <1>3, <3>1, MarkedKept
  <2>2. ASSUME NEW x \in Slots, Held(x)' PROVE Marked(x)'
    <3>1. Marked(x)
      BY <1>4, <2>2 DEF BookInv, MarksExact
    <3> QED BY <1>2, <1>3, <2>1, <3>1, MarkedSame
  <2>3. bids' \cup asks' \subseteq Ticks
    BY DEF TypeOK
  <2> QED BY <1>2, <1>5, <2>2, <2>3 DEF BookInv, MarksExact
<1> QED BY <1>6, <1>7, <1>8 DEF BookInv

\* Two numbers that agree modulo an even number are both even or both odd.
LEMMA SameParity ==
  ASSUME NEW g \in Nat, NEW h \in Nat, NEW m \in Nat \ {0}, m % 2 = 0, g % m = h % m
  PROVE  g % 2 = h % 2
<1> DEFINE a == g \div m
           b == h \div m
<1>1. PICK k \in Nat : m = 2 * k
  OBVIOUS
<1>2. g = m * a + (g % m) /\ a \in Int /\ g % m \in Int
  OBVIOUS
<1>3. h = m * b + (h % m) /\ b \in Int
  OBVIOUS
<1> HIDE DEF a, b
<1>4. k * a \in Int /\ k * b \in Int /\ m * a = 2 * (k * a) /\ m * b = 2 * (k * b)
  <2>1. \A x \in Int : k * x \in Int /\ (2 * k) * x = 2 * (k * x)
    OBVIOUS
  <2> QED BY <1>1, <1>2, <1>3, <2>1
<1>5. g - h = 2 * (k * a) - 2 * (k * b)
  BY <1>2, <1>3, <1>4
<1>6. \A x, y \in Int : g - h = 2 * x - 2 * y => g % 2 = h % 2
  OBVIOUS
<1> QED BY <1>4, <1>5, <1>6

\* The generation of an id that was returned is odd, so a slot it is accepted
\* for holds an order, wrapped around or not.
LEMMA AcceptedHeld ==
  ASSUME TypeOK, NEW id \in HeldIds, Accepts(id)
  PROVE  id[1] \in Slots /\ Held(id[1])
<1>1. id[1] \in Slots /\ gens[id[1]] \in Nat /\ gens[id[1]] % GenMod = id[2] % GenMod
  BY DEF Accepts, TypeOK
<1>2. id[2] \in Nat /\ id[2] % 2 = 1
  <2>1. id # NoId /\ id # FilledId
    BY <1>1, BookAssumption DEF NoId, FilledId, Slots
  <2>2. id \in Issued
    BY <2>1 DEF HeldIds
  <2> QED BY <2>2, BookAssumption DEF Issued
<1>3. gens[id[1]] % 2 = id[2] % 2
  BY <1>1, <1>2, SameParity, BookAssumption
<1> QED BY <1>1, <1>2, <1>3 DEF Held

LEMMA BookInitInv == Init => BookInv
<1> SUFFICES ASSUME Init PROVE BookInv
  OBVIOUS
<1>1. TypeOK
  BY TypeInit
<1>2. \A s \in Slots : ~Held(s)
  BY DEF Init, Held
<1>3. \A t : At(t) = {}
  BY <1>2 DEF At
<1>4. FreeExact
  <2>1. ToSet(free) = Slots
    BY BookAssumption DEF Init, ToSet, Slots
  <2>2. IsInjective(free)
    BY DEF Init, IsInjective
  <2> QED BY <1>2, <2>1, <2>2 DEF FreeExact
<1>5. QueuesExact
  <2>1. \A t \in Ticks : Queue(t) = <<>>
    BY DEF Init, Queue
  <2>2. IsInjective(<<>>) /\ ToSet(<<>>) = {}
    BY DEF IsInjective, ToSet
  <2> QED BY <1>3, <2>1, <2>2 DEF QueuesExact
<1>6. MarksExact
  BY <1>2 DEF Init, MarksExact
<1>7. TotalsExact
  <2>1. Quantities \in [Slots -> Int]
    BY <1>1, BookTypes
  <2>2. Total(Quantities)[{}] = 0
    BY <2>1, TotalIs DEF IsTotal
  <2> QED BY <1>3, <2>2 DEF Init, TotalsExact
<1> QED BY <1>4, <1>5, <1>6, <1>7 DEF BookInv

LEMMA BookStep == TypeOK /\ BestInv /\ BookInv /\ [Next]_vars => BookInv'
<1> SUFFICES ASSUME TypeOK, BestInv, BookInv, [Next]_vars PROVE BookInv'
  OBVIOUS
<1>0. TypeOK'
  BY TypeStep
<1>1. ASSUME UNCHANGED <<bookVars, free, gens>>, pc # "sweep", pc' # "sweep" \/ reload' = <<>>
      PROVE  BookInv'
  <2>1. UNCHANGED <<levels, totalQty, order, free, gens, bids, asks>>
    BY <1>1 DEF bookVars
  <2>2. ASSUME NEW t \in Ticks PROVE Queue(t)' = Queue(t)
    <3>1. levels[t] \in Seq(Slots) /\ levels[t] \o <<>> = levels[t]
      BY BookTypes
    <3> QED BY <1>1, <2>1, <3>1 DEF Queue
  <2> QED BY <1>1, <2>1, <2>2, BookStands
<1>2. CASE UNCHANGED vars
  <2>1. \A t \in Ticks : Queue(t)' = Queue(t)
    BY <1>2 DEF vars, Queue
  <2> QED BY <1>2, <2>1, BookStands DEF vars
<1>3. ASSUME NEW side \in Sides, NEW idx \in 0..NumTicks, NEW qty \in 0..MaxQty,
             NEW postOnly \in BOOLEAN, NewOrder(side, idx, qty, postOnly)
      PROVE  BookInv'
  BY <1>1, <1>3 DEF NewOrder, Reject, Start
<1>4. ASSUME NEW side \in Sides, NEW idx \in 0..NumTicks, NEW display \in 0..MaxQty,
             NEW total \in 0..MaxQty, NewIceberg(side, idx, display, total)
      PROVE  BookInv'
  BY <1>1, <1>4 DEF NewIceberg, Reject, Start
<1>5. CASE EnterSweep
  BY <1>1, <1>5 DEF EnterSweep
<1>6. CASE TakerFilled
  BY <1>1, <1>6 DEF TakerFilled
<1>7. CASE RestExhausted
  BY <1>1, <1>7 DEF RestExhausted, Resting
<1>8. CASE FillPart \/ FillReload \/ FillRelease
  BY <1>0, <1>8, FillPartKeeps, FillReloadKeeps, FillReleaseKeeps
<1>9. CASE LeaveSweep \/ Rest
  BY <1>0, <1>9, LeaveSweepKeeps, RestKeeps
<1>10. ASSUME pc = "idle", NotFound, UNCHANGED <<pc, taker, sweep, reload>>
       PROVE  BookInv'
  BY <1>1, <1>10 DEF NotFound
<1>11. ASSUME NEW id \in HeldIds, Cancel(id)
       PROVE  BookInv'
  <2>1. CASE Accepts(id)
    <3>1. id[1] \in Slots /\ Held(id[1])
      BY <2>1, AcceptedHeld
    <3>2. pc = "idle" /\ UnlinkAndRelease(id[1]) /\ UNCHANGED <<pc, sweep, reload>>
      BY <1>11, <2>1 DEF Cancel
    <3> QED BY <1>0, <3>1, <3>2, UnlinkKeeps
  <2>2. CASE ~Accepts(id)
    BY <1>10, <1>11, <2>2 DEF Cancel
  <2> QED BY <2>1, <2>2
<1>12. ASSUME NEW id \in HeldIds, NEW q \in 0..MaxQty, Reduce(id, q)
       PROVE  BookInv'
  <2>0. pc = "idle" /\ UNCHANGED <<pc, taker, sweep, reload>> /\ q \in Nat
    BY <1>12, BookAssumption DEF Reduce
  <2>1. CASE Accepts(id)
    <3>1. id[1] \in Slots /\ Held(id[1])
      BY <2>1, AcceptedHeld
    <3>2. CASE q < order[id[1]].qty /\ ReducePart(id[1], q)
      BY <1>0, <2>0, <3>1, <3>2, ReducePartKeeps
    <3>3. CASE ReduceAll(id[1])
      BY <1>0, <2>0, <3>1, <3>3, UnlinkKeeps DEF ReduceAll
    <3> QED BY <1>12, <2>1, <3>2, <3>3 DEF Reduce
  <2>2. CASE ~Accepts(id)
    BY <1>10, <1>12, <2>0, <2>2 DEF Reduce
  <2> QED BY <2>1, <2>2
<1> QED BY <1>2, <1>3, <1>4, <1>5, <1>6, <1>7, <1>8, <1>9, <1>11, <1>12 DEF Next, Engine, Calls

LEMMA BookCorrect == Spec => [](TypeOK /\ BestInv /\ BookInv)
<1>1. Init => BestInv
  BY DEF Init, BestInv, BestBidCached, BestAskCached, NotCrossed, SweepAtBest
<1> QED BY <1>1, TypeInit, TypeStep, BestStep, BookInitInv, BookStep, PTL DEF Spec

\* Both sides share one array of levels, and no level ever mixes them: every
\* queued order is at its price and under its side's bit, and a bit means orders.
THEOREM LevelsKept == Spec => []LevelsMatchBitmaps
<1>1. ASSUME TypeOK, BookInv PROVE LevelsMatchBitmaps
  <2>1. ASSUME NEW t \in Ticks, NEW s \in ToSet(Queue(t))
        PROVE  order[s].idx = t /\ t \in (IF order[s].side = "Buy" THEN bids ELSE asks)
    <3>1. s \in Slots /\ Held(s) /\ order[s].idx = t
      BY <1>1, <2>1 DEF BookInv, QueuesExact, At
    <3> QED BY <1>1, <3>1 DEF BookInv, MarksExact, Marked, Marks
  <2>2. ASSUME NEW t \in bids \union asks, Queue(t) = <<>> PROVE pc = "sweep" /\ t = sweep
    <3>1. t \in Ticks
      BY <1>1 DEF TypeOK
    <3>2. At(t) = {}
      BY <1>1, <2>2, <3>1 DEF BookInv, QueuesExact, ToSet
    <3> QED BY <1>1, <3>2 DEF BookInv, MarksExact
  <2> QED BY <1>1, <2>1, <2>2 DEF LevelsMatchBitmaps, BookInv, MarksExact
<1> QED BY <1>1, BookCorrect, PTL

\* A level's total is the sum of what its queued orders show, between two fills
\* included, for every number of orders.
THEOREM TotalsKept == Spec => []AggregateExact
<1>1. ASSUME TypeOK, BookInv PROVE AggregateExact
  <2> SUFFICES ASSUME NEW t \in Ticks
               PROVE  /\ totalQty[t] = FoldSeq(LAMBDA s, sum : sum + order[s].qty, 0, Queue(t))
                      /\ \A s \in ToSet(Queue(t)) : order[s].qty > 0
    BY DEF AggregateExact
  <2>1. Queue(t) \in Seq(Slots) /\ IsInjective(Queue(t)) /\ ToSet(Queue(t)) = At(t)
    BY <1>1, BookTypes DEF BookInv, QueuesExact
  <2>2. \A s \in ToSet(Queue(t)) : order[s].qty > 0
    BY <1>1, <2>1 DEF At, BookInv, MarksExact, Marked
  <2>3. Quantities \in [Slots -> Int] /\ order \in [Slots -> Order] /\ \A s \in Slots : Quantities[s] = order[s].qty
    BY <1>1, BookTypes DEF Quantities, TypeOK
  <2>4. FoldSeq(LAMBDA s, sum : sum + order[s].qty, 0, Queue(t)) = Total(Quantities)[ToSet(Queue(t))]
    <3> HIDE DEF Quantities
    <3> QED BY <2>1, <2>3, FoldIsTotal DEF FoldSeq, FoldFunction, FoldFunctionOnSet, MapThenFoldSet
  <2>5. totalQty[t] = Total(Quantities)[At(t)]
    BY <1>1 DEF BookInv, TotalsExact
  <2> QED BY <2>1, <2>2, <2>4, <2>5
<1> QED BY <1>1, BookCorrect, PTL

-----------------------------------------------------------------------------
(* One place for every slot, and the ids that name it *)

LEMMA LinksOfSlot ==
  ASSUME TypeOK, BookInv, NEW s \in Slots
  PROVE  Links(s) = IF Held(s) THEN 1 ELSE 0
<1> DEFINE links == UNION {{<<t, i>> : i \in {j \in DOMAIN Queue(t) : Queue(t)[j] = s}} : t \in Ticks}
<1>1. \A t \in Ticks : \A i \in DOMAIN Queue(t) : Queue(t)[i] = s => Held(s) /\ order[s].idx = t
  BY DEF BookInv, QueuesExact, ToSet, At
<1>2. CASE Held(s)
  <2>1. PICK i \in Ticks : i = order[s].idx
    BY BookTypes
  <2>2. s \in ToSet(Queue(i))
    BY <1>2, <2>1 DEF BookInv, QueuesExact, At
  <2>3. PICK n \in DOMAIN Queue(i) : Queue(i)[n] = s
    BY <2>2 DEF ToSet
  <2>4. \A m \in DOMAIN Queue(i) : Queue(i)[m] = s => m = n
    BY <2>3 DEF BookInv, QueuesExact, IsInjective
  <2>5. links = {<<i, n>>}
    <3>1. <<i, n>> \in links
      BY <2>3
    <3>2. ASSUME NEW l \in links PROVE l = <<i, n>>
      <4>1. PICK t \in Ticks : l \in {<<t, m>> : m \in {j \in DOMAIN Queue(t) : Queue(t)[j] = s}}
        OBVIOUS
      <4>2. PICK m \in DOMAIN Queue(t) : Queue(t)[m] = s /\ l = <<t, m>>
        BY <4>1
      <4> QED BY <1>1, <2>1, <2>4, <4>2
    <3> QED BY <3>1, <3>2
  <2> QED BY <1>2, <2>5, FS_Singleton DEF Links
<1>3. CASE ~Held(s)
  <2>1. links = {}
    BY <1>1, <1>3
  <2> QED BY <1>3, <2>1, FS_EmptySet DEF Links
<1> QED BY <1>2, <1>3

LEMMA PlacesOfSlot ==
  ASSUME TypeOK, BookInv, NEW s \in Slots
  PROVE  Places(s) = IF Held(s) THEN 0 ELSE 1
<1> DEFINE places == {i \in DOMAIN free : free[i] = s}
<1>1. CASE Held(s)
  <2>1. places = {}
    BY <1>1 DEF BookInv, FreeExact, ToSet
  <2> QED BY <1>1, <2>1, FS_EmptySet DEF Places
<1>2. CASE ~Held(s)
  <2>1. PICK n \in DOMAIN free : free[n] = s
    BY <1>2 DEF BookInv, FreeExact, ToSet
  <2>2. places = {n}
    BY <2>1 DEF BookInv, FreeExact, IsInjective
  <2> QED BY <1>2, <2>2, FS_Singleton DEF Places
<1> QED BY <1>1, <1>2

\* No slot is leaked or linked twice: on the free list once, with an even
\* generation, or in one queue once, with an odd one, for every arena size.
THEOREM SlotsAccounted == Spec => []SlotAccounting
<1>1. ASSUME TypeOK, BookInv PROVE SlotAccounting
  <2> SUFFICES ASSUME NEW s \in Slots PROVE Places(s) + Links(s) = 1 /\ Links(s) = gens[s] % 2
    BY DEF SlotAccounting
  <2>1. Links(s) = (IF Held(s) THEN 1 ELSE 0) /\ Places(s) = (IF Held(s) THEN 0 ELSE 1)
    BY <1>1, LinksOfSlot, PlacesOfSlot
  <2>2. gens[s] \in Nat
    BY <1>1 DEF TypeOK
  <2> QED BY <2>1, <2>2 DEF Held
<1> QED BY <1>1, BookCorrect, PTL

\* Whatever id a client keeps, and even after a generation wrapped around, cancel
\* and reduce only touch a slot that holds an order linked into its level.
AcceptedIsLinked == \A id \in HeldIds : Accepts(id) => Links(id[1]) = 1

THEOREM NeverUnlinksFree == Spec => []AcceptedIsLinked
<1>1. ASSUME TypeOK, BookInv PROVE AcceptedIsLinked
  <2> SUFFICES ASSUME NEW id \in HeldIds, Accepts(id) PROVE Links(id[1]) = 1
    BY DEF AcceptedIsLinked
  <2>1. id[1] \in Slots /\ Held(id[1])
    BY <1>1, AcceptedHeld
  <2> QED BY <1>1, <2>1, LinksOfSlot
<1> QED BY <1>1, BookCorrect, PTL

\* No generation passes the bound by more than the release of the last order.
GensBounded ==
  \A s \in Slots : IF pc = "idle" THEN gens[s] + (gens[s] % 2) <= MaxGen + 1
                                  ELSE gens[s] + 1 + (gens[s] % 2) <= MaxGen

LEMMA GensStep == TypeOK /\ BookInv /\ GensBounded /\ [Next]_vars => GensBounded'
<1> SUFFICES ASSUME TypeOK, BookInv, GensBounded, [Next]_vars PROVE GensBounded'
  OBVIOUS
<1>0. MaxGen \in Nat /\ \A s \in Slots : gens[s] \in Nat /\ gens[s] % 2 \in {0, 1}
  BY BookAssumption DEF TypeOK
<1>1. ASSUME gens' = gens, pc' = pc \/ (pc' = "idle")
      PROVE  GensBounded'
  BY <1>0, <1>1 DEF GensBounded
<1>2. ASSUME gens' = gens, pc' # "idle", pc # "idle"
      PROVE  GensBounded'
  BY <1>2 DEF GensBounded
<1>3. ASSUME gens' = gens, WithinBound
      PROVE  GensBounded'
  BY <1>0, <1>3 DEF GensBounded, WithinBound
<1>4. ASSUME NEW s \in Slots, gens' = [gens EXCEPT ![s] = @ + 1], Held(s), pc' = pc
      PROVE  GensBounded'
  <2>1. \A g \in Nat : g % 2 = 1 => (g + 1) % 2 = 0
    OBVIOUS
  <2>2. gens'[s] = gens[s] + 1 /\ gens'[s] % 2 = 0 /\ gens[s] % 2 = 1
    BY <1>0, <1>4, <2>1 DEF TypeOK, Held
  <2>3. \A x \in Slots : x # s => gens'[x] = gens[x]
    BY <1>4 DEF TypeOK
  <2>4. ASSUME NEW x \in Slots
        PROVE IF pc = "idle" THEN gens'[x] + (gens'[x] % 2) <= MaxGen + 1
                             ELSE gens'[x] + 1 + (gens'[x] % 2) <= MaxGen
    <3>1. CASE x = s
      BY <1>0, <2>2, <3>1 DEF GensBounded
    <3>2. CASE x # s
      BY <2>3, <3>2 DEF GensBounded
    <3> QED BY <3>1, <3>2
  <2> QED BY <1>4, <2>4 DEF GensBounded
<1>5. ASSUME NEW s \in Slots, gens' = [gens EXCEPT ![s] = @ + 1], ~Held(s), pc # "idle", pc' = "idle"
      PROVE  GensBounded'
  <2>1. \A g \in Nat : ~ (g % 2 = 1) => g % 2 = 0 /\ (g + 1) % 2 = 1
    OBVIOUS
  <2>2. gens'[s] = gens[s] + 1 /\ gens'[s] % 2 = 1 /\ gens[s] % 2 = 0
    BY <1>0, <1>5, <2>1 DEF TypeOK, Held
  <2>3. \A x \in Slots : x # s => gens'[x] = gens[x]
    BY <1>5 DEF TypeOK
  <2>4. ASSUME NEW x \in Slots PROVE gens'[x] + (gens'[x] % 2) <= MaxGen + 1
    <3>1. CASE x = s
      BY <1>0, <1>5, <2>2, <3>1 DEF GensBounded
    <3>2. CASE x # s
      BY <1>0, <1>5, <2>3, <3>2 DEF GensBounded
    <3> QED BY <3>1, <3>2
  <2> QED BY <1>5, <2>4 DEF GensBounded
<1>6. CASE UNCHANGED vars
  BY <1>1, <1>6 DEF vars
<1>7. ASSUME NEW side \in Sides, NEW idx \in 0..NumTicks, NEW qty \in 0..MaxQty,
             NEW postOnly \in BOOLEAN, NewOrder(side, idx, qty, postOnly)
      PROVE  GensBounded'
  BY <1>1, <1>3, <1>7 DEF NewOrder, Reject, Start
<1>8. ASSUME NEW side \in Sides, NEW idx \in 0..NumTicks, NEW display \in 0..MaxQty,
             NEW total \in 0..MaxQty, NewIceberg(side, idx, display, total)
      PROVE  GensBounded'
  BY <1>1, <1>3, <1>8 DEF NewIceberg, Reject, Start
<1>9. CASE EnterSweep \/ LeaveSweep
  BY <1>2, <1>9 DEF EnterSweep, LeaveSweep
<1>10. CASE TakerFilled \/ RestExhausted \/ FillPart \/ FillReload
  BY <1>1, <1>10 DEF TakerFilled, RestExhausted, FillPart, FillReload
<1>11. CASE FillRelease
  <2>1. Maker \in Slots /\ Held(Maker)
    BY <1>11, MakerFacts DEF FillRelease
  <2>2. gens' = [gens EXCEPT ![Maker] = @ + 1] /\ pc' = pc
    BY <1>11 DEF FillRelease, Release
  <2> QED BY <1>4, <2>1, <2>2
<1>12. CASE Rest
  <2>1. PICK s \in Slots : Acquire(s)
    BY <1>12 DEF Rest
  <2>2. free # <<>> /\ s = Head(free) /\ gens' = [gens EXCEPT ![s] = @ + 1] /\ free \in Seq(Slots)
    BY <2>1 DEF Acquire, TypeOK
  <2>3. s \in ToSet(free)
    BY <2>2, SeqTail DEF BookInv, FreeExact
  <2>4. ~Held(s) /\ pc # "idle" /\ pc' = "idle"
    BY <1>12, <2>3 DEF BookInv, FreeExact, Rest, Resting
  <2> QED BY <1>5, <2>2, <2>4
<1>13. ASSUME NEW id \in HeldIds, Cancel(id)
       PROVE  GensBounded'
  <2>1. CASE Accepts(id)
    <3>1. id[1] \in Slots /\ Held(id[1])
      BY <2>1, AcceptedHeld
    <3>2. gens' = [gens EXCEPT ![id[1]] = @ + 1] /\ pc' = pc
      BY <1>13, <2>1 DEF Cancel, UnlinkAndRelease, Release
    <3> QED BY <1>4, <3>1, <3>2
  <2>2. CASE ~Accepts(id)
    BY <1>1, <1>13, <2>2 DEF Cancel, NotFound
  <2> QED BY <2>1, <2>2
<1>14. ASSUME NEW id \in HeldIds, NEW q \in 0..MaxQty, Reduce(id, q)
       PROVE  GensBounded'
  <2>1. CASE Accepts(id) /\ ReduceAll(id[1])
    <3>1. id[1] \in Slots /\ Held(id[1])
      BY <2>1, AcceptedHeld
    <3>2. gens' = [gens EXCEPT ![id[1]] = @ + 1] /\ pc' = pc
      BY <1>14, <2>1 DEF Reduce, ReduceAll, UnlinkAndRelease, Release
    <3> QED BY <1>4, <3>1, <3>2
  <2>2. CASE NotFound \/ ReducePart(id[1], q)
    BY <1>1, <1>14, <2>2 DEF Reduce, NotFound, ReducePart
  <2> QED BY <1>14, <2>1, <2>2 DEF Reduce
<1> QED BY <1>6, <1>7, <1>8, <1>9, <1>10, <1>11, <1>12, <1>13, <1>14 DEF Next, Engine, Calls

\* Before a generation wraps, an id that is accepted carries its slot's own.
LEMMA AcceptedGen ==
  ASSUME MaxGen < GenMod, TypeOK, GensBounded, NEW id \in Issued, Accepts(id)
  PROVE  id[2] = gens[id[1]]
<1>1. id[1] \in Slots /\ Held(id[1])
  BY AcceptedHeld DEF HeldIds
<1> DEFINE g == gens[id[1]]
           h == id[2]
<1>2. g \in Nat /\ h \in Nat /\ h <= g /\ h <= MaxGen /\ g % GenMod = h % GenMod /\ g % 2 = 1
  BY <1>1, BookAssumption DEF TypeOK, Issued, Accepts, Held
<1>3. g <= MaxGen
  BY <1>1, <1>2, BookAssumption DEF GensBounded
<1> HIDE DEF g, h
<1>4. g % GenMod = g /\ h % GenMod = h
  <2>1. g \in Nat /\ h \in Nat /\ GenMod \in Nat \ {0} /\ g < GenMod /\ h < GenMod
    BY <1>2, <1>3, BookAssumption
  <2>2. \A x \in Nat, m \in Nat \ {0} : x < m => x % m = x
    OBVIOUS
  <2> QED BY <2>1, <2>2
<1> QED BY <1>2, <1>4 DEF g, h

\* As long as no slot has been used so often that its generation wraps, an id is
\* accepted only while the order it was returned for still rests.
THEOREM StaleIdsMiss ==
  ASSUME MaxGen < GenMod
  PROVE  Spec => []StaleIdRejected
<1>1. ASSUME TypeOK, BookInv, GensBounded PROVE StaleIdRejected
  <2> SUFFICES ASSUME NEW id \in Issued, Accepts(id) PROVE id[2] = gens[id[1]] /\ Links(id[1]) = 1
    BY DEF StaleIdRejected
  <2>1. id[1] \in Slots /\ Held(id[1])
    BY <1>1, AcceptedHeld DEF HeldIds
  <2>2. Links(id[1]) = 1
    BY <1>1, <2>1, LinksOfSlot
  <2>3. id[2] = gens[id[1]]
    BY <1>1, AcceptedGen
  <2> QED BY <2>2, <2>3
<1>2. Init => GensBounded
  BY BookAssumption DEF Init, GensBounded
<1> QED BY <1>1, <1>2, BookCorrect, GensStep, PTL DEF Spec

-----------------------------------------------------------------------------
(* A call that has traded can rest *)

\* A sweep's orders cross the taker's; a call that traded since it began gave a
\* slot back, or has nothing left, or stays with a level that still has orders.
CallInv ==
  /\ pc = "sweep" => /\ Crosses(taker.side, taker.idx)
                     /\ free # <<>> \/ taker.qty = 0 \/ Queue(sweep) # <<>>
  /\ pc = "match" /\ taker.qty # taker.orig =>
       free # <<>> \/ taker.qty = 0 \/ Crosses(taker.side, taker.idx)

LEMMA CallStep == TypeOK /\ BestInv /\ BookInv /\ CallInv /\ [Next]_vars => CallInv'
<1> SUFFICES ASSUME TypeOK, BestInv, BookInv, CallInv, [Next]_vars PROVE CallInv'
  OBVIOUS
<1>1. CASE UNCHANGED vars
  BY <1>1 DEF vars, CallInv, Crosses, Queue
<1>2. ASSUME pc' = "idle" PROVE CallInv'
  BY <1>2 DEF CallInv
<1>3. ASSUME NEW side \in Sides, NEW idx \in 0..NumTicks, NEW qty \in 0..MaxQty,
             NEW postOnly \in BOOLEAN, NewOrder(side, idx, qty, postOnly)
      PROVE  CallInv'
  BY <1>2, <1>3 DEF NewOrder, Reject, Start, CallInv
<1>4. ASSUME NEW side \in Sides, NEW idx \in 0..NumTicks, NEW display \in 0..MaxQty,
             NEW total \in 0..MaxQty, NewIceberg(side, idx, display, total)
      PROVE  CallInv'
  BY <1>2, <1>4 DEF NewIceberg, Reject, Start, CallInv
<1>5. CASE EnterSweep
  <2>1. /\ pc = "match" /\ pc' = "sweep" /\ reload' = <<>> /\ Crosses(taker.side, taker.idx)
        /\ sweep' = IF taker.side = "Buy" THEN bestAsk ELSE bestBid
        /\ UNCHANGED <<levels, bestBid, bestAsk, taker, free>>
    BY <1>5 DEF EnterSweep, bookVars
  <2>2. SweepAtBest'
    BY <1>5, BestStep DEF BestInv
  <2>3. PICK t \in Ticks : t = sweep'
    BY TypeStep DEF TypeOK
  <2>4. t \in bids \union asks
    BY <1>5, <2>1, <2>2, <2>3 DEF SweepAtBest, EnterSweep, bookVars
  <2>5. At(t) # {}
    BY <2>1, <2>4 DEF BookInv, MarksExact
  <2>6. Queue(t) # <<>> /\ Queue(t) = levels[t]
    BY <2>1, <2>5 DEF Queue, BookInv, QueuesExact, ToSet
  <2>7. Queue(sweep)' # <<>>
    <3>1. levels[t] \o <<>> = levels[t]
      BY BookTypes
    <3> QED BY <2>1, <2>3, <2>6, <3>1 DEF Queue
  <2> QED BY <2>1, <2>7 DEF CallInv, Crosses
<1>6. CASE TakerFilled \/ RestExhausted \/ Rest
  BY <1>2, <1>6 DEF TakerFilled, RestExhausted, Rest
<1>7. ASSUME Filling, taker' = [taker EXCEPT !.qty = @ - Fill], UNCHANGED <<bestBid, bestAsk, pc, sweep>>
      PROVE  pc' = "sweep" /\ Crosses(taker.side, taker.idx)' /\ taker'.qty = taker.qty - Fill
  <2>1. pc = "sweep" /\ taker \in Taker
    BY <1>7 DEF Filling, TypeOK
  <2>2. taker'.side = taker.side /\ taker'.idx = taker.idx /\ taker'.qty = taker.qty - Fill
    BY <1>7, <2>1 DEF Taker
  <2> QED BY <1>7, <2>1, <2>2 DEF CallInv, Crosses
<1>8. CASE FillPart
  <2>1. Fill = taker.qty /\ taker.qty \in Nat
    BY <1>8, MakerFacts, BookTypes DEF FillPart, Fill, Least
  <2> QED BY <1>7, <1>8, <2>1 DEF FillPart, CallInv
<1>9. CASE FillReload
  <2>1. /\ levels[sweep] \in Seq(Slots) /\ levels[sweep] # <<>> /\ reload \in Seq(Slots)
        /\ sweep \in Ticks /\ Maker \in Slots
    BY <1>9, MakerFacts DEF FillReload
  <2>2. reload' = Append(reload, Maker) /\ levels'[sweep] = Tail(levels[sweep])
    BY <1>9, <2>1 DEF FillReload, TypeOK
  <2>3. Append(reload, Maker) \in Seq(Slots) /\ Append(reload, Maker) # <<>>
    BY <2>1
  <2>a. Tail(levels[sweep]) \in Seq(Slots)
    BY <2>1
  <2>b. levels'[sweep] \o reload' # <<>>
    BY <2>2, <2>3, <2>a
  <2>4. Queue(sweep)' # <<>>
    BY <1>9, <2>b DEF FillReload, Filling, Queue
  <2> QED BY <1>7, <1>9, <2>4 DEF FillReload, CallInv
<1>10. CASE FillRelease
  <2>1. free' # <<>>
    BY <1>10 DEF FillRelease, Release, TypeOK
  <2> QED BY <1>7, <1>10, <2>1 DEF FillRelease, CallInv
<1>11. CASE LeaveSweep
  <2>1. /\ pc = "sweep" /\ pc' = "match" /\ UNCHANGED <<taker, free>> /\ Spliced = Queue(sweep)
    BY <1>11 DEF LeaveSweep, Spliced, Queue
  <2>2. CASE Spliced # <<>>
    BY <1>11, <2>1, <2>2 DEF LeaveSweep, CallInv, Crosses
  <2>3. CASE Spliced = <<>>
    BY <2>1, <2>3 DEF CallInv
  <2> QED BY <2>2, <2>3
<1>12. ASSUME NEW id \in HeldIds, Cancel(id)
       PROVE  CallInv'
  BY <1>2, <1>12 DEF Cancel
<1>13. ASSUME NEW id \in HeldIds, NEW q \in 0..MaxQty, Reduce(id, q)
       PROVE  CallInv'
  BY <1>2, <1>13 DEF Reduce
<1> QED BY <1>1, <1>3, <1>4, <1>5, <1>6, <1>8, <1>9, <1>10, <1>11, <1>12, <1>13
        DEF Next, Engine, Calls

\* A call that has traded never returns 0, "rejected", for want of a slot.
THEOREM TradedCanRest == Spec => []PartialFillCanRest
<1>1. ASSUME TypeOK, CallInv PROVE PartialFillCanRest
  <2>1. taker.qty \in Nat /\ taker.orig \in Nat
    BY <1>1 DEF TypeOK, Taker
  <2> QED BY <1>1, <2>1 DEF CallInv, PartialFillCanRest, Resting
<1>2. Init => CallInv
  BY DEF Init, CallInv
<1> QED BY <1>1, <1>2, BookCorrect, CallStep, PTL DEF Spec

-----------------------------------------------------------------------------
(* The engine uses its storage as Ladder allows *)

\* The refilled makers exist while a sweep runs.
LadderInv == pc # "sweep" => reload = <<>>

LEMMA LadderStep == LadderInv /\ [Next]_vars => LadderInv'
<1> SUFFICES ASSUME LadderInv, [Next]_vars PROVE LadderInv'
  OBVIOUS
<1>1. ASSUME pc # "sweep", UNCHANGED reload PROVE LadderInv'
  BY <1>1 DEF LadderInv
<1>2. CASE UNCHANGED vars
  BY <1>2 DEF vars, LadderInv
<1>3. CASE EnterSweep \/ LeaveSweep
  BY <1>3 DEF EnterSweep, LeaveSweep, LadderInv
<1>4. CASE FillPart \/ FillReload \/ FillRelease
  BY <1>4 DEF FillPart, FillReload, FillRelease, Filling, LadderInv
<1>5. CASE TakerFilled \/ Rest \/ RestExhausted
  BY <1>1, <1>5 DEF TakerFilled, Rest, RestExhausted, Resting
<1>6. CASE Calls
  BY <1>1, <1>6 DEF Calls, NewOrder, NewIceberg, Cancel, Reduce, Reject, Start
<1> QED BY <1>2, <1>3, <1>4, <1>5, <1>6 DEF Next, Engine

LEMMA EmptyBelow == \A k \in Nat : k >= 1 => (1 .. k - 1 = {} <=> k = 1)
<1> SUFFICES ASSUME NEW k \in Nat, k > 1 PROVE 1 .. k - 1 # {}
  OBVIOUS
<1>1. 1 \in 1 .. k - 1
  OBVIOUS
<1> QED BY <1>1

LEMMA SeqConcat ==
  ASSUME NEW V, NEW a \in Seq(V), NEW b \in Seq(V)
  PROVE  /\ a \o b \in Seq(V) /\ Len(a \o b) = Len(a) + Len(b)
         /\ \A i \in 1 .. Len(a) + Len(b) : (a \o b)[i] = IF i <= Len(a) THEN a[i] ELSE b[i - Len(a)]
OBVIOUS

LEMMA SeqEqual ==
  ASSUME NEW V, NEW a \in Seq(V), NEW b \in Seq(V), Len(a) = Len(b),
         \A i \in 1 .. Len(b) : a[i] = b[i]
  PROVE  a = b
OBVIOUS

LEMMA RemoveAtIs ==
  ASSUME NEW V, NEW q \in Seq(V), NEW p \in 1 .. Len(q)
  PROVE  /\ RemoveAt(q, p) \in Seq(V) /\ Len(RemoveAt(q, p)) = Len(q) - 1
         /\ \A i \in 1 .. Len(q) - 1 : RemoveAt(q, p)[i] = q[IF i < p THEN i ELSE i + 1]
<1> DEFINE a == SubSeq(q, 1, p - 1)
           b == SubSeq(q, p + 1, Len(q))
<1>1. Len(q) \in Nat /\ p \in Nat /\ p >= 1 /\ p <= Len(q)
  OBVIOUS
<1>2. /\ a \in Seq(V) /\ Len(a) = p - 1 /\ \A i \in 1 .. p - 1 : a[i] = q[i]
      /\ b \in Seq(V) /\ Len(b) = Len(q) - p /\ \A i \in 1 .. Len(q) - p : b[i] = q[p + i]
  BY <1>1
<1>3. RemoveAt(q, p) = a \o b
  BY DEF RemoveAt
<1> HIDE DEF a, b
<1>4. a \o b \in Seq(V) /\ Len(a \o b) = Len(q) - 1
  <2>1. a \o b \in Seq(V) /\ Len(a \o b) = Len(a) + Len(b)
    BY <1>2, SeqConcat
  <2> QED BY <1>1, <1>2, <2>1
<1>5. ASSUME NEW i \in 1 .. Len(q) - 1 PROVE (a \o b)[i] = q[IF i < p THEN i ELSE i + 1]
  <2>1. i \in 1 .. Len(a) + Len(b) /\ i \in Nat
    BY <1>1, <1>2
  <2>2. CASE i < p
    <3>1. (a \o b)[i] = a[i]
      BY <1>1, <1>2, <2>1, <2>2, SeqConcat
    <3>2. i \in 1 .. p - 1
      BY <1>1, <2>2
    <3> QED BY <1>2, <2>2, <3>1, <3>2
  <2>3. CASE i >= p
    <3>1. (a \o b)[i] = b[i - (p - 1)]
      BY <1>1, <1>2, <2>1, <2>3, SeqConcat
    <3>2. i - (p - 1) \in 1 .. Len(q) - p /\ p + (i - (p - 1)) = i + 1
      BY <1>1, <2>3
    <3>3. b[i - (p - 1)] = q[i + 1]
      BY <1>2, <3>2
    <3> QED BY <1>1, <2>3, <3>1, <3>3
  <2> QED BY <1>1, <2>1, <2>2, <2>3
<1> QED BY <1>3, <1>4, <1>5

\* Taking the only position a slot has out of a queue is the intrusive unlink.
LEMMA UnlinkedIsRemoveAt ==
  ASSUME NEW q \in Seq(Slots), IsInjective(q), NEW s \in ToSet(q)
  PROVE  \E n \in 1 .. Len(q) : q[n] = s /\ Unlinked(q, s) = RemoveAt(q, n)
<1> DEFINE p == CHOOSE i \in DOMAIN q : q[i] = s
           r == Unlinked(q, s)
<1>1. p \in DOMAIN q /\ q[p] = s
  BY DEF ToSet
<1>2. Len(q) \in Nat /\ p \in 1 .. Len(q) /\ r = [i \in 1 .. Len(q) - 1 |-> q[IF i < p THEN i ELSE i + 1]]
  BY <1>1 DEF Unlinked
<1> HIDE DEF p
<1>3. r \in Seq(Slots)
  <2>1. s \in Slots
    BY <1>1
  <2> QED BY <2>1, UnlinkedType
<1>4. Len(r) = Len(q) - 1 /\ \A i \in 1 .. Len(q) - 1 : r[i] = q[IF i < p THEN i ELSE i + 1]
  BY <1>2
<1> HIDE DEF r
<1>5. /\ RemoveAt(q, p) \in Seq(Slots) /\ Len(RemoveAt(q, p)) = Len(q) - 1
      /\ \A i \in 1 .. Len(q) - 1 : RemoveAt(q, p)[i] = q[IF i < p THEN i ELSE i + 1]
  BY <1>2, RemoveAtIs
<1>6. RemoveAt(q, p) = r
  BY <1>3, <1>4, <1>5, SeqEqual
<1> QED BY <1>1, <1>2, <1>6 DEF r

\* A queue that holds no slot twice is no longer than the arena.
LEMMA InjectiveShort ==
  ASSUME NEW q \in Seq(Slots), IsInjective(q)
  PROVE  Len(q) <= PoolCap
<1>1. Len(q) \in Nat /\ DOMAIN q = 1 .. Len(q) /\ q \in [1 .. Len(q) -> Slots]
  OBVIOUS
<1>2. IsFiniteSet(1 .. Len(q)) /\ Cardinality(1 .. Len(q)) = Len(q)
  BY <1>1, FS_Interval
<1>3. IsFiniteSet(Slots) /\ Cardinality(Slots) = PoolCap
  BY SlotsFinite, FS_Interval DEF Slots
<1>4. CASE Len(q) > PoolCap
  <2>1. \E i, j \in 1 .. Len(q) : i # j /\ q[i] = q[j]
    BY <1>1, <1>2, <1>3, <1>4, SlotsFinite, FS_PigeonHole
  <2> QED BY <1>1, <2>1 DEF IsInjective
<1> QED BY <1>1, <1>4, SlotsFinite

LEMMA LadderTypes ==
  ASSUME TypeOK
  PROVE  /\ Storage!Idle <=> pc # "sweep"
         /\ Storage!Ticks = Ticks
         /\ pc = "sweep" => Storage!Swept = levels[sweep]
BY TicksNat DEF TypeOK, Storage!Idle, Storage!Ticks, Ticks, Storage!Swept

\* An order that leaves by its id leaves its level as Ladder lets it.
LEMMA UnlinkUnlinks ==
  ASSUME TypeOK, BookInv, pc = "idle", UNCHANGED <<pc, sweep, reload>>,
         NEW s \in Slots, Held(s), UnlinkAndRelease(s)
  PROVE  Storage!Next
<1>1. PICK t \in Ticks : t = order[s].idx
  BY BookTypes
<1>2. PICK q \in Seq(Slots) : q = levels[t]
  BY BookTypes
<1>3. IsInjective(q) /\ s \in ToSet(q) /\ ToSet(q) = At(t)
  BY <1>1, <1>2, QueueIdle DEF BookInv, QueuesExact, At
<1>4. PICK n \in 1 .. Len(q) : q[n] = s /\ Unlinked(q, s) = RemoveAt(q, n)
  BY <1>3, UnlinkedIsRemoveAt
<1>5. /\ levels' = [levels EXCEPT ![t] = RemoveAt(@, n)]
      /\ free' = <<levels[t][n]>> \o free
      /\ bids' = IF Unlinked(q, s) = <<>> /\ order[s].side = "Buy" THEN bids \ {t} ELSE bids
      /\ asks' = IF Unlinked(q, s) = <<>> /\ order[s].side = "Sell" THEN asks \ {t} ELSE asks
  BY <1>1, <1>2, <1>4 DEF UnlinkAndRelease, Release, TypeOK
<1>6. Unlinked(q, s) = <<>> <=> Len(q) = 1
  <2>1. Len(q) \in Nat /\ Len(q) >= 1
    BY <1>4
  <2>2. DOMAIN Unlinked(q, s) = 1 .. Len(q) - 1
    BY DEF Unlinked
  <2>3. Unlinked(q, s) \in Seq(Slots)
    BY <1>3, SeqUnlink
  <2>4. Unlinked(q, s) = <<>> <=> 1 .. Len(q) - 1 = {}
    <3> DEFINE u == Unlinked(q, s)
    <3> HIDE DEF u
    <3>1. u \in Seq(Slots) => (u = <<>> <=> DOMAIN u = {})
      OBVIOUS
    <3> QED BY <2>2, <2>3, <3>1 DEF u
  <2>5. 1 .. Len(q) - 1 = {} <=> Len(q) = 1
    BY <2>1, EmptyBelow
  <2> QED BY <2>4, <2>5
<1>7. t \in Marks(order[s].side) /\ order[s].side \in {"Buy", "Sell"} /\ bids \intersect asks = {}
  BY <1>1, BookTypes DEF BookInv, MarksExact, Marked, Sides
<1>8. (bids \union asks)' = IF Len(levels[t]) = 1 THEN (bids \union asks) \ {t} ELSE bids \union asks
  BY <1>2, <1>5, <1>6, <1>7 DEF Marks
<1>9. n \in 1 .. PoolCap /\ n <= Len(levels[t])
  <2>1. Len(q) <= PoolCap
    BY <1>3, InjectiveShort
  <2> QED BY <1>2, <1>4, <2>1, SlotsFinite
<1>10. Storage!Idle
  BY LadderTypes
<1>11. UNCHANGED <<IF pc = "sweep" THEN sweep ELSE NumTicks, reload>>
  OBVIOUS
<1>12. Storage!Unlink(t, n)
  BY <1>5, <1>8, <1>10, <1>11, Zenon DEF Storage!Unlink, Storage!RemoveAt, RemoveAt
<1> QED BY <1>9, <1>12, LadderTypes DEF Storage!Next

LEMMA RestRests ==
  ASSUME TypeOK, Rest
  PROVE  Storage!Next
<1>1. PICK t \in Ticks : t = taker.idx
  BY DEF TypeOK, Taker
<1>2. PICK s \in Slots : /\ free # <<>> /\ s = Head(free) /\ free' = Tail(free)
                         /\ levels' = [levels EXCEPT ![t] = Append(@, s)]
  BY <1>1 DEF Rest, Acquire
<1>3. (bids \union asks)' = (bids \union asks) \union {t}
  BY <1>1 DEF Rest, MarkOccupied
<1>4. Storage!Rest(t)
  BY <1>2, <1>3, LadderTypes DEF Storage!Rest, Rest, Resting
<1> QED BY <1>4, LadderTypes DEF Storage!Next

LEMMA LeaveEnds ==
  ASSUME TypeOK, BestInv, BookInv, LeaveSweep
  PROVE  Storage!Next
<1>1. /\ pc = "sweep" /\ pc' = "match" /\ sweep' = sweep /\ reload' = <<>> /\ free' = free
      /\ levels' = [levels EXCEPT ![sweep] = @ \o reload]
      /\ Spliced = levels[sweep] \o reload
      /\ bids' = IF Spliced = <<>> /\ taker.side # "Buy" THEN bids \ {sweep} ELSE bids
      /\ asks' = IF Spliced = <<>> /\ taker.side = "Buy" THEN asks \ {sweep} ELSE asks
  BY DEF LeaveSweep, Spliced, TypeOK
<1>2. IF taker.side = "Buy" THEN sweep \in asks ELSE sweep \in bids
  BY <1>1 DEF BestInv, SweepAtBest
<1>3. bids \intersect asks = {}
  BY DEF BookInv, MarksExact
<1>4. (bids \union asks)' = IF Spliced = <<>> THEN (bids \union asks) \ {sweep} ELSE bids \union asks
  BY <1>1, <1>2, <1>3
<1>5. Storage!End
  BY <1>1, <1>4, LadderTypes DEF Storage!End
<1> QED BY <1>5 DEF Storage!Next

LEMMA EnterBegins ==
  ASSUME TypeOK, TypeOK', BestInv', LadderInv, EnterSweep
  PROVE  Storage!Next
<1>1. /\ pc = "match" /\ pc' = "sweep" /\ reload' = reload
      /\ UNCHANGED <<levels, free, bids, asks>>
  BY DEF EnterSweep, bookVars, LadderInv
<1>2. PICK t \in Ticks : t = sweep'
  BY DEF TypeOK
<1>3. t \in bids \union asks
  BY <1>1, <1>2 DEF BestInv, SweepAtBest
<1>4. Storage!Begin(t)
  BY <1>1, <1>2, <1>3, LadderTypes DEF Storage!Begin
<1> QED BY <1>4, LadderTypes DEF Storage!Next

LEMMA FillTakes ==
  ASSUME TypeOK, FillReload \/ FillRelease
  PROVE  Storage!Next
<1>1. /\ pc = "sweep" /\ UNCHANGED <<bids, asks, pc, sweep>> /\ levels[sweep] # <<>>
      /\ levels' = [levels EXCEPT ![sweep] = Tail(@)]
  BY DEF FillReload, FillRelease, Filling
<1>2. CASE FillReload
  BY <1>1, <1>2, LadderTypes DEF FillReload, Maker, Storage!Keep, Storage!Next
<1>3. CASE FillRelease
  BY <1>1, <1>3, LadderTypes DEF FillRelease, Release, Maker, Storage!Take, Storage!Next
<1> QED BY <1>2, <1>3

\* The engine sweeps occupied levels only, appends at the back, unlinks what is
\* queued, and takes and gives back slots as on a stack: all that LadderStorage
\* implements with links and words, for every size of ladder and arena.
THEOREM LadderUsed == Spec => UsesLadder
<1>1. Init => Storage!Init
  BY TicksNat DEF Init, Storage!Init, Storage!Ticks, Ticks
<1>2. TypeOK /\ BestInv /\ BookInv /\ LadderInv /\ [Next]_vars => [Storage!Next]_(Storage!vars)
  <2> SUFFICES ASSUME TypeOK, BestInv, BookInv, LadderInv, [Next]_vars
               PROVE  Storage!Next \/ UNCHANGED Storage!vars
    OBVIOUS
  <2>1. TypeOK' /\ BestInv'
    BY TypeStep, BestStep
  <2>2. ASSUME UNCHANGED <<levels, free, bids, asks, reload>>, pc # "sweep", pc' # "sweep"
        PROVE  UNCHANGED Storage!vars
    BY <2>2 DEF Storage!vars
  <2>3. CASE UNCHANGED vars
    BY <2>3 DEF vars, Storage!vars
  <2>4. ASSUME NEW side \in Sides, NEW idx \in 0..NumTicks, NEW qty \in 0..MaxQty,
               NEW postOnly \in BOOLEAN, NewOrder(side, idx, qty, postOnly)
        PROVE  UNCHANGED Storage!vars
    BY <2>2, <2>4 DEF NewOrder, Reject, Start, bookVars
  <2>5. ASSUME NEW side \in Sides, NEW idx \in 0..NumTicks, NEW display \in 0..MaxQty,
               NEW total \in 0..MaxQty, NewIceberg(side, idx, display, total)
        PROVE  UNCHANGED Storage!vars
    BY <2>2, <2>5 DEF NewIceberg, Reject, Start, bookVars
  <2>6. CASE TakerFilled \/ RestExhausted
    BY <2>2, <2>6 DEF TakerFilled, RestExhausted, Resting, bookVars
  <2>7. CASE FillPart
    BY <2>7 DEF FillPart, Storage!vars
  <2>8. CASE EnterSweep \/ FillReload \/ FillRelease \/ LeaveSweep \/ Rest
    BY <2>1, <2>8, EnterBegins, FillTakes, LeaveEnds, RestRests
  <2>9. ASSUME NEW id \in HeldIds, Cancel(id)
        PROVE  Storage!Next \/ UNCHANGED Storage!vars
    <3>1. CASE Accepts(id)
      <4>1. id[1] \in Slots /\ Held(id[1])
        BY <3>1, AcceptedHeld
      <4>2. pc = "idle" /\ UnlinkAndRelease(id[1]) /\ UNCHANGED <<pc, sweep, reload>>
        BY <2>9, <3>1 DEF Cancel
      <4> QED BY <4>1, <4>2, UnlinkUnlinks
    <3>2. CASE ~Accepts(id)
      BY <2>2, <2>9, <3>2 DEF Cancel, NotFound, bookVars
    <3> QED BY <3>1, <3>2
  <2>10. ASSUME NEW id \in HeldIds, NEW q \in 0..MaxQty, Reduce(id, q)
         PROVE  Storage!Next \/ UNCHANGED Storage!vars
    <3>0. pc = "idle" /\ UNCHANGED <<pc, taker, sweep, reload>>
      BY <2>10 DEF Reduce
    <3>1. CASE Accepts(id) /\ ReduceAll(id[1])
      <4>1. id[1] \in Slots /\ Held(id[1])
        BY <3>1, AcceptedHeld
      <4> QED BY <3>0, <3>1, <4>1, UnlinkUnlinks DEF ReduceAll
    <3>2. CASE NotFound \/ ReducePart(id[1], q)
      BY <2>2, <3>0, <3>2 DEF NotFound, ReducePart, bookVars
    <3> QED BY <2>10, <3>1, <3>2 DEF Reduce
  <2> QED BY <2>3, <2>4, <2>5, <2>6, <2>7, <2>8, <2>9, <2>10 DEF Next, Engine, Calls
<1>3. Init => LadderInv
  BY DEF Init, LadderInv
<1> QED BY <1>1, <1>2, <1>3, BookCorrect, LadderStep, PTL DEF Spec, UsesLadder, Storage!Spec

-----------------------------------------------------------------------------
(* Queues shown slot by slot: a level's list of slots, seen as orders *)

LEMMA SeqEnds ==
  ASSUME NEW V, NEW q \in Seq(V), q # <<>>
  PROVE  /\ Len(q) \in Nat /\ Len(q) >= 1 /\ Head(q) = q[1] /\ Head(q) \in V
         /\ Tail(q) \in Seq(V) /\ Len(Tail(q)) = Len(q) - 1
         /\ \A i \in 1 .. Len(q) - 1 : Tail(q)[i] = q[i + 1]
OBVIOUS

LEMMA SeqReplaced ==
  ASSUME NEW V, NEW q \in Seq(V), q # <<>>, NEW e \in V
  PROVE  /\ <<e>> \o Tail(q) \in Seq(V) /\ Len(<<e>> \o Tail(q)) = Len(q)
         /\ (<<e>> \o Tail(q))[1] = e
         /\ \A i \in 2 .. Len(q) : (<<e>> \o Tail(q))[i] = q[i]
<1> DEFINE r == Tail(q)
           a == <<e>>
<1>1. /\ Len(q) \in Nat /\ Len(q) >= 1 /\ r \in Seq(V) /\ Len(r) = Len(q) - 1
      /\ \A i \in 1 .. Len(q) - 1 : r[i] = q[i + 1]
  BY SeqEnds
<1>2. a \in Seq(V) /\ Len(a) = 1 /\ a[1] = e
  OBVIOUS
<1> HIDE DEF r, a
<1>3. /\ a \o r \in Seq(V) /\ Len(a \o r) = 1 + Len(r)
      /\ \A i \in 1 .. 1 + Len(r) : (a \o r)[i] = IF i <= 1 THEN a[i] ELSE r[i - 1]
  <2>1. /\ a \o r \in Seq(V) /\ Len(a \o r) = Len(a) + Len(r)
        /\ \A i \in 1 .. Len(a) + Len(r) : (a \o r)[i] = IF i <= Len(a) THEN a[i] ELSE r[i - Len(a)]
    <3> HIDE DEF a
    <3>1. a \in Seq(V) /\ r \in Seq(V)
      BY <1>1, <1>2
    <3> QED BY <3>1, SeqConcat
  <2> QED BY <1>2, <2>1
<1>4. Len(a \o r) = Len(q) /\ (a \o r)[1] = e
  BY <1>1, <1>2, <1>3
<1>5. ASSUME NEW i \in 2 .. Len(q) PROVE (a \o r)[i] = q[i]
  <2>1. i - 1 \in 1 .. Len(q) - 1 /\ i \in 1 .. 1 + Len(r) /\ ~ (i <= 1) /\ (i - 1) + 1 = i
    BY <1>1
  <2>2. (a \o r)[i] = r[i - 1]
    BY <1>3, <2>1
  <2>3. r[i - 1] = q[(i - 1) + 1]
    BY <1>1, <2>1
  <2> QED BY <2>1, <2>2, <2>3
<1> QED BY <1>3, <1>4, <1>5 DEF r, a

LEMMA SeqRotated ==
  ASSUME NEW V, NEW q \in Seq(V), q # <<>>, NEW e \in V
  PROVE  /\ Append(Tail(q), e) \in Seq(V) /\ Len(Append(Tail(q), e)) = Len(q)
         /\ Append(Tail(q), e)[Len(q)] = e
         /\ \A i \in 1 .. Len(q) - 1 : Append(Tail(q), e)[i] = q[i + 1]
<1> DEFINE r == Tail(q)
<1>1. /\ Len(q) \in Nat /\ Len(q) >= 1 /\ r \in Seq(V) /\ Len(r) = Len(q) - 1
      /\ \A i \in 1 .. Len(q) - 1 : r[i] = q[i + 1]
  BY SeqEnds
<1> HIDE DEF r
<1>2. /\ Append(r, e) \in Seq(V) /\ Len(Append(r, e)) = Len(r) + 1
      /\ Append(r, e)[Len(r) + 1] = e /\ \A i \in 1 .. Len(r) : Append(r, e)[i] = r[i]
  BY <1>1
<1>3. Len(r) + 1 = Len(q)
  BY <1>1
<1> QED BY <1>1, <1>2, <1>3 DEF r


\* b shows the slots of q by v.
Shows(b, v, q) == Len(b) = Len(q) /\ \A i \in 1 .. Len(q) : b[i] = v[q[i]]

\* v and w show every slot but s alike.
SameBut(v, w, s) == \A x \in Slots : x # s => w[x] = v[x]

LEMMA ShownFront ==
  ASSUME NEW V, NEW v \in [Slots -> V], NEW q \in Seq(Slots), q # <<>>,
         NEW a \in Seq(V), Shows(a, v, q)
  PROVE  /\ a # <<>> /\ Head(a) = v[Head(q)] /\ Head(q) = q[1] /\ 1 \in 1 .. Len(q)
         /\ Len(q) \in Nat /\ Len(q) >= 1 /\ \A i \in 1 .. Len(q) : q[i] \in Slots
<1>1. Len(q) \in Nat /\ Len(q) >= 1 /\ Head(q) = q[1] /\ \A i \in 1 .. Len(q) : q[i] \in Slots
  OBVIOUS
<1>2. a # <<>>
  BY <1>1 DEF Shows
<1>3. Head(a) = a[1]
  BY <1>2
<1> QED BY <1>1, <1>2, <1>3 DEF Shows

\* Only the maker in front changed.
LEMMA ShownReplaced ==
  ASSUME NEW V, NEW v \in [Slots -> V], NEW w \in [Slots -> V],
         NEW q \in Seq(Slots), q # <<>>, IsInjective(q),
         NEW a \in Seq(V), NEW b \in Seq(V), Shows(a, v, q), Shows(b, w, q),
         SameBut(v, w, Head(q))
  PROVE  b = <<w[Head(q)]>> \o Tail(a)
<1> DEFINE r == <<w[Head(q)]>> \o Tail(a)
<1>1. /\ a # <<>> /\ Head(q) = q[1] /\ Len(q) \in Nat /\ Len(q) >= 1 /\ 1 \in 1 .. Len(q)
      /\ \A i \in 1 .. Len(q) : q[i] \in Slots
  BY ShownFront
<1>2. w[Head(q)] \in V
  BY <1>1
<1>3. /\ r \in Seq(V) /\ Len(r) = Len(a) /\ r[1] = w[Head(q)]
      /\ \A i \in 2 .. Len(a) : r[i] = a[i]
  BY <1>1, <1>2, SeqReplaced
<1> HIDE DEF r
<1>4. ASSUME NEW i \in 1 .. Len(q) PROVE b[i] = r[i]
  <2>1. CASE i = 1
    BY <1>1, <1>3, <2>1 DEF Shows
  <2>2. CASE i # 1
    <3>1. i \in 2 .. Len(q) /\ i \in DOMAIN q /\ 1 \in DOMAIN q
      BY <1>1, <2>2
    <3>2. q[i] # Head(q) /\ q[i] \in Slots
      BY <1>1, <2>2, <3>1 DEF IsInjective
    <3>3. w[q[i]] = v[q[i]]
      BY <3>2 DEF SameBut
    <3> QED BY <1>3, <3>1, <3>3 DEF Shows
  <2> QED BY <2>1, <2>2
<1>5. Len(b) = Len(r) /\ Len(r) = Len(q)
  BY <1>3 DEF Shows
<1> QED BY <1>3, <1>4, <1>5, SeqEqual DEF r

\* The maker in front changed and went to the back.
LEMMA ShownRotated ==
  ASSUME NEW V, NEW v \in [Slots -> V], NEW w \in [Slots -> V],
         NEW q \in Seq(Slots), q # <<>>, IsInjective(q),
         NEW a \in Seq(V), NEW b \in Seq(V), Shows(a, v, q), Shows(b, w, Append(Tail(q), Head(q))),
         SameBut(v, w, Head(q))
  PROVE  b = Append(Tail(a), w[Head(q)])
<1> DEFINE r == Append(Tail(a), w[Head(q)])
           t == Append(Tail(q), Head(q))
<1>1. /\ a # <<>> /\ Head(q) = q[1] /\ Len(q) \in Nat /\ Len(q) >= 1 /\ 1 \in 1 .. Len(q)
      /\ Head(q) \in Slots /\ w[Head(q)] \in V
  BY ShownFront
<1>2. /\ r \in Seq(V) /\ Len(r) = Len(a) /\ r[Len(a)] = w[Head(q)]
      /\ \A i \in 1 .. Len(a) - 1 : r[i] = a[i + 1]
  BY <1>1, SeqRotated
<1>3. /\ t \in Seq(Slots) /\ Len(t) = Len(q) /\ t[Len(q)] = Head(q)
      /\ \A i \in 1 .. Len(q) - 1 : t[i] = q[i + 1]
  BY <1>1, SeqRotated
<1>4. Len(a) = Len(q) /\ \A i \in 1 .. Len(q) : a[i] = v[q[i]]
  BY DEF Shows
<1>5. Len(b) = Len(q) /\ \A i \in 1 .. Len(q) : b[i] = w[t[i]]
  BY <1>3 DEF Shows
<1> HIDE DEF r, t
<1>6. ASSUME NEW i \in 1 .. Len(q) PROVE b[i] = r[i]
  <2>1. CASE i = Len(q)
    BY <1>1, <1>2, <1>3, <1>4, <1>5, <2>1
  <2>2. CASE i # Len(q)
    <3>1. i \in 1 .. Len(q) - 1 /\ i + 1 \in 1 .. Len(q) /\ i + 1 # 1
      BY <1>1, <2>2
    <3>2. q[i + 1] \in Slots /\ q[i + 1] # Head(q)
      BY <1>1, <3>1 DEF IsInjective
    <3>3. b[i] = w[q[i + 1]] /\ r[i] = a[i + 1] /\ a[i + 1] = v[q[i + 1]]
      BY <1>2, <1>3, <1>4, <1>5, <3>1
    <3> QED BY <3>2, <3>3 DEF SameBut
  <2> QED BY <2>1, <2>2
<1>7. b = r
  BY <1>2, <1>4, <1>5, <1>6, SeqEqual
<1> QED BY <1>7 DEF r

\* One slot left the queue, from position n.
LEMMA ShownRemoved ==
  ASSUME NEW V, NEW v \in [Slots -> V], NEW w \in [Slots -> V],
         NEW q \in Seq(Slots), IsInjective(q), NEW n \in 1 .. Len(q),
         NEW a \in Seq(V), NEW b \in Seq(V), Shows(a, v, q), Shows(b, w, RemoveAt(q, n)),
         SameBut(v, w, q[n])
  PROVE  b = RemoveAt(a, n)
<1> DEFINE r == RemoveAt(a, n)
           t == RemoveAt(q, n)
           at(i) == IF i < n THEN i ELSE i + 1
<1>1. Len(q) \in Nat /\ Len(a) = Len(q) /\ \A i \in 1 .. Len(q) : a[i] = v[q[i]] /\ q[i] \in Slots
  BY DEF Shows
<1>2. r \in Seq(V) /\ Len(r) = Len(q) - 1 /\ \A i \in 1 .. Len(q) - 1 : r[i] = a[at(i)]
  BY <1>1, RemoveAtIs
<1>3. t \in Seq(Slots) /\ Len(t) = Len(q) - 1 /\ \A i \in 1 .. Len(q) - 1 : t[i] = q[at(i)]
  BY RemoveAtIs
<1>4. Len(b) = Len(q) - 1 /\ \A i \in 1 .. Len(q) - 1 : b[i] = w[t[i]]
  BY <1>3 DEF Shows
<1>5. \A i \in 1 .. Len(q) - 1 : at(i) \in 1 .. Len(q) /\ at(i) # n
  BY <1>1
<1> HIDE DEF r, t, at
<1>6. ASSUME NEW i \in 1 .. Len(q) - 1 PROVE b[i] = r[i]
  <2>1. q[at(i)] \in Slots /\ q[at(i)] # q[n]
    <3>1. at(i) \in DOMAIN q /\ n \in DOMAIN q /\ at(i) # n /\ at(i) \in 1 .. Len(q)
      BY <1>1, <1>5
    <3>2. q[at(i)] # q[n]
      BY <3>1 DEF IsInjective
    <3> QED BY <1>1, <3>1, <3>2
  <2>2. w[q[at(i)]] = v[q[at(i)]]
    BY <2>1 DEF SameBut
  <2> QED BY <1>1, <1>2, <1>3, <1>4, <1>5, <2>2
<1>7. b = r
  BY <1>2, <1>4, <1>6, SeqEqual
<1> QED BY <1>7 DEF r

-----------------------------------------------------------------------------
(* What the abstract book shows *)

LEMMA BookAt ==
  /\ \A side \in Sides, t \in Ticks : Book[side][t] = QueueOf(side, t)
  /\ \A side \in Sides, t \in Ticks : Book'[side][t] = QueueOf(side, t)'
BY DEF Book

Entry == [id : Nat \X Nat, qty : Nat, hidden : Nat, display : Nat]

\* A queue is shown, slot by slot, on the side that has the level's bit.
BookShown ==
  /\ \A s \in Slots : View(s) \in Entry
  /\ \A side \in Sides, t \in Ticks :
       /\ QueueOf(side, t) \in Seq(Entry)
       /\ t \in Marks(side) =>
            /\ Len(QueueOf(side, t)) = Len(Queue(t))
            /\ \A i \in 1 .. Len(Queue(t)) : QueueOf(side, t)[i] = View(Queue(t)[i])
       /\ t \notin Marks(side) => QueueOf(side, t) = <<>>

LEMMA ViewType ==
  ASSUME TypeOK, NEW s \in Slots
  PROVE  View(s) \in Entry
BY BookAssumption, BookTypes DEF View, Entry, Slots

LEMMA ShowsQueues ==
  ASSUME TypeOK
  PROVE  BookShown
<1> SUFFICES ASSUME NEW side \in Sides, NEW t \in Ticks
             PROVE  /\ QueueOf(side, t) \in Seq(Entry)
                    /\ t \in Marks(side) =>
                         /\ Len(QueueOf(side, t)) = Len(Queue(t))
                         /\ \A i \in 1 .. Len(Queue(t)) : QueueOf(side, t)[i] = View(Queue(t)[i])
                    /\ t \notin Marks(side) => QueueOf(side, t) = <<>>
  BY ViewType DEF BookShown
<1> DEFINE q == Queue(t)
           shown == [i \in 1 .. Len(q) |-> View(q[i])]
<1>1. q \in Seq(Slots) /\ Len(q) \in Nat /\ DOMAIN q = 1 .. Len(q) /\ \A i \in 1 .. Len(q) : q[i] \in Slots
  BY BookTypes
<1>2. QueueOf(side, t) = IF t \in Marks(side) THEN shown ELSE <<>>
  BY <1>1 DEF QueueOf
<1> HIDE DEF q
<1>3. shown \in Seq(Entry) /\ Len(shown) = Len(q) /\ \A i \in 1 .. Len(q) : shown[i] = View(q[i])
  <2>1. \A i \in 1 .. Len(q) : View(q[i]) \in Entry
    BY <1>1, ViewType
  <2> QED BY <1>1, <2>1
<1> HIDE DEF shown
<1> QED BY <1>2, <1>3 DEF q

LEMMA QueueShown ==
  ASSUME TypeOK, NEW side \in Sides, NEW t \in Ticks
  PROVE  QueueOf(side, t) # <<>> <=> t \in Marks(side) /\ Queue(t) # <<>>
<1>1. CASE t \in Marks(side)
  <2>1. /\ Len(QueueOf(side, t)) = Len(Queue(t)) /\ QueueOf(side, t) \in Seq(Entry)
        /\ Queue(t) \in Seq(Slots)
    BY <1>1, ShowsQueues, BookTypes DEF BookShown
  <2>2. QueueOf(side, t) = <<>> <=> Len(QueueOf(side, t)) = 0
    BY <2>1
  <2>3. Queue(t) = <<>> <=> Len(Queue(t)) = 0
    BY <2>1
  <2> QED BY <1>1, <2>1, <2>2, <2>3
<1>2. CASE t \notin Marks(side)
  BY <1>2, ShowsQueues DEF BookShown
<1> QED BY <1>1, <1>2

\* Outside a sweep a set bit means a queue, so a side's prices are its bits.
LEMMA OccupiedIs ==
  ASSUME TypeOK, BookInv, NEW side \in Sides
  PROVE  /\ Promise!Occupied(side) = {t \in Marks(side) : Queue(t) # <<>>}
         /\ pc # "sweep" => Promise!Occupied(side) = Marks(side)
         /\ Marks(side) \subseteq Ticks
<1>1. Marks(side) \subseteq Ticks
  BY DEF TypeOK, Marks
<1>2. Promise!Occupied(side) = {t \in Marks(side) : Queue(t) # <<>>}
  <2>1. \A t \in Ticks : Book[side][t] # <<>> <=> t \in Marks(side) /\ Queue(t) # <<>>
    BY BookAt, QueueShown
  <2> QED BY <1>1, <2>1 DEF Promise!Occupied
<1>3. ASSUME pc # "sweep", NEW t \in Marks(side) PROVE Queue(t) # <<>>
  <2>1. t \in Ticks /\ t \in bids \union asks
    BY <1>1, <1>3 DEF Marks
  <2>2. At(t) # {}
    BY <1>3, <2>1 DEF BookInv, MarksExact
  <2>3. ToSet(<<>>) = {}
    BY DEF ToSet
  <2> QED BY <2>1, <2>2, <2>3 DEF BookInv, QueuesExact
<1> QED BY <1>1, <1>2, <1>3

\* The cached best decides what the queues would: whether an order trades now.
LEMMA CrossesExact ==
  ASSUME TypeOK, BestInv, BookInv, pc # "sweep", NEW side \in Sides, NEW idx \in Ticks
  PROVE  Crosses(side, idx) <=> Promise!Crossed(side, idx) # {}
<1>1. /\ BestBidCached /\ BestAskCached /\ NumTicks \in Nat /\ idx \in Nat /\ idx < NumTicks
      /\ bids \subseteq Ticks /\ asks \subseteq Ticks
      /\ \A t \in Ticks : t \in Nat /\ t < NumTicks
  BY TicksNat DEF BestInv, TypeOK
<1>2. CASE side = "Buy"
  <2>1. Promise!Occupied("Sell") = asks
    BY OccupiedIs DEF Sides, Marks
  <2>2. Promise!Crossed(side, idx) = {p \in asks : p <= idx}
    BY <1>2, <2>1 DEF Promise!Crossed, Promise!Opposite
  <2>3. CASE asks = {}
    BY <1>1, <1>2, <2>2, <2>3 DEF BestAskCached, Crosses
  <2>4. CASE asks # {}
    <3>1. bestAsk \in asks /\ \A t \in asks : bestAsk <= t /\ t \in Nat
      BY <1>1, <2>4 DEF BestAskCached
    <3>2. bestAsk <= idx => bestAsk \in Promise!Crossed(side, idx)
      BY <2>2, <3>1
    <3>3. ASSUME NEW p \in Promise!Crossed(side, idx) PROVE bestAsk <= idx
      <4>1. p \in asks /\ p <= idx
        BY <2>2, <3>3
      <4>2. p \in Nat /\ bestAsk \in Nat /\ idx \in Nat /\ bestAsk <= p
        BY <1>1, <3>1, <4>1
      <4> QED BY <4>1, <4>2
    <3> QED BY <1>2, <3>2, <3>3 DEF Crosses
  <2> QED BY <2>3, <2>4
<1>3. CASE side = "Sell"
  <2>1. Promise!Occupied("Buy") = bids
    BY OccupiedIs DEF Sides, Marks
  <2>2. Promise!Crossed(side, idx) = {p \in bids : p >= idx}
    BY <1>3, <2>1 DEF Promise!Crossed, Promise!Opposite
  <2>3. CASE bids = {}
    BY <1>1, <1>3, <2>2, <2>3 DEF BestBidCached, Crosses
  <2>4. CASE bids # {}
    <3>1. bestBid \in bids /\ \A t \in bids : t <= bestBid /\ t \in Nat
      BY <1>1, <2>4 DEF BestBidCached
    <3>2. bestBid # NPOS
      <4>1. bestBid \in Nat /\ bestBid < NumTicks
        BY <1>1, <3>1
      <4> QED BY <1>1, <4>1 DEF NPOS
    <3>3. bestBid >= idx => bestBid \in Promise!Crossed(side, idx)
      BY <2>2, <3>1
    <3>4. ASSUME NEW p \in Promise!Crossed(side, idx) PROVE bestBid >= idx
      <4>1. p \in bids /\ p >= idx
        BY <2>2, <3>4
      <4>2. p \in Nat /\ bestBid \in Nat /\ idx \in Nat /\ p <= bestBid
        BY <1>1, <3>1, <4>1
      <4> QED BY <4>1, <4>2
    <3> QED BY <1>3, <3>2, <3>3, <3>4 DEF Crosses
  <2> QED BY <2>3, <2>4
<1> QED BY <1>2, <1>3 DEF Sides

LEMMA RefusedExact ==
  ASSUME TypeOK, BestInv, BookInv, pc # "sweep", NEW side \in Sides, NEW idx \in 0 .. NumTicks,
         NEW qty \in 0 .. MaxQty, NEW postOnly \in BOOLEAN
  PROVE  Refused(side, idx, qty, postOnly) <=> Promise!Refused(side, idx, qty, postOnly)
<1>1. /\ idx >= NumTicks <=> idx \notin Ticks
      /\ qty <= 0 <=> qty = 0
  BY BookAssumption DEF Ticks
<1>2. idx \in Ticks => (Crosses(side, idx) <=> Promise!Crossed(side, idx) # {})
  BY CrossesExact
<1> QED BY <1>1, <1>2 DEF Refused, Promise!Refused

\* Every resting order stands in the abstract book once, under its id ...
LEMMA RestingHeld ==
  ASSUME TypeOK, BookInv, NEW r \in Promise!Resting
  PROVE  \E s \in Slots :
           /\ r = <<order[s].side, order[s].idx, r[3]>> /\ r[3] \in 1 .. Len(Queue(order[s].idx))
           /\ Queue(order[s].idx)[r[3]] = s /\ Held(s)
           /\ Book[r[1]][r[2]][r[3]] = View(s) /\ Promise!IdAt(r) = <<s, gens[s]>>
<1>1. /\ r \in Sides \X Ticks \X (1 .. PoolCap) /\ r[3] <= Len(Book[r[1]][r[2]])
  BY DEF Promise!Resting, Promise!Sides, Sides
<1> DEFINE side == r[1]
           t == r[2]
           n == r[3]
<1>2. r = <<side, t, n>> /\ side \in Sides /\ t \in Ticks /\ n \in 1 .. PoolCap /\ n \in Nat /\ n >= 1
  BY <1>1, BookAssumption
<1>3. Book[side][t] = QueueOf(side, t) /\ n <= Len(QueueOf(side, t))
  BY <1>1, <1>2, BookAt
<1> HIDE DEF side, t, n
<1>4. CASE t \notin Marks(side)
  <2>1. QueueOf(side, t) = <<>>
    BY <1>2, <1>4, ShowsQueues DEF BookShown
  <2> QED BY <1>2, <1>3, <2>1
<1> SUFFICES ASSUME t \in Marks(side)
             PROVE  \E s \in Slots :
           /\ r = <<order[s].side, order[s].idx, r[3]>> /\ r[3] \in 1 .. Len(Queue(order[s].idx))
           /\ Queue(order[s].idx)[r[3]] = s /\ Held(s)
           /\ Book[r[1]][r[2]][r[3]] = View(s) /\ Promise!IdAt(r) = <<s, gens[s]>>
  BY <1>4
<1>5. n \in 1 .. Len(Queue(t)) /\ QueueOf(side, t)[n] = View(Queue(t)[n])
  <2>1. Len(QueueOf(side, t)) = Len(Queue(t)) /\ \A i \in 1 .. Len(Queue(t)) : QueueOf(side, t)[i] = View(Queue(t)[i])
    BY <1>2, ShowsQueues DEF BookShown
  <2>2. Len(Queue(t)) \in Nat
    BY <1>2, BookTypes
  <2> QED BY <1>2, <1>3, <2>1, <2>2
<1>6. PICK s \in Slots : s = Queue(t)[n]
  BY <1>2, <1>5, BookTypes
<1>7. Held(s) /\ order[s].idx = t
  <2>1. s \in ToSet(Queue(t))
    BY <1>2, <1>5, <1>6, BookTypes DEF ToSet
  <2> QED BY <1>2, <2>1 DEF BookInv, QueuesExact, At
<1>8. order[s].side = side
  BY <1>2, <1>7, BookTypes DEF BookInv, MarksExact, Marked, Marks, Sides
<1>9. Promise!IdAt(r) = View(s).id
  BY <1>3, <1>5, <1>6 DEF Promise!IdAt, side, t, n
<1> QED BY <1>2, <1>3, <1>5, <1>6, <1>7, <1>8, <1>9 DEF View, side, t, n

\* ... and stands there wherever the engine links it.
LEMMA HeldRests ==
  ASSUME TypeOK, BookInv, NEW s \in Slots, Held(s)
  PROVE  \E r \in Promise!Resting :
           /\ r[1] = order[s].side /\ r[2] = order[s].idx /\ r[3] \in 1 .. Len(Queue(order[s].idx))
           /\ Queue(order[s].idx)[r[3]] = s
           /\ Book[r[1]][r[2]][r[3]] = View(s) /\ Promise!IdAt(r) = <<s, gens[s]>>
<1>1. PICK t \in Ticks, side \in Sides : t = order[s].idx /\ side = order[s].side
  BY BookTypes
<1>2. t \in Marks(side) /\ s \in At(t)
  BY <1>1 DEF BookInv, MarksExact, Marked, At
<1>3. Queue(t) \in Seq(Slots) /\ IsInjective(Queue(t)) /\ s \in ToSet(Queue(t))
  BY <1>1, <1>2, BookTypes DEF BookInv, QueuesExact
<1>4. PICK n \in 1 .. Len(Queue(t)) : Queue(t)[n] = s
  BY <1>3 DEF ToSet
<1>5. Len(Queue(t)) <= PoolCap /\ Len(Queue(t)) \in Nat /\ PoolCap \in Nat
  BY <1>3, InjectiveShort, SlotsFinite
<1>6. Len(Book[side][t]) = Len(Queue(t))
  BY <1>2, BookAt, ShowsQueues DEF BookShown
<1> DEFINE r == <<side, t, n>>
<1>7. r \in Promise!Resting
  <2>1. r \in Sides \X Ticks \X (1 .. PoolCap)
    BY <1>5
  <2>2. r[1] = side /\ r[2] = t /\ r[3] = n
    OBVIOUS
  <2> QED BY <1>5, <1>6, <2>1, <2>2 DEF Promise!Resting, Promise!Sides, Sides
<1>8. Book[side][t][n] = View(s)
  BY <1>2, <1>4, BookAt, ShowsQueues DEF BookShown
<1>9. Promise!IdAt(r) = <<s, gens[s]>>
  BY <1>8 DEF Promise!IdAt, View
<1> QED BY <1>1, <1>4, <1>7, <1>8, <1>9

\* An id is accepted exactly while the order it was returned for rests.
LEMMA AcceptsExact ==
  ASSUME MaxGen < GenMod, TypeOK, BookInv, GensBounded, NEW id \in HeldIds
  PROVE  Accepts(id) <=> \E r \in Promise!Resting : Promise!IdAt(r) = id
<1>1. ASSUME Accepts(id) PROVE \E r \in Promise!Resting : Promise!IdAt(r) = id
  <2>1. id[1] \in Slots /\ Held(id[1])
    BY <1>1, AcceptedHeld
  <2>2. id # NoId /\ id # FilledId
    BY <2>1, BookAssumption DEF NoId, FilledId, Slots
  <2>3. id \in Issued
    BY <2>2 DEF HeldIds
  <2>4. id = <<id[1], gens[id[1]]>>
    <3>1. id[2] = gens[id[1]]
      BY <1>1, <2>3, AcceptedGen
    <3>2. id = <<id[1], id[2]>>
      BY <2>3 DEF Issued
    <3> QED BY <3>1, <3>2
  <2>5. PICK s \in Slots : s = id[1]
    BY <2>1
  <2> QED BY <2>1, <2>4, <2>5, HeldRests
<1>2. ASSUME NEW r \in Promise!Resting, Promise!IdAt(r) = id PROVE Accepts(id)
  <2>1. PICK s \in Slots : Promise!IdAt(r) = <<s, gens[s]>>
    BY RestingHeld
  <2> QED BY <1>2, <2>1 DEF Accepts
<1> QED BY <1>1, <1>2

\* Before a generation wraps, the book's answers from its own state are those
\* the abstract book gives from its queues: what is refused, and which id lives.
THEOREM PromisesKept ==
  ASSUME MaxGen < GenMod
  PROVE  Spec => []CallsKeepPromise
<1>1. ASSUME TypeOK, BestInv, BookInv, GensBounded PROVE CallsKeepPromise
  <2> SUFFICES ASSUME pc = "idle"
               PROVE  /\ \A side \in Sides, idx \in 0..NumTicks, qty \in 0..MaxQty, postOnly \in BOOLEAN :
                           Refused(side, idx, qty, postOnly) = Promise!Refused(side, idx, qty, postOnly)
                      /\ \A id \in HeldIds :
                           Accepts(id) = \E r \in Promise!Resting : Promise!IdAt(r) = id
    BY DEF CallsKeepPromise
  <2>1. ASSUME NEW side \in Sides, NEW idx \in 0..NumTicks, NEW qty \in 0..MaxQty, NEW postOnly \in BOOLEAN
        PROVE  Refused(side, idx, qty, postOnly) = Promise!Refused(side, idx, qty, postOnly)
    <3>1. Refused(side, idx, qty, postOnly) <=> Promise!Refused(side, idx, qty, postOnly)
      BY <1>1, RefusedExact
    <3> QED BY <3>1 DEF Refused, Promise!Refused
  <2>2. ASSUME NEW id \in HeldIds
        PROVE  Accepts(id) = \E r \in Promise!Resting : Promise!IdAt(r) = id
    <3>1. Accepts(id) <=> \E r \in Promise!Resting : Promise!IdAt(r) = id
      BY <1>1, AcceptsExact
    <3> QED BY <3>1 DEF Accepts
  <2> QED BY <2>1, <2>2
<1>2. Init => GensBounded
  BY BookAssumption DEF Init, GensBounded
<1> QED BY <1>1, <1>2, BookCorrect, GensStep, PTL DEF Spec

-----------------------------------------------------------------------------
(* Each step of the engine is one of the abstract book, or none *)

LEMMA BookSame ==
  ASSUME \A side \in Sides, t \in Ticks : QueueOf(side, t)' = QueueOf(side, t)
  PROVE  Book' = Book
BY DEF Book

LEMMA BookExcept ==
  ASSUME NEW s \in Sides, NEW p \in Ticks, NEW q, QueueOf(s, p)' = q,
         \A side \in Sides, t \in Ticks :
           side # s \/ t # p => QueueOf(side, t)' = QueueOf(side, t)
  PROVE  Book' = [Book EXCEPT ![s][p] = q]
<1> DEFINE B == [Book EXCEPT ![s][p] = q]
<1>1. ASSUME NEW side \in Sides, NEW t \in Ticks PROVE QueueOf(side, t)' = B[side][t]
  BY DEF Book
<1>2. B = [side \in Sides |-> [t \in Ticks |-> B[side][t]]]
  BY DEF Book
<1>3. Book' = [side \in Sides |-> [t \in Ticks |-> QueueOf(side, t)']]
  BY DEF Book
<1> HIDE DEF B
<1>4. Book' = B
  BY <1>1, <1>2, <1>3
<1> QED BY <1>4 DEF B

\* A queue that keeps its slots, none of which changes, looks the same.
LEMMA QueueKept ==
  ASSUME TypeOK, BookInv, NEW side \in Sides, NEW t \in Ticks, Queue(t)' = Queue(t),
         t \in Marks(side)' <=> t \in Marks(side),
         \A s \in At(t) : order'[s] = order[s] /\ gens'[s] = gens[s]
  PROVE  QueueOf(side, t)' = QueueOf(side, t)
<1>1. \A i \in DOMAIN Queue(t) : View(Queue(t)[i])' = View(Queue(t)[i])
  <2> SUFFICES ASSUME NEW i \in DOMAIN Queue(t) PROVE View(Queue(t)[i])' = View(Queue(t)[i])
    OBVIOUS
  <2>1. Queue(t)[i] \in At(t)
    BY DEF BookInv, QueuesExact, ToSet
  <2> QED BY <2>1 DEF View
<1> QED BY <1>1 DEF QueueOf

\* A slot's generation moves on when it is given back, and no id is added.
LEMMA IssuedKept ==
  ASSUME TypeOK, NEW s \in Slots, Held(s), gens' = [gens EXCEPT ![s] = @ + 1]
  PROVE  Issued' = Issued
<1>1. \A x \in Slots : gens[x] \in Nat /\ gens'[x] = IF x = s THEN gens[s] + 1 ELSE gens[x]
  BY DEF TypeOK
<1>2. \A n, g \in Nat : n % 2 = 1 /\ g % 2 = 1 => (n <= g + 1 <=> n <= g)
  OBVIOUS
<1>3. MaxGen \in Nat /\ 1 .. MaxGen \subseteq Nat
  BY BookAssumption
<1>4. ASSUME NEW id \in Slots \X (1 .. MaxGen), id[2] % 2 = 1
      PROVE  id[2] <= gens'[id[1]] <=> id[2] <= gens[id[1]]
  BY <1>1, <1>2, <1>3, <1>4 DEF Held
<1> QED BY <1>4 DEF Issued

\* While a sweep runs, the abstract book trades at the level it works on, and
\* first with the maker at its cursor.
LEMMA TradeFacts ==
  ASSUME TypeOK, BestInv, BookInv, CallInv, Filling
  PROVE  \E o \in Sides, p \in Ticks :
           /\ o = Promise!Opposite(taker.side) /\ p = sweep /\ p \in Marks(o)
           /\ \A side \in Sides : side # o => p \notin Marks(side)
           /\ Promise!Crossed(taker.side, taker.idx) # {}
           /\ Promise!BestCrossed(taker.side, taker.idx) = p
           /\ Head(Book[o][p]) = View(Maker) /\ Book[o][p] = QueueOf(o, p)
           /\ QueueOf(o, p) \in Seq(Entry) /\ QueueOf(o, p) # <<>>
           /\ Fill = IF View(Maker).qty < taker.qty THEN View(Maker).qty ELSE taker.qty
<1> DEFINE o == Promise!Opposite(taker.side)
           p == sweep
<1>1. /\ pc = "sweep" /\ sweep \in Ticks /\ taker.side \in Sides /\ taker.idx \in Ticks
      /\ Crosses(taker.side, taker.idx) /\ taker.qty \in Nat
  BY DEF Filling, TypeOK, Taker, CallInv
<1>2. o = (IF taker.side = "Buy" THEN "Sell" ELSE "Buy") /\ o \in Sides
  BY DEF Promise!Opposite, Sides
<1>3. p \in Marks(o) /\ \A side \in Sides : side # o => p \notin Marks(side)
  <2>1. bids \intersect asks = {}
    BY DEF BookInv, MarksExact
  <2> QED BY <1>1, <1>2, <2>1 DEF BestInv, SweepAtBest, Marks, Sides
<1>4. Queue(p) # <<>> /\ Head(Queue(p)) = Maker /\ Queue(p) \in Seq(Slots) /\ Maker \in Slots
  BY MakerFacts
<1>5. /\ QueueOf(o, p) \in Seq(Entry) /\ QueueOf(o, p) # <<>> /\ Book[o][p] = QueueOf(o, p)
      /\ QueueOf(o, p)[1] = View(Queue(p)[1])
  <2>1. 1 \in 1 .. Len(Queue(p))
    BY <1>4
  <2> HIDE DEF o, p
  <2> QED BY <1>1, <1>2, <1>3, <1>4, <2>1, BookAt, QueueShown, ShowsQueues DEF BookShown, p
<1>6. Head(Book[o][p]) = View(Maker)
  BY <1>4, <1>5
<1>7. /\ p \in Promise!Crossed(taker.side, taker.idx)
      /\ \A t \in Promise!Crossed(taker.side, taker.idx) :
           t \in Nat /\ IF taker.side = "Buy" THEN p <= t ELSE p >= t
  <2>1. Promise!Occupied(o) = {t \in Marks(o) : Queue(t) # <<>>} /\ Marks(o) \subseteq Ticks
    BY <1>2, OccupiedIs
  <2>2. \A t \in Ticks : t \in Nat
    BY TicksNat
  <2>3. CASE taker.side = "Buy"
    <3>1. sweep = bestAsk /\ bestAsk <= taker.idx /\ Marks(o) = asks /\ \A t \in asks : bestAsk <= t
      BY <1>1, <1>2, <1>3, <2>3 DEF BestInv, SweepAtBest, BestAskCached, Crosses, Marks
    <3>2. Promise!Crossed(taker.side, taker.idx) = {t \in Promise!Occupied(o) : t <= taker.idx}
      BY <2>3 DEF Promise!Crossed
    <3> HIDE DEF o
    <3> QED BY <1>3, <1>4, <2>1, <2>2, <2>3, <3>1, <3>2
  <2>4. CASE taker.side # "Buy"
    <3>1. sweep = bestBid /\ bestBid >= taker.idx /\ Marks(o) = bids /\ \A t \in bids : t <= bestBid
      BY <1>1, <1>2, <1>3, <2>4 DEF BestInv, SweepAtBest, BestBidCached, Crosses, Marks
    <3>2. Promise!Crossed(taker.side, taker.idx) = {t \in Promise!Occupied(o) : t >= taker.idx}
      BY <2>4 DEF Promise!Crossed
    <3>3. \A t \in Marks(o) : t \in Nat /\ p >= t
      BY <1>1, <2>1, <2>2, <3>1
    <3> HIDE DEF o
    <3> QED BY <1>3, <1>4, <2>1, <2>2, <2>4, <3>1, <3>2, <3>3
  <2> QED BY <2>3, <2>4
<1>8. Promise!BestCrossed(taker.side, taker.idx) = p
  <2> DEFINE C == Promise!Crossed(taker.side, taker.idx)
  <2>1. p \in C /\ p \in Nat /\ \A t \in C : t \in Nat
    BY <1>7
  <2>2. ASSUME taker.side = "Buy" PROVE Promise!Min(C) = p
    <3>1. \A t \in C : p <= t
      BY <1>7, <2>2
    <3> HIDE DEF C
    <3>2. \A x \in C : (\A y \in C : x <= y) => x = p
      BY <2>1, <3>1
    <3> QED BY <2>1, <3>1, <3>2 DEF Promise!Min
  <2>3. ASSUME taker.side # "Buy" PROVE Promise!Max(C) = p
    <3>1. \A t \in C : p >= t
      BY <1>7, <2>3
    <3> HIDE DEF C
    <3>2. \A x \in C : (\A y \in C : x >= y) => x = p
      BY <2>1, <3>1
    <3> QED BY <2>1, <3>1, <3>2 DEF Promise!Max
  <2> QED BY <2>2, <2>3 DEF Promise!BestCrossed
<1>9. Fill = IF View(Maker).qty < taker.qty THEN View(Maker).qty ELSE taker.qty
  BY DEF Fill, Least, View
<1> QED BY <1>1, <1>2, <1>3, <1>5, <1>6, <1>7, <1>8, <1>9

\* A fill is a trade of the abstract book if its level's queue is what AfterFill
\* leaves and nothing else is touched.
LEMMA TradeStep ==
  ASSUME TypeOK, BestInv, BookInv, CallInv, Filling,
         taker' = [taker EXCEPT !.qty = @ - Fill], UNCHANGED <<bids, asks, pc, ret>>, Issued' = Issued,
         \A o \in Sides, p \in Ticks : p = sweep /\ p \in Marks(o) =>
           QueueOf(o, p)' = Promise!AfterFill(QueueOf(o, p), Fill),
         \A t \in Ticks : t # sweep => Queue(t)' = Queue(t),
         \A s \in Slots : s # Maker => order'[s] = order[s] /\ gens'[s] = gens[s]
  PROVE  Promise!Trade
<1>1. PICK o \in Sides, p \in Ticks :
        /\ o = Promise!Opposite(taker.side) /\ p = sweep /\ p \in Marks(o)
        /\ \A side \in Sides : side # o => p \notin Marks(side)
        /\ Promise!Crossed(taker.side, taker.idx) # {}
        /\ Promise!BestCrossed(taker.side, taker.idx) = p
        /\ Head(Book[o][p]) = View(Maker) /\ Book[o][p] = QueueOf(o, p)
        /\ Fill = IF View(Maker).qty < taker.qty THEN View(Maker).qty ELSE taker.qty
  BY TradeFacts
<1>2. \A side \in Sides, t \in Ticks : t \in Marks(side)' <=> t \in Marks(side)
  BY DEF Marks
<1>3. ASSUME NEW side \in Sides, NEW t \in Ticks, side # o \/ t # p
      PROVE  QueueOf(side, t)' = QueueOf(side, t)
  <2>1. CASE t = p
    BY <1>1, <1>2, <1>3, <2>1 DEF QueueOf
  <2>2. CASE t # p
    <3>1. \A s \in At(t) : s \in Slots /\ s # Maker
      BY <1>1, <2>2, MakerFacts DEF At
    <3> QED BY <1>1, <1>2, <2>2, <3>1, QueueKept
  <2> QED BY <2>1, <2>2
<1>4. Book' = [Book EXCEPT ![o][p] = Promise!AfterFill(Book[o][p], Fill)]
  <2>1. QueueOf(o, p)' = Promise!AfterFill(Book[o][p], Fill)
    BY <1>1
  <2> QED BY <1>3, <2>1, BookExcept
<1>5. /\ Incoming.live /\ Incoming.qty > 0 /\ Incoming.side = taker.side /\ Incoming.price = taker.idx
      /\ Incoming.qty = taker.qty
  BY DEF Incoming, Filling
<1>6. Incoming' = [Incoming EXCEPT !.qty = @ - Fill]
  <2>1. /\ taker'.side = taker.side /\ taker'.idx = taker.idx /\ taker'.display = taker.display
        /\ taker'.qty = taker.qty - Fill
    BY DEF TypeOK, Taker
  <2> QED BY <2>1 DEF Incoming
<1>7. UNCHANGED <<Issued, ret>>
  OBVIOUS
<1> QED BY <1>1, <1>4, <1>5, <1>6, <1>7 DEF Promise!Trade

\* A level's queue before and after a step, and what the abstract book shows.
LEMMA ShownBoth ==
  ASSUME TypeOK, TypeOK', BookInv, BookShown, BookShown', NEW side \in Sides, NEW t \in Ticks,
         t \in Marks(side) \/ Queue(t) = <<>>, t \in Marks(side)' \/ Queue(t)' = <<>>
  PROVE  \E v, w \in [Slots -> Entry], a, b \in Seq(Entry), q, r \in Seq(Slots) :
           /\ \A s \in Slots : v[s] = View(s) /\ w[s] = View(s)'
           /\ a = QueueOf(side, t) /\ b = QueueOf(side, t)' /\ q = Queue(t) /\ r = Queue(t)'
           /\ Shows(a, v, q) /\ Shows(b, w, r) /\ IsInjective(q)
<1> DEFINE v == [s \in Slots |-> View(s)]
           w == [s \in Slots |-> View(s)']
<1>1. v \in [Slots -> Entry] /\ w \in [Slots -> Entry]
  BY DEF BookShown
<1>2. Queue(t) \in Seq(Slots) /\ Queue(t)' \in Seq(Slots) /\ IsInjective(Queue(t))
  BY BookTypes DEF TypeOK, Queue, BookInv, QueuesExact
<1>3. /\ \A i \in 1 .. Len(Queue(t)) : Queue(t)[i] \in Slots
      /\ \A i \in 1 .. Len(Queue(t)') : Queue(t)'[i] \in Slots
  BY <1>2
<1>4. /\ QueueOf(side, t) \in Seq(Entry) /\ Len(QueueOf(side, t)) = Len(Queue(t))
      /\ \A i \in 1 .. Len(Queue(t)) : QueueOf(side, t)[i] = View(Queue(t)[i])
  <2>1. CASE t \in Marks(side)
    BY <2>1 DEF BookShown
  <2>2. CASE t \notin Marks(side)
    <3>1. QueueOf(side, t) \in Seq(Entry) /\ QueueOf(side, t) = <<>> /\ Queue(t) = <<>>
      BY <2>2 DEF BookShown
    <3> QED BY <3>1
  <2> QED BY <2>1, <2>2
<1>5. /\ QueueOf(side, t)' \in Seq(Entry) /\ Len(QueueOf(side, t)') = Len(Queue(t)')
      /\ \A i \in 1 .. Len(Queue(t)') : QueueOf(side, t)'[i] = View(Queue(t)[i])'
  <2>1. CASE t \in Marks(side)'
    BY <2>1 DEF BookShown
  <2>2. CASE t \notin Marks(side)'
    <3>1. QueueOf(side, t)' \in Seq(Entry) /\ QueueOf(side, t)' = <<>> /\ Queue(t)' = <<>>
      BY <2>2 DEF BookShown
    <3> QED BY <3>1
  <2> QED BY <2>1, <2>2
<1>6. Shows(QueueOf(side, t), v, Queue(t))
  BY <1>3, <1>4 DEF Shows
<1>7. Shows(QueueOf(side, t)', w, Queue(t)')
  BY <1>3, <1>5 DEF Shows, View
<1> HIDE DEF v, w
<1>8. \A s \in Slots : v[s] = View(s) /\ w[s] = View(s)'
  BY DEF v, w
<1> QED BY <1>1, <1>2, <1>4, <1>5, <1>6, <1>7, <1>8

LEMMA TailRemoves ==
  ASSUME NEW V, NEW q \in Seq(V), q # <<>>
  PROVE  RemoveAt(q, 1) = Tail(q)
<1>1. Len(q) \in Nat /\ Len(q) >= 1 /\ 1 \in 1 .. Len(q)
  OBVIOUS
<1>2. /\ RemoveAt(q, 1) \in Seq(V) /\ Len(RemoveAt(q, 1)) = Len(q) - 1
      /\ \A i \in 1 .. Len(q) - 1 : RemoveAt(q, 1)[i] = q[IF i < 1 THEN i ELSE i + 1]
  BY <1>1, RemoveAtIs
<1>3. /\ Tail(q) \in Seq(V) /\ Len(Tail(q)) = Len(q) - 1
      /\ \A i \in 1 .. Len(q) - 1 : Tail(q)[i] = q[i + 1]
  BY SeqEnds
<1>4. \A i \in 1 .. Len(q) - 1 : RemoveAt(q, 1)[i] = Tail(q)[i]
  BY <1>1, <1>2, <1>3
<1> QED BY <1>2, <1>3, <1>4, SeqEqual

LEMMA AfterFillIs ==
  ASSUME NEW q \in Seq(Entry), q # <<>>, NEW f \in Nat
  PROVE  /\ f < Head(q).qty =>
              Promise!AfterFill(q, f) = <<[Head(q) EXCEPT !.qty = @ - f]>> \o Tail(q)
         /\ f = Head(q).qty /\ Head(q).hidden > 0 =>
              LET clip == Least(Head(q).display, Head(q).hidden)
              IN  Promise!AfterFill(q, f) =
                    Append(Tail(q), [Head(q) EXCEPT !.qty = clip, !.hidden = @ - clip])
         /\ f = Head(q).qty /\ Head(q).hidden = 0 => Promise!AfterFill(q, f) = Tail(q)
<1>1. Head(q).qty \in Nat /\ Head(q).hidden \in Nat
  <2>1. Head(q) \in Entry
    BY SeqEnds
  <2> QED BY <2>1 DEF Entry
<1>2. f < Head(q).qty => Promise!AfterFill(q, f) = <<[Head(q) EXCEPT !.qty = @ - f]>> \o Tail(q)
  BY <1>1 DEF Promise!AfterFill
<1>3. f = Head(q).qty /\ Head(q).hidden > 0 =>
        LET clip == Least(Head(q).display, Head(q).hidden)
        IN  Promise!AfterFill(q, f) =
              Append(Tail(q), [Head(q) EXCEPT !.qty = clip, !.hidden = @ - clip])
  BY <1>1 DEF Promise!AfterFill, Least
<1>4. f = Head(q).qty /\ Head(q).hidden = 0 => Promise!AfterFill(q, f) = Tail(q)
  BY <1>1 DEF Promise!AfterFill
<1> QED BY <1>2, <1>3, <1>4

LEMMA FillPartTrades ==
  ASSUME TypeOK, TypeOK', BestInv, BookInv, CallInv, BookShown, BookShown', FillPart
  PROVE  Promise!Trade
<1>1. PICK s \in Slots, f \in Nat : s = Maker /\ f = Fill
  BY MakerFacts DEF FillPart
<1>2. /\ Filling /\ f < order[s].qty /\ taker' = [taker EXCEPT !.qty = @ - Fill]
      /\ order' = [order EXCEPT ![s].qty = @ - f]
      /\ UNCHANGED <<levels, gens, bids, asks, pc, sweep, reload, ret>>
  BY <1>1 DEF FillPart
<1>3. \A t \in Ticks : Queue(t)' = Queue(t)
  BY <1>2 DEF Queue
<1>4. \A x \in Slots : x # s => View(x)' = View(x) /\ order'[x] = order[x]
  BY <1>2 DEF View, TypeOK
<1>5. View(s)' = [View(s) EXCEPT !.qty = @ - f]
  <2>1. /\ order'[s].qty = order[s].qty - f /\ order'[s].hidden = order[s].hidden
        /\ order'[s].display = order[s].display
    BY <1>2 DEF TypeOK, Order
  <2> QED BY <1>2, <2>1 DEF View
<1>6. ASSUME NEW o \in Sides, NEW p \in Ticks, p = sweep, p \in Marks(o)
      PROVE  QueueOf(o, p)' = Promise!AfterFill(QueueOf(o, p), f)
  <2>1. p \in Marks(o)'
    BY <1>2, <1>6 DEF Marks
  <2>2. PICK v, w \in [Slots -> Entry], a, b \in Seq(Entry), q, r \in Seq(Slots) :
           /\ \A x \in Slots : v[x] = View(x) /\ w[x] = View(x)'
           /\ a = QueueOf(o, p) /\ b = QueueOf(o, p)' /\ q = Queue(p) /\ r = Queue(p)'
           /\ Shows(a, v, q) /\ Shows(b, w, r) /\ IsInjective(q)
    BY <1>6, <2>1, ShownBoth
  <2>3. q # <<>> /\ Head(q) = s /\ r = q
    BY <1>1, <1>2, <1>3, <1>6, <2>2, MakerFacts
  <2>4. a # <<>> /\ Head(a) = View(s)
    BY <2>2, <2>3, ShownFront
  <2>5. b = <<View(s)'>> \o Tail(a)
    <3>1. SameBut(v, w, Head(q))
      BY <1>4, <2>2, <2>3 DEF SameBut
    <3>2. /\ v \in [Slots -> Entry] /\ w \in [Slots -> Entry] /\ q \in Seq(Slots)
          /\ a \in Seq(Entry) /\ b \in Seq(Entry)
      OBVIOUS
    <3>3. Shows(a, v, q) /\ Shows(b, w, q) /\ IsInjective(q) /\ q # <<>>
      BY <2>2, <2>3
    <3>4. b = <<w[Head(q)]>> \o Tail(a)
      BY <3>1, <3>2, <3>3, ShownReplaced
    <3> QED BY <2>2, <2>3, <3>4
  <2>6. View(s).qty = order[s].qty
    BY DEF View
  <2>7. Promise!AfterFill(a, f) = <<[Head(a) EXCEPT !.qty = @ - f]>> \o Tail(a)
    BY <1>2, <2>4, <2>6, AfterFillIs
  <2>8. Promise!AfterFill(a, f) = b
    BY <1>5, <2>4, <2>5, <2>7
  <2> QED BY <2>2, <2>8
<1>7. Issued' = Issued
  BY <1>2 DEF Issued
<1> QED BY <1>1, <1>2, <1>3, <1>4, <1>6, <1>7, TradeStep

LEMMA EntryRefilled ==
  ASSUME NEW r \in Entry, NEW c \in Nat, r.hidden - c \in Nat
  PROVE  [r EXCEPT !.qty = c, !.hidden = @ - c] =
           [id |-> r.id, qty |-> c, hidden |-> r.hidden - c, display |-> r.display]
<1> DEFINE e == [r EXCEPT !.qty = c, !.hidden = @ - c]
<1>1. e \in Entry /\ e.id = r.id /\ e.qty = c /\ e.hidden = r.hidden - c /\ e.display = r.display
  BY DEF Entry
<1> HIDE DEF e
<1>2. e = [id |-> e.id, qty |-> e.qty, hidden |-> e.hidden, display |-> e.display]
  BY <1>1 DEF Entry
<1>3. e = [id |-> r.id, qty |-> c, hidden |-> r.hidden - c, display |-> r.display]
  BY <1>1, <1>2
<1> QED BY <1>3 DEF e

LEMMA FillReloadTrades ==
  ASSUME TypeOK, TypeOK', BestInv, BookInv, CallInv, BookShown, BookShown', FillReload
  PROVE  Promise!Trade
<1>1. PICK s \in Slots, f \in Nat : s = Maker /\ f = Fill
  BY MakerFacts DEF FillReload
<1> DEFINE refill == Least(order[s].display, order[s].hidden)
<1>2. /\ Filling /\ f = order[s].qty /\ order[s].hidden > 0 /\ taker' = [taker EXCEPT !.qty = @ - Fill]
      /\ order' = [order EXCEPT ![s].qty = refill, ![s].hidden = @ - refill]
      /\ levels' = [levels EXCEPT ![sweep] = Tail(@)] /\ reload' = Append(reload, s)
      /\ UNCHANGED <<gens, bids, asks, pc, sweep, ret>> /\ pc = "sweep"
  BY <1>1 DEF FillReload, Filling
<1>3. \A t \in Ticks : t # sweep => Queue(t)' = Queue(t)
  BY <1>2 DEF Queue, TypeOK
<1>4. \A x \in Slots : x # s => View(x)' = View(x) /\ order'[x] = order[x]
  BY <1>2 DEF View, TypeOK
<1>5. View(s)' = [View(s) EXCEPT !.qty = refill, !.hidden = @ - refill]
  <2>1. PICK c : c = refill
    OBVIOUS
  <2> HIDE DEF refill
  <2>2. order[s] \in Order /\ order'[s] = [order[s] EXCEPT !.qty = c, !.hidden = @ - c]
    BY <1>2, <2>1 DEF TypeOK
  <2>3. /\ order'[s].qty = c /\ order'[s].hidden = order[s].hidden - c
        /\ order'[s].display = order[s].display
    BY <2>2 DEF Order
  <2>4. View(s)' = [id |-> <<s, gens[s]>>, qty |-> c, hidden |-> order[s].hidden - c,
                    display |-> order[s].display]
    BY <1>2, <2>3 DEF View
  <2>5. [View(s) EXCEPT !.qty = c, !.hidden = @ - c] =
          [id |-> View(s).id, qty |-> c, hidden |-> View(s).hidden - c, display |-> View(s).display]
    <3>1. View(s) \in Entry /\ c \in Nat /\ View(s).hidden - c \in Nat
      <4>1. order[s].hidden \in Nat /\ order[s].display \in Nat /\ View(s).hidden = order[s].hidden
        BY BookTypes DEF View
      <4> QED BY <2>1, <4>1 DEF BookShown, Least, refill
    <3> QED BY <3>1, EntryRefilled
  <2>6. View(s).id = <<s, gens[s]>> /\ View(s).hidden = order[s].hidden /\ View(s).display = order[s].display
    BY DEF View
  <2> QED BY <2>1, <2>4, <2>5, <2>6
<1> HIDE DEF refill
<1>6. ASSUME NEW o \in Sides, NEW p \in Ticks, p = sweep, p \in Marks(o)
      PROVE  QueueOf(o, p)' = Promise!AfterFill(QueueOf(o, p), f)
  <2>1. p \in Marks(o)'
    BY <1>2, <1>6 DEF Marks
  <2>2. PICK v, w \in [Slots -> Entry], a, b \in Seq(Entry), q, r \in Seq(Slots) :
           /\ \A x \in Slots : v[x] = View(x) /\ w[x] = View(x)'
           /\ a = QueueOf(o, p) /\ b = QueueOf(o, p)' /\ q = Queue(p) /\ r = Queue(p)'
           /\ Shows(a, v, q) /\ Shows(b, w, r) /\ IsInjective(q)
    BY <1>6, <2>1, ShownBoth
  <2>3. q # <<>> /\ Head(q) = s /\ r = Append(Tail(q), Head(q))
    <3>1. /\ levels[p] \in Seq(Slots) /\ levels[p] # <<>> /\ reload \in Seq(Slots)
          /\ q = levels[p] \o reload /\ q # <<>> /\ Head(q) = s /\ Tail(q) = Tail(levels[p]) \o reload
      BY <1>1, <1>2, <1>6, <2>2, MakerFacts
    <3>2. r = Tail(levels[p]) \o Append(reload, s)
      BY <1>2, <1>6, <2>2 DEF Queue, TypeOK
    <3>3. Tail(levels[p]) \o Append(reload, s) = Append(Tail(levels[p]) \o reload, s)
      <4>1. \A m, n \in Seq(Slots) : m # <<>> => Tail(m) \o Append(n, s) = Append(Tail(m) \o n, s)
        BY SeqFront
      <4> QED BY <3>1, <4>1
    <3> QED BY <3>1, <3>2, <3>3
  <2>4. a # <<>> /\ Head(a) = View(s)
    BY <2>2, <2>3, ShownFront
  <2>5. b = Append(Tail(a), View(s)')
    <3>1. SameBut(v, w, Head(q))
      BY <1>4, <2>2, <2>3 DEF SameBut
    <3>2. Shows(a, v, q) /\ Shows(b, w, Append(Tail(q), Head(q))) /\ IsInjective(q) /\ q # <<>>
      BY <2>2, <2>3
    <3>3. b = Append(Tail(a), w[Head(q)])
      BY <3>1, <3>2, ShownRotated
    <3> QED BY <2>2, <2>3, <3>3
  <2>6. View(s).qty = order[s].qty /\ View(s).hidden = order[s].hidden /\ View(s).display = order[s].display
    BY DEF View
  <2>7. Promise!AfterFill(a, f) = Append(Tail(a), [Head(a) EXCEPT !.qty = refill, !.hidden = @ - refill])
    <3>1. refill = Least(Head(a).display, Head(a).hidden) /\ f = Head(a).qty /\ Head(a).hidden > 0
      BY <1>2, <2>4, <2>6 DEF refill
    <3> QED BY <2>4, <3>1, AfterFillIs
  <2>8. Promise!AfterFill(a, f) = b
    BY <1>5, <2>4, <2>5, <2>7
  <2> QED BY <2>2, <2>8
<1>7. Issued' = Issued
  BY <1>2 DEF Issued
<1>8. \A x \in Slots : x # Maker => order'[x] = order[x] /\ gens'[x] = gens[x]
  BY <1>1, <1>2, <1>4
<1>9. \A o \in Sides, p \in Ticks : p = sweep /\ p \in Marks(o) =>
        QueueOf(o, p)' = Promise!AfterFill(QueueOf(o, p), Fill)
  BY <1>1, <1>6
<1> QED BY <1>2, <1>3, <1>7, <1>8, <1>9, TradeStep

LEMMA FillReleaseTrades ==
  ASSUME TypeOK, TypeOK', BestInv, BookInv, CallInv, BookShown, BookShown', FillRelease
  PROVE  Promise!Trade
<1>1. PICK s \in Slots, f \in Nat : s = Maker /\ f = Fill
  BY MakerFacts DEF FillRelease
<1>2. /\ Filling /\ f = order[s].qty /\ order[s].hidden = 0 /\ taker' = [taker EXCEPT !.qty = @ - Fill]
      /\ order' = [order EXCEPT ![s] = Dead] /\ gens' = [gens EXCEPT ![s] = @ + 1]
      /\ levels' = [levels EXCEPT ![sweep] = Tail(@)]
      /\ UNCHANGED <<bids, asks, pc, sweep, reload, ret>> /\ pc = "sweep"
  BY <1>1 DEF FillRelease, Filling, Release
<1>3. \A t \in Ticks : t # sweep => Queue(t)' = Queue(t)
  BY <1>2 DEF Queue, TypeOK
<1>4. \A x \in Slots : x # s => order'[x] = order[x] /\ gens'[x] = gens[x]
  BY <1>2 DEF TypeOK
<1>5. \A x \in Slots : x # s => View(x)' = View(x)
  BY <1>4 DEF View
<1>6. ASSUME NEW o \in Sides, NEW p \in Ticks, p = sweep, p \in Marks(o)
      PROVE  QueueOf(o, p)' = Promise!AfterFill(QueueOf(o, p), f)
  <2>1. p \in Marks(o)'
    BY <1>2, <1>6 DEF Marks
  <2>2. PICK v, w \in [Slots -> Entry], a, b \in Seq(Entry), q, r \in Seq(Slots) :
           /\ \A x \in Slots : v[x] = View(x) /\ w[x] = View(x)'
           /\ a = QueueOf(o, p) /\ b = QueueOf(o, p)' /\ q = Queue(p) /\ r = Queue(p)'
           /\ Shows(a, v, q) /\ Shows(b, w, r) /\ IsInjective(q)
    BY <1>6, <2>1, ShownBoth
  <2>3. q # <<>> /\ Head(q) = s /\ r = Tail(q)
    <3>1. q # <<>> /\ Head(q) = s /\ Tail(q) = Tail(levels[p]) \o reload
      BY <1>1, <1>2, <1>6, <2>2, MakerFacts
    <3>2. r = Tail(levels[p]) \o reload
      BY <1>2, <1>6, <2>2 DEF Queue, TypeOK
    <3> QED BY <3>1, <3>2
  <2>4. a # <<>> /\ Head(a) = View(s)
    BY <2>2, <2>3, ShownFront
  <2>5. b = Tail(a)
    <3>1. SameBut(v, w, q[1])
      BY <1>5, <2>2, <2>3 DEF SameBut
    <3>2. 1 \in 1 .. Len(q)
      BY <2>3
    <3>3. RemoveAt(q, 1) = Tail(q) /\ RemoveAt(a, 1) = Tail(a)
      BY <2>3, <2>4, TailRemoves
    <3>4. Shows(a, v, q) /\ Shows(b, w, RemoveAt(q, 1)) /\ IsInjective(q)
      BY <2>2, <2>3, <3>3
    <3>5. /\ v \in [Slots -> Entry] /\ w \in [Slots -> Entry] /\ q \in Seq(Slots)
          /\ a \in Seq(Entry) /\ b \in Seq(Entry)
      OBVIOUS
    <3>6. b = RemoveAt(a, 1)
      BY <3>1, <3>2, <3>4, <3>5, ShownRemoved
    <3> QED BY <3>3, <3>6
  <2>6. View(s).qty = order[s].qty /\ View(s).hidden = order[s].hidden
    BY DEF View
  <2>7. Promise!AfterFill(a, f) = Tail(a)
    BY <1>2, <2>4, <2>6, AfterFillIs
  <2> QED BY <2>2, <2>5, <2>7
<1>7. Issued' = Issued
  BY <1>1, <1>2, MakerFacts, IssuedKept
<1>8. \A x \in Slots : x # Maker => order'[x] = order[x] /\ gens'[x] = gens[x]
  BY <1>1, <1>4
<1>9. \A o \in Sides, p \in Ticks : p = sweep /\ p \in Marks(o) =>
        QueueOf(o, p)' = Promise!AfterFill(QueueOf(o, p), Fill)
  BY <1>1, <1>6
<1> QED BY <1>2, <1>3, <1>7, <1>8, <1>9, TradeStep

\* Calls that are only answered leave the book as it is.
LEMMA BookQuiet ==
  ASSUME UNCHANGED <<order, gens, bids, asks>>, \A t \in Ticks : Queue(t)' = Queue(t)
  PROVE  Book' = Book /\ Issued' = Issued
<1>1. \A side \in Sides, t \in Ticks : QueueOf(side, t)' = QueueOf(side, t)
  BY DEF QueueOf, View, Marks
<1> QED BY <1>1, BookSame DEF Issued

LEMMA StartSubmits ==
  ASSUME TypeOK, BestInv, BookInv, pc = "idle",
         NEW side \in Sides, NEW idx \in 0 .. NumTicks, NEW qty \in 0 .. MaxQty,
         NEW display \in 0 .. MaxQty, NEW postOnly \in BOOLEAN,
         IF Refused(side, idx, qty, postOnly) THEN Reject ELSE Start(side, idx, qty, display)
  PROVE  Promise!Submit(side, idx, qty, display, postOnly)
<1>1. UNCHANGED <<levels, order, gens, bids, asks, sweep, reload>> /\ (pc' = "idle" \/ pc' = "match")
  BY DEF Reject, Start, bookVars
<1>2. \A t \in Ticks : Queue(t)' = Queue(t)
  BY <1>1 DEF Queue
<1>3. Book' = Book /\ Issued' = Issued
  BY <1>1, <1>2, BookQuiet
<1>4. Refused(side, idx, qty, postOnly) <=> Promise!Refused(side, idx, qty, postOnly)
  BY RefusedExact
<1>5. Incoming.live = FALSE
  BY DEF Incoming
<1>6. CASE Refused(side, idx, qty, postOnly)
  <2>1. ret' = [id |-> NoId, qty |-> 0] /\ UNCHANGED <<taker, pc>>
    BY <1>6 DEF Reject
  <2>2. Incoming' = Incoming
    BY <2>1 DEF Incoming
  <2> QED BY <1>3, <1>4, <1>5, <1>6, <2>1, <2>2 DEF Promise!Submit, Promise!Answer
<1>7. CASE ~Refused(side, idx, qty, postOnly)
  <2>1. /\ pc' = "match" /\ ret' = NoRet
        /\ taker' = [side |-> side, idx |-> idx, qty |-> qty, orig |-> qty, display |-> display]
    BY <1>7 DEF Start
  <2>2. Incoming' = [side |-> side, price |-> idx, qty |-> qty, display |-> display, live |-> TRUE]
    BY <2>1 DEF Incoming
  <2>3. Promise!NoRet = NoRet
    BY DEF Promise!NoRet, NoRet
  <2> QED BY <1>3, <1>4, <1>5, <1>7, <2>1, <2>2, <2>3 DEF Promise!Submit, Promise!Answer
<1> QED BY <1>6, <1>7

LEMMA NewOrderSubmits ==
  ASSUME TypeOK, BestInv, BookInv, NEW side \in Sides, NEW idx \in 0 .. NumTicks,
         NEW qty \in 0 .. MaxQty, NEW postOnly \in BOOLEAN, NewOrder(side, idx, qty, postOnly)
  PROVE  Promise!Next
<1>1. 0 \in 0 .. MaxQty
  BY BookAssumption
<1>2. Promise!Submit(side, idx, qty, 0, postOnly)
  BY <1>1, StartSubmits DEF NewOrder
<1>3. side \in Promise!Sides
  BY DEF Sides, Promise!Sides
<1> QED BY <1>1, <1>2, <1>3 DEF Promise!Next

\* An iceberg without a display quantity is refused as a price off the ladder is.
LEMMA NewIcebergSubmits ==
  ASSUME TypeOK, BestInv, BookInv, NEW side \in Sides, NEW idx \in 0 .. NumTicks,
         NEW display \in 0 .. MaxQty, NEW total \in 0 .. MaxQty,
         NewIceberg(side, idx, display, total)
  PROVE  Promise!Next
<1>1. side \in Promise!Sides
  BY DEF Sides, Promise!Sides
<1>2. CASE display <= 0
  <2>1. NumTicks \in 0 .. NumTicks /\ NumTicks >= NumTicks
    BY BookAssumption
  <2>2. Refused(side, NumTicks, total, FALSE)
    BY <2>1 DEF Refused
  <2>3. pc = "idle" /\ Reject
    BY <1>2 DEF NewIceberg
  <2>4. Promise!Submit(side, NumTicks, total, display, FALSE)
    BY <2>1, <2>2, <2>3, StartSubmits
  <2> QED BY <1>1, <2>1, <2>4 DEF Promise!Next
<1>3. CASE ~ display <= 0
  <2>1. Refused(side, idx, total, FALSE) <=> idx >= NumTicks \/ total <= 0
    BY DEF Refused
  <2>2. /\ pc = "idle"
        /\ IF Refused(side, idx, total, FALSE) THEN Reject ELSE Start(side, idx, total, display)
    BY <1>3, <2>1 DEF NewIceberg
  <2>3. Promise!Submit(side, idx, total, display, FALSE)
    BY <2>2, StartSubmits
  <2> QED BY <1>1, <2>3 DEF Promise!Next
<1> QED BY <1>2, <1>3

LEMMA TakerFilledFills ==
  ASSUME TypeOK, TakerFilled
  PROVE  Promise!Filled
<1>1. /\ pc = "match" /\ pc' = "idle" /\ taker.qty = 0 /\ taker' = NoTaker
      /\ ret' = [id |-> FilledId, qty |-> 0]
      /\ UNCHANGED <<levels, order, gens, bids, asks, sweep, reload>>
  BY DEF TakerFilled, bookVars
<1>2. \A t \in Ticks : Queue(t)' = Queue(t)
  BY <1>1 DEF Queue
<1>3. Book' = Book /\ Issued' = Issued
  BY <1>1, <1>2, BookQuiet
<1>4. Incoming.live = TRUE /\ Incoming.qty = 0
  BY <1>1 DEF Incoming
<1>5. Incoming' = Promise!NoTaker
  BY <1>1 DEF Incoming, NoTaker, Promise!NoTaker
<1> QED BY <1>1, <1>3, <1>4, <1>5 DEF Promise!Filled

\* Entering and leaving a sweep is not seen.
LEMMA EnterUnseen ==
  ASSUME TypeOK, EnterSweep
  PROVE  UNCHANGED Promise!vars
<1>1. /\ pc = "match" /\ pc' = "sweep" /\ reload' = <<>>
      /\ UNCHANGED <<levels, order, gens, bids, asks, taker, ret>>
  BY DEF EnterSweep, bookVars
<1>2. ASSUME NEW t \in Ticks PROVE Queue(t)' = Queue(t)
  <2>1. levels[t] \in Seq(Slots)
    BY BookTypes
  <2>2. \A q \in Seq(Slots) : q \o <<>> = q
    <3> SUFFICES ASSUME NEW q \in Seq(Slots) PROVE q \o <<>> = q
      OBVIOUS
    <3>1. <<>> \in Seq(Slots) /\ Len(<<>>) = 0 /\ Len(q) \in Nat
      OBVIOUS
    <3>2. /\ q \o <<>> \in Seq(Slots) /\ Len(q \o <<>>) = Len(q) + Len(<<>>)
          /\ \A i \in 1 .. Len(q) : (q \o <<>>)[i] = q[i]
      OBVIOUS
    <3> QED BY <3>1, <3>2, SeqEqual
  <2>3. Queue(t) = levels[t]
    BY <1>1 DEF Queue
  <2>4. Queue(t)' = levels[t] \o <<>> \/ Queue(t)' = levels[t]
    BY <1>1 DEF Queue
  <2> QED BY <2>1, <2>2, <2>3, <2>4
<1>3. Book' = Book /\ Issued' = Issued
  BY <1>1, <1>2, BookQuiet
<1>4. Incoming' = Incoming
  BY <1>1 DEF Incoming
<1> QED BY <1>1, <1>3, <1>4 DEF Promise!vars

LEMMA LeaveUnseen ==
  ASSUME TypeOK, TypeOK', LeaveSweep
  PROVE  UNCHANGED Promise!vars
<1>1. /\ pc = "sweep" /\ pc' = "match" /\ sweep' = sweep
      /\ levels' = [levels EXCEPT ![sweep] = levels[sweep] \o reload]
      /\ UNCHANGED <<order, gens, taker, ret>>
      /\ Spliced = levels[sweep] \o reload
      /\ Spliced # <<>> => UNCHANGED <<bids, asks>>
      /\ \A t : t # sweep => (t \in bids' <=> t \in bids) /\ (t \in asks' <=> t \in asks)
  BY DEF LeaveSweep, Spliced
<1>2. \A t \in Ticks : Queue(t)' = Queue(t)
  BY <1>1 DEF Queue, TypeOK
<1>3. ASSUME NEW side \in Sides, NEW t \in Ticks PROVE QueueOf(side, t)' = QueueOf(side, t)
  <2>1. CASE Queue(t) = <<>>
    <3>1. QueueOf(side, t) = <<>>
      BY <2>1, QueueShown
    <3>2. QueueOf(side, t)' = <<>>
      <4>1. Queue(t)' = <<>>
        BY <1>2, <2>1
      <4> QED BY <4>1 DEF QueueOf
    <3> QED BY <3>1, <3>2
  <2>2. CASE Queue(t) # <<>>
    <3>1. t \in Marks(side)' <=> t \in Marks(side)
      BY <1>1, <2>2 DEF Queue, Marks
    <3> QED BY <1>1, <1>2, <3>1 DEF QueueOf, View
  <2> QED BY <2>1, <2>2
<1>4. Book' = Book
  BY <1>3, BookSame
<1>5. Incoming' = Incoming /\ Issued' = Issued
  BY <1>1 DEF Incoming, Issued
<1> QED BY <1>1, <1>4, <1>5 DEF Promise!vars

\* As many orders rest as slots hold one; all of them exactly when no slot is free.
LEMMA RestingFits ==
  ASSUME TypeOK, BookInv
  PROVE  IF free = <<>> THEN Cardinality(Promise!Resting) = PoolCap
                        ELSE Cardinality(Promise!Resting) < PoolCap
<1> DEFINE R == Promise!Resting
           f == [r \in R |-> Promise!IdAt(r)[1]]
<1>1. ASSUME NEW r \in R
      PROVE  \E s \in Slots :
               /\ f[r] = s /\ Held(s) /\ r = <<order[s].side, order[s].idx, r[3]>>
               /\ r[3] \in 1 .. Len(Queue(order[s].idx)) /\ Queue(order[s].idx)[r[3]] = s
  <2>1. PICK s \in Slots :
          /\ r = <<order[s].side, order[s].idx, r[3]>> /\ r[3] \in 1 .. Len(Queue(order[s].idx))
          /\ Queue(order[s].idx)[r[3]] = s /\ Held(s) /\ Promise!IdAt(r) = <<s, gens[s]>>
    BY RestingHeld
  <2>2. Promise!IdAt(r)[1] = s
    BY <2>1
  <2> QED BY <2>1, <2>2
<1>2. ASSUME NEW s \in Slots, Held(s) PROVE \E r \in R : f[r] = s
  <2>1. PICK r \in R : Promise!IdAt(r) = <<s, gens[s]>>
    BY <1>2, HeldRests
  <2> QED BY <2>1
<1>3. f \in [R -> Slots]
  <2>1. \A r \in R : f[r] \in Slots
    BY <1>1
  <2> QED BY <2>1
<1> HIDE DEF f, R
<1>4. ASSUME NEW r1 \in R, NEW r2 \in R, f[r1] = f[r2] PROVE r1 = r2
  <2>1. PICK s \in Slots :
          /\ f[r1] = s /\ Held(s) /\ r1 = <<order[s].side, order[s].idx, r1[3]>>
          /\ r1[3] \in 1 .. Len(Queue(order[s].idx)) /\ Queue(order[s].idx)[r1[3]] = s
    BY <1>1
  <2>2. /\ r2 = <<order[s].side, order[s].idx, r2[3]>>
        /\ r2[3] \in 1 .. Len(Queue(order[s].idx)) /\ Queue(order[s].idx)[r2[3]] = s
    BY <1>1, <1>4, <2>1
  <2>3. PICK t \in Ticks : t = order[s].idx
    BY BookTypes
  <2>4. IsInjective(Queue(t)) /\ DOMAIN Queue(t) = 1 .. Len(Queue(t))
    BY BookTypes DEF BookInv, QueuesExact
  <2>5. r1[3] = r2[3]
    BY <2>1, <2>2, <2>3, <2>4 DEF IsInjective
  <2> QED BY <2>1, <2>2, <2>5
<1>5. f \in Injection(R, Slots)
  BY <1>3, <1>4 DEF Injection, IsInjective
<1>6. IsFiniteSet(Slots) /\ Cardinality(Slots) = PoolCap /\ PoolCap \in Nat
  BY SlotsFinite, FS_Interval DEF Slots
<1>7. /\ IsFiniteSet(R) /\ Cardinality(R) <= PoolCap
      /\ Cardinality(R) = PoolCap <=> f \in Surjection(R, Slots)
  BY <1>5, <1>6, FS_Injection
<1>8. Cardinality(R) \in Nat
  BY <1>7, FS_CardinalityType
<1>9. f \in Surjection(R, Slots) <=> \A s \in Slots : \E r \in R : f[r] = s
  BY <1>3 DEF Surjection
<1>10. CASE free = <<>>
  <2>1. ToSet(free) = {}
    BY <1>10 DEF ToSet
  <2>2. \A s \in Slots : Held(s)
    BY <2>1 DEF BookInv, FreeExact
  <2> QED BY <1>2, <1>7, <1>9, <1>10, <2>2 DEF R
<1>11. CASE free # <<>>
  <2>1. free[1] \in ToSet(free)
    BY <1>11 DEF TypeOK, ToSet
  <2>2. PICK s \in Slots : ~Held(s)
    BY <2>1 DEF BookInv, FreeExact
  <2>3. ~ \E r \in R : f[r] = s
    BY <1>1, <2>2
  <2> QED BY <1>6, <1>7, <1>8, <1>9, <1>11, <2>3 DEF R
<1> QED BY <1>10, <1>11

LEMMA SameCardinality == \A S : Promise!Cardinality(S) = Cardinality(S)
BY DEF Promise!Cardinality, Cardinality

LEMMA RestFacts ==
  ASSUME TypeOK, BestInv, BookInv, Resting
  PROVE  /\ Incoming.live = TRUE /\ Incoming.qty > 0 /\ Incoming.qty = taker.qty
         /\ Incoming.side = taker.side /\ Incoming.price = taker.idx
         /\ Incoming.display = taker.display
         /\ Promise!Crossed(taker.side, taker.idx) = {}
         /\ taker.side \in Sides /\ taker.idx \in Ticks /\ taker.qty \in Nat /\ taker.display \in Nat
<1>1. taker.side \in Sides /\ taker.idx \in Ticks /\ taker.qty \in Nat /\ taker.display \in Nat
  BY DEF TypeOK, Taker
<1>2. Promise!Crossed(taker.side, taker.idx) = {}
  BY <1>1, CrossesExact DEF Resting
<1> QED BY <1>1, <1>2 DEF Incoming, Resting

LEMMA RestExhaustedRests ==
  ASSUME TypeOK, BestInv, BookInv, RestExhausted
  PROVE  Promise!Rest
<1>1. /\ Resting /\ pc = "match" /\ pc' = "idle" /\ free = <<>> /\ taker' = NoTaker
      /\ ret' = [id |-> NoId, qty |-> 0]
      /\ UNCHANGED <<levels, order, gens, bids, asks, sweep, reload>>
  BY DEF RestExhausted, Resting, bookVars
<1>2. \A t \in Ticks : Queue(t)' = Queue(t)
  BY <1>1 DEF Queue
<1>3. Book' = Book /\ Issued' = Issued
  BY <1>1, <1>2, BookQuiet
<1>4. Incoming' = Promise!NoTaker
  BY <1>1 DEF Incoming, NoTaker, Promise!NoTaker
<1>5. Cardinality(Promise!Resting) = PoolCap
  BY <1>1, RestingFits
<1> QED BY <1>1, <1>3, <1>4, <1>5, RestFacts, SameCardinality DEF Promise!Rest

\* The id of a slot taken anew was never handed out, and joins those that were.
LEMMA IssuedAdds ==
  ASSUME TypeOK, GensBounded, pc = "match", NEW s \in Slots, ~Held(s),
         gens' = [gens EXCEPT ![s] = @ + 1]
  PROVE  /\ <<s, gens[s] + 1>> \in (Slots \X (1 .. MaxGen)) \ Issued
         /\ Issued' = Issued \union {<<s, gens[s] + 1>>}
<1>1. \A x \in Slots : gens[x] \in Nat /\ gens'[x] = IF x = s THEN gens[s] + 1 ELSE gens[x]
  BY DEF TypeOK
<1>2. gens[s] + 1 + (gens[s] % 2) <= MaxGen /\ gens[s] % 2 = 0
  BY <1>1 DEF GensBounded, Held
<1>3. MaxGen \in Nat /\ gens[s] + 1 \in 1 .. MaxGen /\ (gens[s] + 1) % 2 = 1
  BY <1>1, <1>2, BookAssumption
<1>4. <<s, gens[s] + 1>> \in Slots \X (1 .. MaxGen)
  BY <1>3
<1>5. <<s, gens[s] + 1>> \notin Issued
  BY <1>1 DEF Issued
<1>6. ASSUME NEW id \in Slots \X (1 .. MaxGen), id[2] % 2 = 1
      PROVE  id[2] <= gens'[id[1]] <=> id[2] <= gens[id[1]] \/ id = <<s, gens[s] + 1>>
  <2>1. id = <<id[1], id[2]>> /\ id[1] \in Slots /\ id[2] \in Nat
    BY <1>3
  <2>2. CASE id[1] = s
    <3>1. id = <<s, gens[s] + 1>> <=> id[2] = gens[s] + 1
      BY <2>1, <2>2
    <3>2. gens'[id[1]] = gens[s] + 1 /\ gens[s] \in Nat
      BY <1>1, <2>2
    <3> QED BY <2>1, <2>2, <3>1, <3>2
  <2>3. CASE id[1] # s
    <3>1. id # <<s, gens[s] + 1>>
      BY <2>1, <2>3
    <3> QED BY <1>1, <2>1, <2>3, <3>1
  <2> QED BY <2>2, <2>3
<1>7. Issued' = {id \in Slots \X (1 .. MaxGen) : id[2] % 2 = 1 /\ id[2] <= gens'[id[1]]}
  BY DEF Issued
<1>8. Issued' = Issued \union {<<s, gens[s] + 1>>}
  <2>1. <<s, gens[s] + 1>>[2] % 2 = 1
    BY <1>3
  <2> QED BY <1>4, <1>6, <1>7, <2>1 DEF Issued
<1> QED BY <1>4, <1>5, <1>8

\* One more slot at the back of the queue.
LEMMA ShownAppended ==
  ASSUME NEW V, NEW v \in [Slots -> V], NEW w \in [Slots -> V],
         NEW q \in Seq(Slots), NEW s \in Slots, s \notin ToSet(q),
         NEW a \in Seq(V), NEW b \in Seq(V), Shows(a, v, q), Shows(b, w, Append(q, s)),
         SameBut(v, w, s)
  PROVE  b = Append(a, w[s])
<1> DEFINE r == Append(a, w[s])
           t == Append(q, s)
<1>1. Len(q) \in Nat /\ Len(a) = Len(q) /\ \A i \in 1 .. Len(q) : a[i] = v[q[i]] /\ q[i] \in Slots
  BY DEF Shows
<1>2. /\ r \in Seq(V) /\ Len(r) = Len(q) + 1 /\ r[Len(q) + 1] = w[s]
      /\ \A i \in 1 .. Len(q) : r[i] = a[i]
  BY <1>1
<1>3. Len(t) = Len(q) + 1 /\ t[Len(q) + 1] = s /\ \A i \in 1 .. Len(q) : t[i] = q[i]
  BY <1>1
<1>4. Len(b) = Len(q) + 1 /\ \A i \in 1 .. Len(q) + 1 : b[i] = w[t[i]]
  BY <1>3 DEF Shows
<1> HIDE DEF r, t
<1>5. ASSUME NEW i \in 1 .. Len(q) + 1 PROVE b[i] = r[i]
  <2>1. CASE i = Len(q) + 1
    BY <1>2, <1>3, <1>4, <2>1
  <2>2. CASE i # Len(q) + 1
    <3>1. i \in 1 .. Len(q)
      BY <1>1, <2>2
    <3>2. q[i] \in Slots /\ q[i] # s
      BY <1>1, <3>1 DEF ToSet
    <3>3. w[q[i]] = v[q[i]]
      BY <3>2 DEF SameBut
    <3> QED BY <1>1, <1>2, <1>3, <1>4, <3>1, <3>3
  <2> QED BY <2>1, <2>2
<1>6. b = r
  BY <1>2, <1>4, <1>5, SeqEqual
<1> QED BY <1>6 DEF r

\* The order that rests joins its side's queue at the back, under a new id.
LEMMA RestIsRest ==
  ASSUME TypeOK, TypeOK', BestInv, BookInv, BookInv', BookShown, BookShown', GensBounded, Rest
  PROVE  Promise!Rest
<1>1. PICK s \in Slots :
        /\ Acquire(s)
        /\ order' = [order EXCEPT ![s] =
             [side |-> taker.side, idx |-> taker.idx, qty |-> Shown,
              hidden |-> taker.qty - Shown, display |-> taker.display]]
        /\ levels' = [levels EXCEPT ![taker.idx] = Append(@, s)]
        /\ ret' = [id |-> <<s, gens'[s]>>, qty |-> 0]
  BY DEF Rest
<1>2. PICK i \in Ticks, d \in Sides : i = taker.idx /\ d = taker.side
  BY DEF TypeOK, Taker
<1>3. /\ MarkOccupied(d, i) /\ Resting /\ pc = "match" /\ pc' = "idle" /\ taker' = NoTaker
      /\ UNCHANGED <<sweep, reload>>
  BY <1>2 DEF Rest, Resting
<1>4. free # <<>> /\ s = Head(free) /\ gens' = [gens EXCEPT ![s] = @ + 1] /\ gens'[s] = gens[s] + 1
  BY <1>1 DEF Acquire, TypeOK
<1>5. ~Held(s)
  <2>1. s \in ToSet(free)
    BY <1>4, SeqTail DEF BookInv, FreeExact, TypeOK
  <2> QED BY <2>1 DEF BookInv, FreeExact
<1>6. \A x \in Slots : x # s => order'[x] = order[x] /\ gens'[x] = gens[x]
  BY <1>1, <1>4 DEF TypeOK
<1>7. /\ i \in Marks(d)' /\ \A t : t # i => (t \in Marks(d)' <=> t \in Marks(d))
      /\ \A e \in Sides : e # d => Marks(e)' = Marks(e)
  BY <1>3 DEF MarkOccupied, Marks, Sides
<1>8. \A e \in Sides : e # d => i \notin Marks(e)'
  <2>1. bids' \intersect asks' = {}
    BY DEF BookInv, MarksExact
  <2> QED BY <1>7, <2>1 DEF Marks, Sides
<1>9. Queue(i)' = Append(Queue(i), s) /\ \A t \in Ticks : t # i => Queue(t)' = Queue(t)
  BY <1>1, <1>2, <1>3 DEF Queue, TypeOK
<1>10. s \notin At(i) /\ s \notin ToSet(Queue(i))
  BY <1>5 DEF At, BookInv, QueuesExact
<1>11. i \in Marks(d) \/ Queue(i) = <<>>
  <2> SUFFICES ASSUME i \notin Marks(d) PROVE Queue(i) = <<>>
    OBVIOUS
  <2>1. \A e \in Sides : i \notin Marks(e)
    BY <1>7, <1>8
  <2>2. At(i) = {}
    BY <2>1, BookTypes DEF At, BookInv, MarksExact, Marked
  <2>3. ToSet(Queue(i)) = {} /\ Queue(i) \in Seq(Slots)
    BY <2>2, BookTypes DEF BookInv, QueuesExact
  <2>4. ASSUME Queue(i) # <<>> PROVE FALSE
    <3>1. Queue(i)[1] \in ToSet(Queue(i))
      BY <2>3, <2>4 DEF ToSet
    <3> QED BY <2>3, <3>1
  <2> QED BY <2>4
<1>12. ASSUME NEW e \in Sides, NEW t \in Ticks, e # d \/ t # i
       PROVE  QueueOf(e, t)' = QueueOf(e, t)
  <2>1. CASE t = i
    BY <1>7, <1>8, <1>12, <2>1 DEF QueueOf
  <2>2. CASE t # i
    <3>1. \A x \in At(t) : order'[x] = order[x] /\ gens'[x] = gens[x]
      BY <1>5, <1>6 DEF At
    <3>2. t \in Marks(e)' <=> t \in Marks(e)
      BY <1>7, <2>2
    <3> QED BY <1>9, <2>2, <3>1, <3>2, QueueKept
  <2> QED BY <2>1, <2>2
<1>13. QueueOf(d, i)' = Append(QueueOf(d, i), View(s)')
  <2>1. PICK v, w \in [Slots -> Entry], a, b \in Seq(Entry), q, r \in Seq(Slots) :
           /\ \A x \in Slots : v[x] = View(x) /\ w[x] = View(x)'
           /\ a = QueueOf(d, i) /\ b = QueueOf(d, i)' /\ q = Queue(i) /\ r = Queue(i)'
           /\ Shows(a, v, q) /\ Shows(b, w, r) /\ IsInjective(q)
    BY <1>7, <1>11, ShownBoth
  <2>2. \A x \in Slots : x # s => View(x)' = View(x)
    BY <1>6 DEF View
  <2>3. SameBut(v, w, s)
    BY <2>1, <2>2 DEF SameBut
  <2>4. Shows(a, v, q) /\ Shows(b, w, Append(q, s)) /\ s \notin ToSet(q)
    BY <1>9, <1>10, <2>1
  <2>5. b = Append(a, w[s])
    BY <2>3, <2>4, ShownAppended
  <2> QED BY <2>1, <2>5
<1>14. Book' = [Book EXCEPT ![d][i] = Append(Book[d][i], View(s)')]
  <2>1. QueueOf(d, i)' = Append(Book[d][i], View(s)')
    BY <1>13, BookAt
  <2> QED BY <1>12, <2>1, BookExcept
<1>15. /\ Incoming.live = TRUE /\ Incoming.qty > 0 /\ Incoming.qty = taker.qty /\ taker.qty \in Nat
       /\ Incoming.side = d /\ Incoming.price = i /\ Incoming.display = taker.display
       /\ taker.display \in Nat /\ Promise!Crossed(Incoming.side, Incoming.price) = {}
  BY <1>2, <1>3, RestFacts
<1>16. PICK id \in (Slots \X (1 .. MaxGen)) \ Issued :
         id = <<s, gens[s] + 1>> /\ Issued' = Issued \union {id}
  BY <1>3, <1>4, <1>5, IssuedAdds
<1>17. /\ Shown = IF Incoming.display > 0 /\ Incoming.display < Incoming.qty
                  THEN Incoming.display ELSE Incoming.qty
       /\ View(s)' = [id |-> id, qty |-> Shown, hidden |-> Incoming.qty - Shown,
                      display |-> Incoming.display]
  <2>1. Shown = IF Incoming.display > 0 /\ Incoming.display < Incoming.qty
                THEN Incoming.display ELSE Incoming.qty
    BY <1>15 DEF Shown, Least
  <2>2. /\ order'[s].qty = Shown /\ order'[s].hidden = taker.qty - Shown
        /\ order'[s].display = taker.display
    BY <1>1 DEF TypeOK
  <2> QED BY <1>4, <1>15, <1>16, <2>1, <2>2 DEF View
<1>18. Cardinality(Promise!Resting) < PoolCap
  BY <1>4, RestingFits
<1>19. Incoming' = Promise!NoTaker /\ ret' = [id |-> id, qty |-> 0]
  BY <1>1, <1>3, <1>4, <1>16 DEF Incoming, NoTaker, Promise!NoTaker
<1>20. Book' = [Book EXCEPT ![Incoming.side][Incoming.price] =
                  Append(@, [id |-> id, qty |-> Shown, hidden |-> Incoming.qty - Shown,
                             display |-> Incoming.display])]
  BY <1>14, <1>15, <1>17
<1> QED BY <1>15, <1>16, <1>17, <1>18, <1>19, <1>20, SameCardinality DEF Promise!Rest

\* Unlinking a slot takes its order out of the abstract book.
LEMMA UnlinkTakesOut ==
  ASSUME TypeOK, TypeOK', BookInv, BookShown, BookShown', pc = "idle",
         UNCHANGED <<pc, taker, sweep, reload>>,
         NEW s \in Slots, Held(s), UnlinkAndRelease(s),
         NEW r, r[1] = order[s].side, r[2] = order[s].idx, r[3] \in 1 .. Len(Queue(order[s].idx)),
         Queue(order[s].idx)[r[3]] = s
  PROVE  Book' = Promise!Without(r) /\ Issued' = Issued /\ Incoming' = Incoming
<1>1. PICK i \in Ticks, d \in Sides : i = order[s].idx /\ d = order[s].side
  BY BookTypes
<1>2. PICK n \in 1 .. Len(Queue(i)) : n = r[3]
  BY <1>1
<1>3. /\ levels' = [levels EXCEPT ![i] = Unlinked(levels[i], s)]
      /\ gens' = [gens EXCEPT ![s] = @ + 1] /\ order' = [order EXCEPT ![s] = Dead]
      /\ bids' = IF Unlinked(levels[i], s) = <<>> /\ d = "Buy" THEN bids \ {i} ELSE bids
      /\ asks' = IF Unlinked(levels[i], s) = <<>> /\ d = "Sell" THEN asks \ {i} ELSE asks
  BY <1>1 DEF UnlinkAndRelease, Release
<1>4. /\ \A t \in Ticks : Queue(t) = levels[t] /\ Queue(t)' = levels'[t]
      /\ Queue(i) \in Seq(Slots) /\ IsInjective(Queue(i)) /\ DOMAIN Queue(i) = 1 .. Len(Queue(i))
  <2>1. \A t \in Ticks : Queue(t) = levels[t] /\ Queue(t)' = levels'[t]
    BY DEF Queue
  <2> QED BY <2>1, BookTypes DEF BookInv, QueuesExact
<1>5. Queue(i)[n] = s /\ Queue(i)' = RemoveAt(Queue(i), n) /\ Queue(i)' = Unlinked(levels[i], s)
  <2>1. Queue(i)[n] = s
    BY <1>1, <1>2
  <2>2. s \in ToSet(Queue(i))
    BY <1>4, <2>1 DEF ToSet
  <2>3. PICK m \in 1 .. Len(Queue(i)) : Queue(i)[m] = s /\ Unlinked(Queue(i), s) = RemoveAt(Queue(i), m)
    BY <1>4, <2>2, UnlinkedIsRemoveAt
  <2>4. m = n
    BY <1>4, <2>1, <2>3 DEF IsInjective
  <2>5. levels'[i] = Unlinked(levels[i], s)
    BY <1>3 DEF TypeOK
  <2> QED BY <1>4, <2>1, <2>3, <2>4, <2>5
<1>6. \A t \in Ticks : t # i => Queue(t)' = Queue(t)
  BY <1>3, <1>4 DEF TypeOK
<1>7. \A x \in Slots : x # s => order'[x] = order[x] /\ gens'[x] = gens[x]
  BY <1>3 DEF TypeOK
<1>8. i \in Marks(d) /\ \A e \in Sides : e # d => i \notin Marks(e)
  <2>1. i \in Marks(d)
    BY <1>1 DEF BookInv, MarksExact, Marked
  <2>2. bids \intersect asks = {}
    BY DEF BookInv, MarksExact
  <2> QED BY <2>1, <2>2 DEF Marks, Sides
<1>9. /\ i \in Marks(d)' \/ Queue(i)' = <<>>
      /\ \A e \in Sides : e # d => Marks(e)' = Marks(e)
      /\ \A e \in Sides, t \in Ticks : t # i => (t \in Marks(e)' <=> t \in Marks(e))
  BY <1>3, <1>5, <1>8 DEF Marks, Sides
<1>10. ASSUME NEW e \in Sides, NEW t \in Ticks, e # d \/ t # i
       PROVE  QueueOf(e, t)' = QueueOf(e, t)
  <2>1. CASE t = i
    BY <1>8, <1>9, <1>10, <2>1 DEF QueueOf
  <2>2. CASE t # i
    <3>1. \A x \in At(t) : order'[x] = order[x] /\ gens'[x] = gens[x]
      BY <1>1, <1>7, <2>2 DEF At
    <3> QED BY <1>6, <1>9, <2>2, <3>1, QueueKept
  <2> QED BY <2>1, <2>2
<1>11. QueueOf(d, i)' = RemoveAt(QueueOf(d, i), n)
  <2>1. PICK v, w \in [Slots -> Entry], a, b \in Seq(Entry), q, p \in Seq(Slots) :
           /\ \A x \in Slots : v[x] = View(x) /\ w[x] = View(x)'
           /\ a = QueueOf(d, i) /\ b = QueueOf(d, i)' /\ q = Queue(i) /\ p = Queue(i)'
           /\ Shows(a, v, q) /\ Shows(b, w, p) /\ IsInjective(q)
    BY <1>8, <1>9, ShownBoth
  <2>2. \A x \in Slots : x # s => View(x)' = View(x)
    BY <1>7 DEF View
  <2>3. SameBut(v, w, q[n])
    BY <1>5, <2>1, <2>2 DEF SameBut
  <2>4. Shows(a, v, q) /\ Shows(b, w, RemoveAt(q, n)) /\ IsInjective(q) /\ n \in 1 .. Len(q)
    BY <1>5, <2>1
  <2>5. b = RemoveAt(a, n)
    BY <2>3, <2>4, ShownRemoved
  <2> QED BY <2>1, <2>5
<1>12. Book' = [Book EXCEPT ![d][i] = RemoveAt(Book[d][i], n)]
  <2>1. QueueOf(d, i)' = RemoveAt(Book[d][i], n)
    BY <1>11, BookAt
  <2> QED BY <1>10, <2>1, BookExcept
<1>13. Book' = Promise!Without(r)
  BY <1>1, <1>2, <1>12 DEF Promise!Without, RemoveAt
<1>14. Issued' = Issued
  BY <1>3, IssuedKept
<1> QED BY <1>13, <1>14 DEF Incoming

\* An id nobody rests under is answered, and nothing else happens.
LEMMA NotFoundIs ==
  ASSUME TypeOK, NotFound, UNCHANGED <<pc, taker, sweep, reload>>
  PROVE  /\ UNCHANGED <<Book, Incoming, Issued>> /\ ret' = [id |-> NoId, qty |-> 0]
<1>1. \A t \in Ticks : Queue(t)' = Queue(t)
  BY DEF NotFound, bookVars, Queue
<1>2. Book' = Book /\ Issued' = Issued
  BY <1>1, BookQuiet DEF NotFound, bookVars
<1> QED BY <1>2 DEF NotFound, Incoming

\* The order an accepted id names, as the abstract book holds it.
LEMMA AcceptedRests ==
  ASSUME TypeOK, BookInv, NEW id \in HeldIds, Accepts(id), MaxGen < GenMod, GensBounded
  PROVE  \E s \in Slots, r \in Promise!Resting :
           /\ s = id[1] /\ Held(s) /\ Promise!IdAt(r) = id
           /\ r[1] = order[s].side /\ r[2] = order[s].idx /\ r[3] \in 1 .. Len(Queue(order[s].idx))
           /\ Queue(order[s].idx)[r[3]] = s /\ Book[r[1]][r[2]][r[3]] = View(s)
<1>1. PICK r \in Promise!Resting : Promise!IdAt(r) = id
  BY AcceptsExact
<1>2. PICK s \in Slots :
        /\ r = <<order[s].side, order[s].idx, r[3]>> /\ r[3] \in 1 .. Len(Queue(order[s].idx))
        /\ Queue(order[s].idx)[r[3]] = s /\ Held(s)
        /\ Book[r[1]][r[2]][r[3]] = View(s) /\ Promise!IdAt(r) = <<s, gens[s]>>
  BY RestingHeld
<1>3. r[1] = order[s].side /\ r[2] = order[s].idx /\ s = id[1]
  BY <1>1, <1>2
<1> QED BY <1>1, <1>2, <1>3

LEMMA CancelCancels ==
  ASSUME TypeOK, TypeOK', BookInv, BookShown, BookShown', GensBounded, MaxGen < GenMod,
         NEW id \in HeldIds, Cancel(id)
  PROVE  Promise!Cancel(id)
<1>1. pc = "idle" /\ UNCHANGED <<pc, taker, sweep, reload>> /\ Incoming.live = FALSE
  BY DEF Cancel, Incoming
<1>2. CASE Accepts(id)
  <2>1. PICK s \in Slots, r \in Promise!Resting :
          /\ s = id[1] /\ Held(s) /\ Promise!IdAt(r) = id
          /\ r[1] = order[s].side /\ r[2] = order[s].idx /\ r[3] \in 1 .. Len(Queue(order[s].idx))
          /\ Queue(order[s].idx)[r[3]] = s
    BY <1>2, AcceptedRests
  <2>2. UnlinkAndRelease(s) /\ ret' = [id |-> NoId, qty |-> 1]
    BY <1>2, <2>1 DEF Cancel
  <2>3. Book' = Promise!Without(r) /\ Issued' = Issued /\ Incoming' = Incoming
    BY <1>1, <2>1, <2>2, UnlinkTakesOut
  <2> QED BY <1>1, <2>1, <2>2, <2>3 DEF Promise!Cancel
<1>3. CASE ~Accepts(id)
  <2>1. NotFound
    BY <1>3 DEF Cancel
  <2>2. \A r \in Promise!Resting : Promise!IdAt(r) # id
    BY <1>3, AcceptsExact
  <2> QED BY <1>1, <2>1, <2>2, NotFoundIs DEF Promise!Cancel
<1> QED BY <1>2, <1>3

\* One slot of the queue changed, in its place.
LEMMA ShownChanged ==
  ASSUME NEW v \in [Slots -> Entry], NEW w \in [Slots -> Entry],
         NEW q \in Seq(Slots), IsInjective(q), NEW n \in 1 .. Len(q),
         NEW a \in Seq(Entry), NEW b \in Seq(Entry), Shows(a, v, q), Shows(b, w, q),
         SameBut(v, w, q[n])
  PROVE  b = [a EXCEPT ![n] = w[q[n]]]
<1>1. /\ Len(q) \in Nat /\ DOMAIN q = 1 .. Len(q)
      /\ Len(a) = Len(q) /\ \A i \in 1 .. Len(q) : a[i] = v[q[i]] /\ q[i] \in Slots
      /\ Len(b) = Len(q) /\ \A i \in 1 .. Len(q) : b[i] = w[q[i]]
  BY DEF Shows
<1>2. ASSUME NEW i \in 1 .. Len(q) PROVE b[i] = IF i = n THEN w[q[n]] ELSE a[i]
  <2>1. CASE i = n
    BY <1>1, <2>1
  <2>2. CASE i # n
    <3>1. q[i] # q[n] /\ q[i] \in Slots
      BY <1>1, <2>2 DEF IsInjective
    <3>2. w[q[i]] = v[q[i]]
      BY <3>1 DEF SameBut
    <3> QED BY <1>1, <2>2, <3>2
  <2> QED BY <2>1, <2>2
<1>3. DOMAIN a = 1 .. Len(q) /\ DOMAIN b = 1 .. Len(q)
  BY <1>1
<1>4. b = [i \in 1 .. Len(q) |-> b[i]]
  BY <1>3
<1>5. [a EXCEPT ![n] = w[q[n]]] = [i \in 1 .. Len(q) |-> IF i = n THEN w[q[n]] ELSE a[i]]
  BY <1>3
<1> QED BY <1>2, <1>4, <1>5

LEMMA ReducePartReduces ==
  ASSUME TypeOK, TypeOK', BookInv, BookShown, BookShown', pc = "idle",
         UNCHANGED <<pc, taker, sweep, reload>>,
         NEW s \in Slots, Held(s), NEW x \in Nat, x < order[s].qty, ReducePart(s, x),
         NEW r, r[1] = order[s].side, r[2] = order[s].idx, r[3] \in 1 .. Len(Queue(order[s].idx)),
         Queue(order[s].idx)[r[3]] = s, Book[r[1]][r[2]][r[3]] = View(s)
  PROVE  /\ Book' = [Book EXCEPT ![r[1]][r[2]][r[3]].qty = @ - x]
         /\ Issued' = Issued /\ Incoming' = Incoming
<1>1. PICK i \in Ticks, d \in Sides : i = order[s].idx /\ d = order[s].side
  BY BookTypes
<1>2. PICK n \in 1 .. Len(Queue(i)) : n = r[3]
  BY <1>1
<1>3. /\ order' = [order EXCEPT ![s].qty = @ - x]
      /\ UNCHANGED <<levels, gens, bids, asks>>
  BY DEF ReducePart
<1>4. \A t \in Ticks : Queue(t)' = Queue(t)
  BY <1>3 DEF Queue
<1>5. \A y \in Slots : y # s => order'[y] = order[y] /\ gens'[y] = gens[y] /\ View(y)' = View(y)
  BY <1>3 DEF TypeOK, View
<1>6. View(s)' = [View(s) EXCEPT !.qty = @ - x]
  <2>1. /\ order'[s].qty = order[s].qty - x /\ order'[s].hidden = order[s].hidden
        /\ order'[s].display = order[s].display
    BY <1>3 DEF TypeOK, Order
  <2> QED BY <1>3, <2>1 DEF View
<1>7. i \in Marks(d) /\ i \in Marks(d)' /\ \A e \in Sides : e # d => i \notin Marks(e) /\ i \notin Marks(e)'
  <2>1. i \in Marks(d)
    BY <1>1 DEF BookInv, MarksExact, Marked
  <2>2. bids \intersect asks = {}
    BY DEF BookInv, MarksExact
  <2> QED BY <1>3, <2>1, <2>2 DEF Marks, Sides
<1>8. ASSUME NEW e \in Sides, NEW t \in Ticks, e # d \/ t # i
      PROVE  QueueOf(e, t)' = QueueOf(e, t)
  <2>1. CASE t = i
    BY <1>7, <1>8, <2>1 DEF QueueOf
  <2>2. CASE t # i
    <3>1. \A y \in At(t) : order'[y] = order[y] /\ gens'[y] = gens[y]
      BY <1>1, <1>5, <2>2 DEF At
    <3>2. t \in Marks(e)' <=> t \in Marks(e)
      BY <1>3 DEF Marks
    <3> QED BY <1>4, <3>1, <3>2, QueueKept
  <2> QED BY <2>1, <2>2
<1>9. QueueOf(d, i)' = [QueueOf(d, i) EXCEPT ![n] = View(s)']
  <2>1. PICK v, w \in [Slots -> Entry], a, b \in Seq(Entry), q, p \in Seq(Slots) :
           /\ \A y \in Slots : v[y] = View(y) /\ w[y] = View(y)'
           /\ a = QueueOf(d, i) /\ b = QueueOf(d, i)' /\ q = Queue(i) /\ p = Queue(i)'
           /\ Shows(a, v, q) /\ Shows(b, w, p) /\ IsInjective(q)
    BY <1>7, ShownBoth
  <2>2. q[n] = s /\ n \in 1 .. Len(q) /\ p = q
    BY <1>1, <1>2, <1>4, <2>1
  <2>3. SameBut(v, w, q[n])
    BY <1>5, <2>1, <2>2 DEF SameBut
  <2>4. Shows(a, v, q) /\ Shows(b, w, q) /\ IsInjective(q) /\ n \in 1 .. Len(q)
    BY <2>1, <2>2
  <2>5. b = [a EXCEPT ![n] = w[q[n]]]
    BY <2>3, <2>4, ShownChanged
  <2> QED BY <2>1, <2>2, <2>5
<1>10. Book[d][i][n] = View(s) /\ Book[d][i] = QueueOf(d, i)
  BY <1>1, <1>2, BookAt
<1>11. Book' = [Book EXCEPT ![d][i] = [Book[d][i] EXCEPT ![n] = [Book[d][i][n] EXCEPT !.qty = @ - x]]]
  <2>1. QueueOf(d, i)' = [Book[d][i] EXCEPT ![n] = [Book[d][i][n] EXCEPT !.qty = @ - x]]
    BY <1>6, <1>9, <1>10
  <2> QED BY <1>8, <2>1, BookExcept
<1>12. Book' = [Book EXCEPT ![d][i][n].qty = @ - x]
  BY <1>11
<1>13. Issued' = Issued /\ Incoming' = Incoming
  BY <1>3 DEF Issued, Incoming
<1> QED BY <1>1, <1>2, <1>12, <1>13

LEMMA ReduceReduces ==
  ASSUME TypeOK, TypeOK', BookInv, BookShown, BookShown', GensBounded, MaxGen < GenMod,
         NEW id \in HeldIds, NEW x \in 0 .. MaxQty, Reduce(id, x)
  PROVE  Promise!Reduce(id, x)
<1>1. pc = "idle" /\ UNCHANGED <<pc, taker, sweep, reload>> /\ Incoming.live = FALSE /\ x \in Nat
  <2>1. x \in Nat
    BY BookAssumption
  <2>2. pc = "idle" /\ UNCHANGED <<pc, taker, sweep, reload>>
    BY DEF Reduce
  <2> QED BY <2>1, <2>2 DEF Incoming
<1>2. CASE Accepts(id)
  <2>1. PICK s \in Slots, r \in Promise!Resting :
          /\ s = id[1] /\ Held(s) /\ Promise!IdAt(r) = id
          /\ r[1] = order[s].side /\ r[2] = order[s].idx /\ r[3] \in 1 .. Len(Queue(order[s].idx))
          /\ Queue(order[s].idx)[r[3]] = s /\ Book[r[1]][r[2]][r[3]] = View(s)
    BY <1>2, AcceptedRests
  <2>2. /\ Book[r[1]][r[2]][r[3]].id = id /\ Book[r[1]][r[2]][r[3]].qty = order[s].qty
        /\ order[s].qty \in Nat
    BY <2>1, BookTypes DEF View, Promise!IdAt
  <2>3. CASE x < order[s].qty
    <3>1. ReducePart(s, x) /\ ret' = [id |-> NoId, qty |-> x]
      BY <1>1, <1>2, <2>1, <2>2, <2>3 DEF Reduce, ReducePart
    <3>2. /\ Book' = [Book EXCEPT ![r[1]][r[2]][r[3]].qty = @ - x]
          /\ Issued' = Issued /\ Incoming' = Incoming
      BY <1>1, <2>1, <2>3, <3>1, ReducePartReduces
    <3> QED BY <1>1, <2>1, <2>2, <2>3, <3>1, <3>2 DEF Promise!Reduce
  <2>4. CASE ~ x < order[s].qty
    <3>1. UnlinkAndRelease(s) /\ ret' = [id |-> NoId, qty |-> order[s].qty]
      BY <1>1, <1>2, <2>1, <2>2, <2>4 DEF Reduce, ReduceAll
    <3>2. Book' = Promise!Without(r) /\ Issued' = Issued /\ Incoming' = Incoming
      BY <1>1, <2>1, <3>1, UnlinkTakesOut
    <3> QED BY <1>1, <2>1, <2>2, <2>4, <3>1, <3>2 DEF Promise!Reduce
  <2> QED BY <2>3, <2>4
<1>3. CASE ~Accepts(id)
  <2>1. NotFound
    BY <1>3 DEF Reduce
  <2>2. \A r \in Promise!Resting : Promise!IdAt(r) # id
    BY <1>3, AcceptsExact
  <2> QED BY <1>1, <2>1, <2>2, NotFoundIs DEF Promise!Reduce
<1> QED BY <1>2, <1>3

LEMMA BookStartsEmpty == Init => Promise!Init
<1> SUFFICES ASSUME Init PROVE Promise!Init
  OBVIOUS
<1>1. Book = [s \in Promise!Sides |-> [p \in Ticks |-> <<>>]]
  <2>1. \A side \in Sides, t \in Ticks : QueueOf(side, t) = <<>>
    BY DEF Init, QueueOf, Marks
  <2> QED BY <2>1 DEF Book, Sides, Promise!Sides
<1>2. Incoming = Promise!NoTaker
  BY DEF Init, Incoming, NoTaker, Promise!NoTaker
<1>3. Issued = {}
  <2>1. \A id \in Slots \X (1 .. MaxGen) : ~ id[2] <= gens[id[1]]
    <3> SUFFICES ASSUME NEW id \in Slots \X (1 .. MaxGen) PROVE ~ id[2] <= gens[id[1]]
      OBVIOUS
    <3>1. id[1] \in Slots /\ id[2] \in 1 .. MaxGen /\ gens[id[1]] = 0
      BY DEF Init
    <3> QED BY <3>1, BookAssumption
  <2> QED BY <2>1 DEF Issued
<1>4. ret = Promise!NoRet
  BY DEF Init, NoRet, Promise!NoRet
<1> QED BY <1>1, <1>2, <1>3, <1>4 DEF Promise!Init

LEMMA EveryStepPromised ==
  ASSUME MaxGen < GenMod, TypeOK, TypeOK', BestInv, BookInv, BookInv', CallInv, GensBounded,
         BookShown, BookShown', [Next]_vars
  PROVE  [Promise!Next]_(Promise!vars)
<1>1. CASE EnterSweep
  BY <1>1, EnterUnseen
<1>2. CASE LeaveSweep
  BY <1>2, LeaveUnseen
<1>3. CASE TakerFilled
  BY <1>3, TakerFilledFills DEF Promise!Next, Promise!Engine
<1>4. CASE FillPart
  BY <1>4, FillPartTrades DEF Promise!Next, Promise!Engine
<1>5. CASE FillReload
  BY <1>5, FillReloadTrades DEF Promise!Next, Promise!Engine
<1>6. CASE FillRelease
  BY <1>6, FillReleaseTrades DEF Promise!Next, Promise!Engine
<1>7. CASE Rest
  BY <1>7, RestIsRest DEF Promise!Next, Promise!Engine
<1>8. CASE RestExhausted
  BY <1>8, RestExhaustedRests DEF Promise!Next, Promise!Engine
<1>9. ASSUME NEW side \in Sides, NEW idx \in 0 .. NumTicks, NEW qty \in 0 .. MaxQty,
              NEW postOnly \in BOOLEAN, NewOrder(side, idx, qty, postOnly)
       PROVE  Promise!Next
  BY <1>9, NewOrderSubmits
<1>10. ASSUME NEW side \in Sides, NEW idx \in 0 .. NumTicks, NEW display \in 0 .. MaxQty,
              NEW total \in 0 .. MaxQty, NewIceberg(side, idx, display, total)
       PROVE  Promise!Next
  BY <1>10, NewIcebergSubmits
<1>11. HeldIds = Issued \union {NoId, FilledId}
  BY DEF HeldIds
<1>12. ASSUME NEW id \in HeldIds, Cancel(id) PROVE Promise!Next
  <2>1. Promise!Cancel(id)
    BY <1>12, CancelCancels
  <2> QED BY <1>11, <2>1 DEF Promise!Next
<1>13. ASSUME NEW id \in HeldIds, NEW x \in 0 .. MaxQty, Reduce(id, x) PROVE Promise!Next
  <2>1. Promise!Reduce(id, x)
    BY <1>13, ReduceReduces
  <2> QED BY <1>11, <2>1 DEF Promise!Next
<1>14. CASE Calls
  BY <1>9, <1>10, <1>12, <1>13, <1>14 DEF Calls
<1>15. CASE UNCHANGED vars
  <2>1. \A t \in Ticks : Queue(t)' = Queue(t)
    BY <1>15 DEF vars, Queue
  <2>2. Book' = Book /\ Issued' = Issued
    BY <1>15, <2>1, BookQuiet DEF vars
  <2>3. Incoming' = Incoming
    BY <1>15 DEF vars, Incoming
  <2> QED BY <1>15, <2>2, <2>3 DEF Promise!vars, vars
<1> QED BY <1>1, <1>2, <1>3, <1>4, <1>5, <1>6, <1>7, <1>8, <1>14, <1>15 DEF Next, Engine

\* Until a generation wraps, every step of the engine, its bitmaps, arena, cached
\* prices and sweeps included, is one the abstract book allows or is not seen:
\* trades in price-time order, ids that never name two orders, the answers of
\* every call.  Fairness added, which TLC checks, it is ImplementsPriceTimeBook.
THEOREM EngineKeepsPromise ==
  ASSUME MaxGen < GenMod
  PROVE  Spec => Promise!Spec
<1>1. Init => GensBounded
  BY BookAssumption DEF Init, GensBounded
<1>2. Init => CallInv
  BY DEF Init, CallInv
<1>3. MaxGen < GenMod
  OBVIOUS
<1>4. ASSUME TypeOK, TypeOK', BestInv, BookInv, BookInv', CallInv, GensBounded,
             BookShown, BookShown', [Next]_vars
      PROVE  [Promise!Next]_(Promise!vars)
  BY <1>3, <1>4, EveryStepPromised
<1>5. TypeOK => BookShown
  BY ShowsQueues
<1> QED BY <1>1, <1>2, <1>4, <1>5, BookStartsEmpty, BookCorrect, GensStep, CallStep, PTL
   DEF Spec, Promise!Spec
===============================================================================
