------------------------------ MODULE OrderBook ------------------------------
(***************************************************************************)
(* The matching engine of src/include/lob/order_book.hpp: a flat array of  *)
(* price levels that both sides share, an occupancy bitmap and a cached    *)
(* best index per side, a LIFO arena of order slots, and a generation      *)
(* counter per slot that makes ids of removed orders recognisable.         *)
(*                                                                         *)
(* new_order and new_iceberg_order are split at every iteration of their   *)
(* loops, so that what the loops rely on can be stated; the other calls    *)
(* are one step.  One thread owns the book, so no call starts while        *)
(* another runs.                                                           *)
(*                                                                         *)
(* Abstractions.  A level's intrusive list is the sequence of its slots    *)
(* (while a sweep runs: from the sweep's cursor on).  A bitmap is the set  *)
(* of its bits.  Prices are ladder indices; every price off the ladder is  *)
(* the index NumTicks, since the code's unsigned index test rejects those  *)
(* below and those above alike.  A generation counts without bound and is  *)
(* compared modulo GenMod, 2^32 in the code.  Quantities that are negative *)
(* behave as 0.                                                            *)
(***************************************************************************)
EXTENDS Integers, FiniteSets, SequencesExt

CONSTANTS NumTicks,   \* price levels of the ladder
          PoolCap,    \* slots of the order arena
          GenMod,     \* generations wrap here: 2^32
          MaxQty,     \* bound: largest quantity of a call
          MaxGen      \* bound: orders are accepted while no slot can pass it

ASSUME BookAssumption ==
  /\ NumTicks \in Nat \ {0} /\ PoolCap \in Nat \ {0}
  /\ GenMod \in Nat \ {0} /\ GenMod % 2 = 0
  /\ MaxQty \in Nat /\ MaxGen \in Nat

VARIABLES levels,     \* [Ticks -> Seq(Slots)], the FIFO of each level
          totalQty,   \* [Ticks -> Int], visible quantity of each level
          order,      \* [Slots -> Order], the arena
          free,       \* Seq(Slots), the arena's free list, top first
          gens,       \* [Slots -> Nat], odd while the slot holds an order
          bids, asks, \* occupied ticks of each side
          bestBid, bestAsk,
          pc,         \* where the running new-order call is
          taker,      \* its arguments and the quantity still open
          sweep,      \* the level sweep_level works on
          reload,     \* the slots whose clip this sweep refilled
          ret         \* what the last call returned

bookVars == <<levels, totalQty, order, bids, asks, bestBid, bestAsk>>
vars == <<levels, totalQty, order, free, gens, bids, asks, bestBid, bestAsk,
          pc, taker, sweep, reload, ret>>

Ticks == 0 .. NumTicks - 1
Slots == 1 .. PoolCap             \* the id holds slot + 1, so slots count from 1
Sides == {"Buy", "Sell"}
NPOS  == NumTicks + 1             \* the largest size_t: above every index
Order == [side : Sides, idx : Ticks, qty : Nat, hidden : Nat, display : Nat]
Taker == [side : Sides, idx : Ticks, qty : Nat, orig : Nat, display : Nat]

\* An id pairs a slot with the generation it had; two id values name no slot.
NoId     == <<0, 0>>
FilledId == <<PoolCap + 1, 0>>
NoRet    == [id |-> NoId, qty |-> -1]
Dead     == [side |-> "Buy", idx |-> 0, qty |-> 0, hidden |-> 0, display |-> 0]
NoTaker  == [side |-> "Buy", idx |-> 0, qty |-> 0, orig |-> 0, display |-> 0]

Least(a, b) == IF a < b THEN a ELSE b

\* LevelBitmap::next_set and prev_set, on the set of bits.
NextSet(S, i) ==
  IF \E t \in S : t >= i THEN CHOOSE t \in S : t >= i /\ \A u \in S : u >= i => t <= u
                         ELSE NPOS
PrevSet(S, i) ==
  IF \E t \in S : t <= i THEN CHOOSE t \in S : t <= i /\ \A u \in S : u <= i => t >= u
                         ELSE NPOS

Init ==
  /\ levels = [t \in Ticks |-> <<>>]
  /\ totalQty = [t \in Ticks |-> 0]
  /\ order = [s \in Slots |-> Dead]
  /\ free = [i \in 1..PoolCap |-> i]
  /\ gens = [s \in Slots |-> 0]
  /\ bids = {} /\ asks = {}
  /\ bestBid = NPOS /\ bestAsk = NumTicks
  /\ pc = "idle" /\ taker = NoTaker /\ sweep = 0 /\ reload = <<>>
  /\ ret = NoRet

-----------------------------------------------------------------------------
(* The arena: acquire pops the free list, release pushes. *)

\* Mutant: the slot stays on the free list.
AcquireKeepsSlot(slot) ==
  /\ free # <<>> /\ slot = Head(free) /\ free' = free
  /\ gens' = [gens EXCEPT ![slot] = @ + 1]

Acquire(slot) ==
  /\ free # <<>>
  /\ slot = Head(free)
  /\ free' = Tail(free)
  /\ gens' = [gens EXCEPT ![slot] = @ + 1]

\* Mutant: the id is not invalidated.
ReleaseWithoutBump(slot) == free' = <<slot>> \o free /\ gens' = gens

Release(slot) ==
  /\ free' = <<slot>> \o free
  /\ gens' = [gens EXCEPT ![slot] = @ + 1]

-----------------------------------------------------------------------------
(* new_order and new_iceberg_order *)

\* Mutant: an order at exactly the best opposite price does not trade.
CrossesStrictly(side, idx) ==
  IF side = "Buy" THEN bestAsk < idx ELSE bestBid # NPOS /\ bestBid > idx

\* Would a limit order at idx trade now?  The loop condition, and the
\* post-only test.
Crosses(side, idx) ==
  IF side = "Buy" THEN bestAsk <= idx ELSE bestBid # NPOS /\ bestBid >= idx

\* Whatever slot the call rests in, one it empties itself included, its
\* generation stays within the bound.
WithinBound == \A s \in Slots : gens[s] + 1 + (gens[s] % 2) <= MaxGen

Reject ==
  /\ ret' = [id |-> NoId, qty |-> 0]
  /\ UNCHANGED <<bookVars, free, gens, pc, taker, sweep, reload>>

Start(side, idx, qty, display) ==
  /\ pc' = "match"
  /\ taker' = [side |-> side, idx |-> idx, qty |-> qty, orig |-> qty, display |-> display]
  /\ ret' = NoRet
  /\ UNCHANGED <<bookVars, free, gens, sweep, reload>>

\* Mutant: the maker-only test is missing.
RefusedUnlessValid(side, idx, qty, postOnly) == idx >= NumTicks \/ qty <= 0

\* The early returns of new_order.
Refused(side, idx, qty, postOnly) ==
  idx >= NumTicks \/ qty <= 0 \/ (postOnly /\ Crosses(side, idx))

NewOrder(side, idx, qty, postOnly) ==
  /\ pc = "idle" /\ WithinBound
  /\ IF Refused(side, idx, qty, postOnly) THEN Reject ELSE Start(side, idx, qty, 0)

NewIceberg(side, idx, display, total) ==
  /\ pc = "idle" /\ WithinBound
  /\ IF idx >= NumTicks \/ total <= 0 \/ display <= 0
     THEN Reject ELSE Start(side, idx, total, display)

\* The while loop of the call: sweep the best opposite level it crosses.
EnterSweep ==
  /\ pc = "match" /\ taker.qty > 0 /\ Crosses(taker.side, taker.idx)
  /\ pc' = "sweep"
  /\ sweep' = IF taker.side = "Buy" THEN bestAsk ELSE bestBid
  /\ reload' = <<>>
  /\ UNCHANGED <<bookVars, free, gens, taker, ret>>

TakerFilled ==
  /\ pc = "match" /\ taker.qty = 0
  /\ pc' = "idle" /\ taker' = NoTaker
  /\ ret' = [id |-> FilledId, qty |-> 0]
  /\ UNCHANGED <<bookVars, free, gens, sweep, reload>>

-----------------------------------------------------------------------------
(* sweep_level: one action per outcome of an iteration of its loop *)

Maker   == Head(levels[sweep])
Fill    == Least(order[Maker].qty, taker.qty)
Filling == pc = "sweep" /\ levels[sweep] # <<>> /\ taker.qty > 0

\* The maker outlives the trade.
FillPart ==
  /\ Filling /\ Fill < order[Maker].qty
  /\ taker' = [taker EXCEPT !.qty = @ - Fill]
  /\ order' = [order EXCEPT ![Maker].qty = @ - Fill]
  /\ totalQty' = [totalQty EXCEPT ![sweep] = @ - Fill]
  /\ UNCHANGED <<levels, free, gens, bids, asks, bestBid, bestAsk,
                 pc, sweep, reload, ret>>

\* The trade takes all of the maker's visible clip and it has a reserve.
FillReload ==
  /\ Filling /\ Fill = order[Maker].qty /\ order[Maker].hidden > 0
  /\ LET refill == Least(order[Maker].display, order[Maker].hidden)
     IN  /\ order' = [order EXCEPT ![Maker].qty = refill, ![Maker].hidden = @ - refill]
         /\ totalQty' = [totalQty EXCEPT ![sweep] = @ - Fill + refill]
  /\ taker' = [taker EXCEPT !.qty = @ - Fill]
  /\ levels' = [levels EXCEPT ![sweep] = Tail(@)]
  /\ reload' = Append(reload, Maker)
  /\ UNCHANGED <<free, gens, bids, asks, bestBid, bestAsk, pc, sweep, ret>>

\* The trade exhausts the maker.
FillRelease ==
  /\ Filling /\ Fill = order[Maker].qty /\ order[Maker].hidden = 0
  /\ taker' = [taker EXCEPT !.qty = @ - Fill]
  /\ totalQty' = [totalQty EXCEPT ![sweep] = @ - Fill]
  /\ levels' = [levels EXCEPT ![sweep] = Tail(@)]
  /\ order' = [order EXCEPT ![Maker] = Dead]
  /\ Release(Maker)
  /\ UNCHANGED <<bids, asks, bestBid, bestAsk, pc, sweep, reload, ret>>

\* Mutant: the search runs before the bit is reset.
AskAfterBeforeReset(S, idx) == NextSet(S \union {idx}, idx)

\* The best index after the level at idx lost its last order.  A bid's index
\* is NPOS when the side is empty, an ask's is NumTicks.
AskAfter(S, idx) == IF NextSet(S, idx) = NPOS THEN NumTicks ELSE NextSet(S, idx)
BidAfter(S, idx) == PrevSet(S, idx)

\* Mutants: the reload chain is lost, or keeps its time priority.
SplicedDropsReload == levels[sweep]
SplicedInFront == reload \o levels[sweep]

\* The loop ends: splice the refilled makers behind the untouched ones, or
\* clear a level swept clean and hop to the next best.
Spliced == levels[sweep] \o reload

LeaveSweep ==
  /\ pc = "sweep" /\ (levels[sweep] = <<>> \/ taker.qty = 0)
  /\ pc' = "match"
  /\ levels' = [levels EXCEPT ![sweep] = Spliced]
  /\ reload' = <<>>
  /\ IF Spliced # <<>> THEN UNCHANGED <<bids, asks, bestBid, bestAsk>>
     ELSE IF taker.side = "Buy"
     THEN /\ asks' = asks \ {sweep}
          /\ bestAsk' = AskAfter(asks', sweep)
          /\ UNCHANGED <<bids, bestBid>>
     ELSE /\ bids' = bids \ {sweep}
          /\ bestBid' = BidAfter(bids', sweep)
          /\ UNCHANGED <<asks, bestAsk>>
  /\ UNCHANGED <<totalQty, order, free, gens, taker, sweep, ret>>

-----------------------------------------------------------------------------
(* rest and rest_iceberg *)

\* Mutant: the whole remainder of an iceberg is shown.
ShownUncapped == taker.qty

\* The visible clip: all of a plain order's quantity.
Shown == IF taker.display > 0 THEN Least(taker.display, taker.qty) ELSE taker.qty

\* Mutants: the cached best moves with every rest; only an improving level is
\* marked in the bitmap.
MarkOccupiedAlways(side, idx) ==
  IF side = "Buy" THEN bids' = bids \union {idx} /\ bestBid' = idx /\ UNCHANGED <<asks, bestAsk>>
                  ELSE asks' = asks \union {idx} /\ bestAsk' = idx /\ UNCHANGED <<bids, bestBid>>
MarkOccupiedIfBest(side, idx) ==
  IF side = "Buy"
  THEN IF bestBid = NPOS \/ idx > bestBid
       THEN bids' = bids \union {idx} /\ bestBid' = idx /\ UNCHANGED <<asks, bestAsk>>
       ELSE UNCHANGED <<bids, bestBid, asks, bestAsk>>
  ELSE IF idx < bestAsk
       THEN asks' = asks \union {idx} /\ bestAsk' = idx /\ UNCHANGED <<bids, bestBid>>
       ELSE UNCHANGED <<bids, bestBid, asks, bestAsk>>

\* Appending at idx sets the bitmap bit and may improve the cached best.
MarkOccupied(side, idx) ==
  IF side = "Buy"
  THEN /\ bids' = bids \union {idx}
       /\ bestBid' = IF bestBid = NPOS \/ idx > bestBid THEN idx ELSE bestBid
       /\ UNCHANGED <<asks, bestAsk>>
  ELSE /\ asks' = asks \union {idx}
       /\ bestAsk' = IF idx < bestAsk THEN idx ELSE bestAsk
       /\ UNCHANGED <<bids, bestBid>>

Resting == pc = "match" /\ taker.qty > 0 /\ ~Crosses(taker.side, taker.idx)

Rest ==
  /\ Resting
  /\ \E slot \in Slots :
       /\ Acquire(slot)
       /\ order' = [order EXCEPT ![slot] =
            [side |-> taker.side, idx |-> taker.idx, qty |-> Shown,
             hidden |-> taker.qty - Shown, display |-> taker.display]]
       /\ levels' = [levels EXCEPT ![taker.idx] = Append(@, slot)]
       /\ ret' = [id |-> <<slot, gens'[slot]>>, qty |-> 0]
  /\ totalQty' = [totalQty EXCEPT ![taker.idx] = @ + Shown]
  /\ MarkOccupied(taker.side, taker.idx)
  /\ pc' = "idle" /\ taker' = NoTaker
  /\ UNCHANGED <<sweep, reload>>

\* No slot is left: the call returns 0.
RestExhausted ==
  /\ Resting /\ free = <<>>
  /\ pc' = "idle" /\ taker' = NoTaker
  /\ ret' = [id |-> NoId, qty |-> 0]
  /\ UNCHANGED <<bookVars, free, gens, sweep, reload>>

-----------------------------------------------------------------------------
(* cancel and reduce *)

\* The ids callers hold: every one the book returned, and the two that name
\* no slot.  A client may keep an id for as long as it likes.
Issued  == {id \in Slots \X (1..MaxGen) : id[2] % 2 = 1 /\ id[2] <= gens[id[1]]}
HeldIds == Issued \union {NoId, FilledId}

\* The liveness check: the slot exists and its 32-bit generation matches.
Accepts(id) == id[1] \in Slots /\ gens[id[1]] % GenMod = id[2] % GenMod

\* The intrusive unlink: the slot's neighbours become each other's.
Unlinked(queue, slot) ==
  LET pos == CHOOSE i \in DOMAIN queue : queue[i] = slot
  IN  [i \in 1 .. Len(queue) - 1 |-> queue[IF i < pos THEN i ELSE i + 1]]

\* unlink_and_release, of a slot that is linked into its level.
UnlinkAndRelease(slot) ==
  LET idx == order[slot].idx
      emptied == Unlinked(levels[idx], slot) = <<>>
  IN  /\ levels' = [levels EXCEPT ![idx] = Unlinked(@, slot)]
      /\ totalQty' = [totalQty EXCEPT ![idx] = @ - order[slot].qty]
      /\ order' = [order EXCEPT ![slot] = Dead]
      /\ IF emptied /\ order[slot].side = "Buy"
         THEN /\ bids' = bids \ {idx}
              /\ bestBid' = IF idx = bestBid THEN BidAfter(bids', idx) ELSE bestBid
         ELSE UNCHANGED <<bids, bestBid>>
      /\ IF emptied /\ order[slot].side = "Sell"
         THEN /\ asks' = asks \ {idx}
              /\ bestAsk' = IF idx = bestAsk THEN AskAfter(asks', idx) ELSE bestAsk
         ELSE UNCHANGED <<asks, bestAsk>>
      /\ Release(slot)

NotFound ==
  /\ ret' = [id |-> NoId, qty |-> 0]
  /\ UNCHANGED <<bookVars, free, gens>>

Cancel(id) ==
  /\ pc = "idle"
  /\ IF Accepts(id)
     THEN UnlinkAndRelease(id[1]) /\ ret' = [id |-> NoId, qty |-> 1]
     ELSE NotFound
  /\ UNCHANGED <<pc, taker, sweep, reload>>

\* Two stores, in place: the order keeps its position in the queue.
ReducePart(slot, q) ==
  /\ order' = [order EXCEPT ![slot].qty = @ - q]
  /\ totalQty' = [totalQty EXCEPT ![order[slot].idx] = @ - q]
  /\ ret' = [id |-> NoId, qty |-> q]
  /\ UNCHANGED <<levels, free, gens, bids, asks, bestBid, bestAsk>>

ReduceAll(slot) ==
  /\ UnlinkAndRelease(slot)
  /\ ret' = [id |-> NoId, qty |-> order[slot].qty]

Reduce(id, q) ==
  /\ pc = "idle"
  /\ \/ ~Accepts(id) /\ NotFound
     \/ Accepts(id) /\ q < order[id[1]].qty /\ ReducePart(id[1], q)
     \/ Accepts(id) /\ q >= order[id[1]].qty /\ ReduceAll(id[1])
  /\ UNCHANGED <<pc, taker, sweep, reload>>

-----------------------------------------------------------------------------
Engine ==
  \/ EnterSweep \/ TakerFilled \/ FillPart \/ FillReload \/ FillRelease
  \/ LeaveSweep \/ Rest \/ RestExhausted

Calls ==
  \/ \E side \in Sides, idx \in 0..NumTicks, qty \in 0..MaxQty, postOnly \in BOOLEAN :
       NewOrder(side, idx, qty, postOnly)
  \/ \E side \in Sides, idx \in 0..NumTicks, display, total \in 0..MaxQty :
       NewIceberg(side, idx, display, total)
  \/ \E id \in HeldIds : Cancel(id)
  \/ \E id \in HeldIds, q \in 0..MaxQty : Reduce(id, q)

Next == Engine \/ Calls

\* The thread that made a call keeps running until it returns.
Spec == Init /\ [][Next]_vars /\ WF_vars(Engine)
-----------------------------------------------------------------------------
(***************************************************************************)
(* The properties of the book.                                             *)
(***************************************************************************)

\* The queue of a level, the makers this sweep refilled included.
Queue(t) == IF pc = "sweep" /\ t = sweep THEN levels[t] \o reload ELSE levels[t]

\* Types of every variable; indices of best levels are ladder indices or the
\* "none" value of their side.
TypeOK ==
  /\ levels \in [Ticks -> Seq(Slots)] /\ totalQty \in [Ticks -> Int]
  /\ order \in [Slots -> Order]
  /\ free \in Seq(Slots) /\ gens \in [Slots -> Nat]
  /\ bids \subseteq Ticks /\ asks \subseteq Ticks
  /\ bestBid \in Ticks \union {NPOS} /\ bestAsk \in Ticks \union {NumTicks}
  /\ pc \in {"idle", "match", "sweep"} /\ taker \in Taker
  /\ sweep \in Ticks /\ reload \in Seq(Slots)
  /\ ret \in [id : Nat \X Nat, qty : Int]

\* The cached best bid is the highest bit of the bid bitmap and the cached best
\* ask the lowest of the ask bitmap, or none; every path that empties or fills a
\* level keeps them so (rest, sweep_level and unlink_and_release).
BestBidCached ==
  IF bids = {} THEN bestBid = NPOS
               ELSE bestBid \in bids /\ \A t \in bids : t <= bestBid

BestAskCached ==
  IF asks = {} THEN bestAsk = NumTicks
               ELSE bestAsk \in asks /\ \A t \in asks : bestAsk <= t

BestCached == BestBidCached /\ BestAskCached

\* The book never stands crossed or locked, not even between two fills: what
\* would cross has traded before anything rests (new_order's loops).
NotCrossed == bestBid = NPOS \/ bestBid < bestAsk

\* A sweep works on the best occupied level of the side opposite to the taker
\* until it leaves it, so clearing that level's bit and hopping to the next bit
\* finds the new best (new_order passes best_ask_ or best_bid_ to sweep_level).
SweepAtBest ==
  pc = "sweep" => IF taker.side = "Buy" THEN sweep = bestAsk /\ sweep \in asks
                                        ELSE sweep = bestBid /\ sweep \in bids

\* Both sides share one array of levels, so a level must never mix them: an
\* order linked at a tick belongs there and to the side whose bit is set, and
\* a set bit means orders, except at the level a running sweep is emptying.
LevelsMatchBitmaps ==
  /\ \A t \in Ticks : \A s \in ToSet(Queue(t)) :
       order[s].idx = t /\ t \in (IF order[s].side = "Buy" THEN bids ELSE asks)
  /\ bids \intersect asks = {}
  /\ \A t \in bids \union asks : Queue(t) # <<>> \/ (pc = "sweep" /\ t = sweep)

\* A level's total_qty, which the BBO feed publishes, is the visible quantity
\* of the orders queued there, and every queued order shows some.
AggregateExact ==
  \A t \in Ticks :
    /\ totalQty[t] = FoldSeq(LAMBDA s, sum : sum + order[s].qty, 0, Queue(t))
    /\ \A s \in ToSet(Queue(t)) : order[s].qty > 0

\* Every arena slot is in exactly one place, once: on the free list with an
\* even generation, or in one level's queue with an odd one.
Places(s) == Cardinality({i \in DOMAIN free : free[i] = s})
Links(s) == Cardinality(UNION {{<<t, i>> : i \in {j \in DOMAIN Queue(t) : Queue(t)[j] = s}} : t \in Ticks})
SlotAccounting ==
  \A s \in Slots : /\ Places(s) + Links(s) = 1
                   /\ Links(s) = gens[s] % 2

\* An id that was returned once is accepted by cancel and reduce only while
\* the order it was returned for still rests (generations_, whose comment
\* promises that stale and duplicate ids mismatch).
StaleIdRejected ==
  \A id \in Issued : Accepts(id) => id[2] = gens[id[1]] /\ Links(id[1]) = 1

\* A call that has traded never ends in 0, "rejected": the sweep that
\* preceded the rest gave a slot back, so acquire cannot fail.
PartialFillCanRest == Resting /\ taker.qty < taker.orig => free # <<>>

\* Every new-order call returns: each iteration of its loops makes progress.
CallReturns == pc # "idle" ~> pc = "idle"

\* reduce's comment: it "returns the quantity actually removed".
Open(s) == IF gens[s] % 2 = 1 THEN order[s].qty + order[s].hidden ELSE 0
ReduceReturnsRemoved ==
  [][\A id \in HeldIds, q \in 1..MaxQty :
       Reduce(id, q) /\ Accepts(id) => ret'.qty = Open(id[1]) - Open(id[1])']_vars
=============================================================================
