------------------------- MODULE OrderBookRefinement -------------------------
(***************************************************************************)
(* The engine of OrderBook implements PriceTimeBook: a side's queue at a   *)
(* price is the level's list, read past the sweep's cursor and continued   *)
(* with the makers the sweep refilled; an order's identity is the slot and *)
(* generation its id pairs.                                                *)
(***************************************************************************)
EXTENDS OrderBook

View(s) == [id |-> <<s, gens[s]>>, qty |-> order[s].qty,
            hidden |-> order[s].hidden, display |-> order[s].display]

\* Both sides share the levels; one belongs to the side that has its bit.
Marks(side) == IF side = "Buy" THEN bids ELSE asks

QueueOf(side, t) ==
  IF t \in Marks(side) THEN [i \in DOMAIN Queue(t) |-> View(Queue(t)[i])] ELSE <<>>

Book == [side \in Sides |-> [t \in Ticks |-> QueueOf(side, t)]]

Incoming == [side |-> taker.side, price |-> taker.idx, qty |-> taker.qty,
             display |-> taker.display, live |-> pc # "idle"]

Promise == INSTANCE PriceTimeBook WITH
  Prices <- Ticks, AskedPrices <- 0..NumTicks, Ids <- Slots \X (1..MaxGen),
  NullIds <- {NoId, FilledId}, Capacity <- PoolCap,
  book <- Book, taker <- Incoming, issued <- Issued

\* The detailed engine keeps the promises of the abstract book: trades in
\* price-time order at the resting price, an id that names one order forever,
\* the values calls return, and that calls return.
ImplementsPriceTimeBook == Promise!FairSpec

\* The book answers every call by its own state, cached prices and slot
\* generations, as the abstract book would by its queues: an order is refused
\* when it is off the ladder, empty, or maker-only and some resting order would
\* trade with it; an id is accepted exactly while the order it was returned for
\* rests, however often the slot was recycled.
CallsKeepPromise ==
  pc = "idle" =>
    /\ \A side \in Sides, idx \in 0..NumTicks, qty \in 0..MaxQty, postOnly \in BOOLEAN :
         Refused(side, idx, qty, postOnly) = Promise!Refused(side, idx, qty, postOnly)
    /\ \A id \in HeldIds :
         Accepts(id) = \E r \in Promise!Resting : Promise!IdAt(r) = id

Storage == INSTANCE Ladder WITH
  occupied <- bids \union asks,
  sweep <- IF pc = "sweep" THEN sweep ELSE NumTicks

\* The engine uses its levels, bitmaps and arena in no other way than Ladder
\* allows, which LadderStorage implements with links and words: only occupied
\* levels are swept, orders join at the back, slots come and go as on a stack.
UsesLadder == Storage!Spec
=============================================================================
