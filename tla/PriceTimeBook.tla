---------------------------- MODULE PriceTimeBook ----------------------------
(***************************************************************************)
(* What the matching engine promises its callers, without arena, bitmap,   *)
(* cached best prices or generation counters: two ladders of FIFO queues,  *)
(* an incoming order that trades against the best opposite price it        *)
(* crosses, one resting order at a time in arrival order, and rests what   *)
(* is left; orders are cancelled and reduced by an id that names one order *)
(* forever.  OrderBook.tla is the detailed specification that implements   *)
(* this one.                                                               *)
(***************************************************************************)
EXTENDS Integers, Sequences, FiniteSetsExt

CONSTANTS Prices,     \* the ticks of the ladder
          AskedPrices,\* the prices callers may ask for, some off the ladder
          MaxQty,     \* largest quantity of a call
          Ids,        \* the identities orders may be given
          NullIds,    \* id values that never name an order
          Capacity,   \* most orders that can rest at once
          NoId, FilledId

VARIABLES book,       \* book[side][price]: the resting orders, oldest first
          taker,      \* the order being matched, or NoTaker
          issued,     \* the ids handed out so far
          ret         \* what the last call returned

vars == <<book, taker, issued, ret>>

Sides == {"Buy", "Sell"}
Opposite(side) == IF side = "Buy" THEN "Sell" ELSE "Buy"
NoTaker == [side |-> "Buy", price |-> 0, qty |-> 0, display |-> 0, live |-> FALSE]
NoRet == [id |-> NoId, qty |-> -1]

Occupied(side) == {p \in Prices : book[side][p] # <<>>}

\* The opposite prices a limit order executes against on arrival.
Crossed(side, price) ==
  {p \in Occupied(Opposite(side)) : IF side = "Buy" THEN p <= price ELSE p >= price}

\* The price it executes against first.
BestCrossed(side, price) ==
  IF side = "Buy" THEN Min(Crossed(side, price)) ELSE Max(Crossed(side, price))

Resting == {r \in Sides \X Prices \X (1..Capacity) : r[3] <= Len(book[r[1]][r[2]])}
IdAt(r) == book[r[1]][r[2]][r[3]].id

Init ==
  /\ book = [s \in Sides |-> [p \in Prices |-> <<>>]]
  /\ taker = NoTaker
  /\ issued = {}
  /\ ret = NoRet

(***************************************************************************)
(* A plain order shows all it has (display = 0); an iceberg shows at most  *)
(* its display quantity once it rests.                                     *)
(***************************************************************************)
Refused(side, price, qty, postOnly) ==
  price \notin Prices \/ qty = 0 \/ (postOnly /\ Crossed(side, price) # {})

Answer(side, price, qty, display, postOnly) ==
  IF Refused(side, price, qty, postOnly)
  THEN /\ ret' = [id |-> NoId, qty |-> 0]
       /\ UNCHANGED taker
  ELSE /\ taker' = [side |-> side, price |-> price, qty |-> qty,
                    display |-> display, live |-> TRUE]
       /\ ret' = NoRet

Submit(side, price, qty, display, postOnly) ==
  /\ ~taker.live
  /\ Answer(side, price, qty, display, postOnly)
  /\ UNCHANGED <<book, issued>>

\* The queue after its head traded `fill`: an exhausted iceberg clip is
\* refilled and rejoins the queue at the back.
AfterFill(queue, fill) ==
  LET o == Head(queue)
      clip == IF o.display < o.hidden THEN o.display ELSE o.hidden
  IN  CASE fill < o.qty -> <<[o EXCEPT !.qty = @ - fill]>> \o Tail(queue)
        [] fill = o.qty /\ o.hidden > 0 ->
             Append(Tail(queue), [o EXCEPT !.qty = clip, !.hidden = @ - clip])
        [] OTHER -> Tail(queue)

\* One trade: the oldest order at the best crossed price, at its price.
Trade ==
  /\ taker.live /\ taker.qty > 0
  /\ Crossed(taker.side, taker.price) # {}
  /\ LET p == BestCrossed(taker.side, taker.price)
         s == Opposite(taker.side)
         o == Head(book[s][p])
         fill == IF o.qty < taker.qty THEN o.qty ELSE taker.qty
     IN  /\ book' = [book EXCEPT ![s][p] = AfterFill(@, fill)]
         /\ taker' = [taker EXCEPT !.qty = @ - fill]
  /\ UNCHANGED <<issued, ret>>

Filled ==
  /\ taker.live /\ taker.qty = 0
  /\ taker' = NoTaker
  /\ ret' = [id |-> FilledId, qty |-> 0]
  /\ UNCHANGED <<book, issued>>

\* The remainder rests under an id never used before, unless the book is full.
Rest ==
  /\ taker.live /\ taker.qty > 0
  /\ Crossed(taker.side, taker.price) = {}
  /\ \/ /\ Cardinality(Resting) = Capacity
        /\ ret' = [id |-> NoId, qty |-> 0]
        /\ UNCHANGED <<book, issued>>
     \/ \E id \in Ids \ issued :
          LET shown == IF taker.display > 0 /\ taker.display < taker.qty
                       THEN taker.display ELSE taker.qty
              o == [id |-> id, qty |-> shown, hidden |-> taker.qty - shown,
                    display |-> taker.display]
          IN  /\ Cardinality(Resting) < Capacity
              /\ book' = [book EXCEPT ![taker.side][taker.price] = Append(@, o)]
              /\ issued' = issued \union {id}
              /\ ret' = [id |-> id, qty |-> 0]
  /\ taker' = NoTaker

Without(r) ==
  [book EXCEPT ![r[1]][r[2]] = SubSeq(@, 1, r[3] - 1) \o SubSeq(@, r[3] + 1, Len(@))]

\* Cancel succeeds exactly when the id names an order that still rests.
Cancel(id) ==
  /\ ~taker.live
  /\ \/ \E r \in Resting : /\ IdAt(r) = id
                           /\ book' = Without(r)
                           /\ ret' = [id |-> NoId, qty |-> 1]
     \/ /\ \A r \in Resting : IdAt(r) # id
        /\ ret' = [id |-> NoId, qty |-> 0]
        /\ UNCHANGED book
  /\ UNCHANGED <<taker, issued>>

\* A partial reduction keeps the order's place in its queue; one that takes
\* all the visible quantity removes the order.
Reduce(id, q) ==
  /\ ~taker.live
  /\ \/ \E r \in Resting :
          LET o == book[r[1]][r[2]][r[3]]
          IN  /\ o.id = id
              /\ IF q < o.qty
                 THEN /\ book' = [book EXCEPT ![r[1]][r[2]][r[3]].qty = @ - q]
                      /\ ret' = [id |-> NoId, qty |-> q]
                 ELSE /\ book' = Without(r)
                      /\ ret' = [id |-> NoId, qty |-> o.qty]
     \/ /\ \A r \in Resting : IdAt(r) # id
        /\ ret' = [id |-> NoId, qty |-> 0]
        /\ UNCHANGED book
  /\ UNCHANGED <<taker, issued>>

Engine == Trade \/ Filled \/ Rest

Next ==
  \/ \E side \in Sides, price \in AskedPrices, qty, display \in 0..MaxQty,
        postOnly \in BOOLEAN : Submit(side, price, qty, display, postOnly)
  \/ Engine
  \/ \E id \in issued \union NullIds : Cancel(id)
  \/ \E id \in issued \union NullIds, q \in 0..MaxQty : Reduce(id, q)

Spec == Init /\ [][Next]_vars

\* A call, once made, returns.
FairSpec == Spec /\ WF_vars(Engine)
=============================================================================
