----------------------------- MODULE TradingLoop -----------------------------
(***************************************************************************)
(* The closed trading loop of src/bench/bench_trading_loop.cpp: a feed     *)
(* thread lands frames in an arena, the engine thread applies them and     *)
(* publishes the top of its book (BboFeed), a strategy thread answers with *)
(* quotes through its risk gateway and an order ring, and the engine's     *)
(* desk replaces the firm's one quote per side.  main joins the threads    *)
(* and applies what is left.                                               *)
(*                                                                         *)
(* A frame adds lots to a price level or takes some away, as far as the    *)
(* feed's own orders have them there; which order it names is the matter   *)
(* of FeedSession.  The arena and the rings are sequences that refuse a    *)
(* push when full.  The book is the lots of the feed and of the firm at    *)
(* each level: nothing ever trades on arrival, as NothingCrosses shows.    *)
(* The rate limit of the risk gateway may refuse any quote.                *)
(***************************************************************************)
EXTENDS BboFeed, FiniteSetsExt

CONSTANTS NMsgs, FeedBids, FeedAsks, \* frames; levels the feed quotes, below
                                     \* the middle and above it
          FeedLots,                  \* lots of a frame
          CollarLo, CollarHi,        \* the risk gateway's collar: the ladder
          ArenaCap, OrdCap

ASSUME LoopAssumption ==
  /\ CollarLo \in Nat /\ CollarHi \in Nat /\ NMsgs \in Nat /\ FeedLots \subseteq Nat
  /\ FeedBids \union FeedAsks \subseteq CollarLo .. CollarHi
  /\ \A b \in FeedBids, a \in FeedAsks : b + 1 < a
  /\ MaxSeq >= NMsgs
  /\ EmptyTop = [bp |-> -1, ap |-> -1, bq |-> 0, aq |-> 0]

VARIABLES sent_frames, supply,  \* feeder: frames sent, the feed's lots per level
          arena,
          lots, own, desk,      \* book: the feed's lots, the firm's, the desk's quotes
          done, pcE, quoted,    \* engine; did a quote change the book since a frame
          orders,
          my_px, open, pending, pcS,   \* strategy
          stop

feeder == <<sent_frames, supply>>
book == <<lots, own, desk>>
engine == <<done, pcE, quoted>>
strategy == <<my_px, open, pending, pcS>>
loopVars == <<vars, feeder, arena, book, engine, orders, strategy, stop>>

Sides  == {"Buy", "Sell"}
Levels == CollarLo .. CollarHi
None   == -1
FeedLevels(side) == IF side = "Buy" THEN FeedBids ELSE FeedAsks

LoopInit ==
  /\ Init
  /\ sent_frames = 0 /\ arena = <<>> /\ orders = <<>>
  /\ supply = [s \in Sides |-> [p \in Levels |-> 0]]
  /\ lots = supply /\ own = supply /\ desk = [s \in Sides |-> None]
  /\ done = 0 /\ pcE = "orders" /\ quoted = FALSE
  /\ my_px = [s \in Sides |-> None] /\ open = [s \in Sides |-> 0]
  /\ pending = <<>> /\ pcS = "start"
  /\ stop = FALSE

-----------------------------------------------------------------------------
(* The feed thread: waits for the strategy, then lands frame after frame *)

Land(side, price, delta) ==
  /\ pcS # "start" /\ sent_frames < NMsgs /\ Len(arena) < ArenaCap
  /\ supply[side][price] + delta >= 0
  /\ supply' = [supply EXCEPT ![side][price] = @ + delta]
  /\ arena' = Append(arena, [side |-> side, price |-> price, delta |-> delta])
  /\ sent_frames' = sent_frames + 1
  /\ UNCHANGED <<vars, book, engine, orders, strategy, stop>>

Feeder ==
  \E side \in Sides, delta \in FeedLots \union {-q : q \in FeedLots} :
    \E price \in FeedLevels(side) : Land(side, price, delta)

-----------------------------------------------------------------------------
(* The book's top, best_bid, best_ask and level_qty *)

LotsAt(side, p) == lots[side][p] + own[side][p]
Occupied(side) == {p \in Levels : LotsAt(side, p) > 0}
BestBid == IF Occupied("Buy") = {} THEN None ELSE Max(Occupied("Buy"))
BestAsk == IF Occupied("Sell") = {} THEN None ELSE Min(Occupied("Sell"))
Top == [bp |-> BestBid, ap |-> BestAsk,
        bq |-> IF BestBid = None THEN 0 ELSE LotsAt("Buy", BestBid),
        aq |-> IF BestAsk = None THEN 0 ELSE LotsAt("Sell", BestAsk)]

-----------------------------------------------------------------------------
(* The engine thread *)

\* Mutant: the old quote is not cancelled.
DeskWithoutCancel(q) ==
  /\ own' = [own EXCEPT ![q.side][q.price] = @ + 1]
  /\ desk' = [desk EXCEPT ![q.side] = q.price]
  /\ UNCHANGED lots

\* QuoteDesk::apply: cancel and replace.
DeskApply(q) ==
  LET old == desk[q.side]
      pulled == IF old = None THEN own ELSE [own EXCEPT ![q.side][old] = @ - 1]
  IN  /\ own' = [pulled EXCEPT ![q.side][q.price] = @ + 1]
      /\ desk' = [desk EXCEPT ![q.side] = q.price]
      /\ UNCHANGED lots

InLoop == done < NMsgs

\* At most one order of the firm, before the next frame.
PopOrder ==
  /\ InLoop /\ pcE = "orders" /\ orders # <<>>
  /\ DeskApply(Head(orders))
  /\ orders' = Tail(orders)
  /\ pcE' = "front" /\ quoted' = TRUE
  /\ UNCHANGED <<vars, feeder, arena, done, strategy, stop>>

\* No frame: look at the orders again.
NoFront ==
  /\ InLoop /\ pcE = "front" /\ arena = <<>>
  /\ pcE' = "orders"
  /\ UNCHANGED <<vars, feeder, arena, book, done, quoted, orders, strategy, stop>>

\* Whether or not the pop of an order saw one.
ApplyFrame ==
  LET f == Head(arena)
  IN  /\ InLoop /\ pcE \in {"orders", "front"} /\ arena # <<>>
      /\ lots' = [lots EXCEPT ![f.side][f.price] = @ + f.delta]
      /\ arena' = Tail(arena)
      /\ pcE' = "publish"
      /\ UNCHANGED <<vars, feeder, own, desk, done, quoted, orders, strategy, stop>>

PublishTop ==
  /\ pcE = "publish"
  /\ on_message_applied(Top)
  /\ done' = done + 1 /\ pcE' = "orders" /\ quoted' = FALSE
  /\ UNCHANGED <<feeder, arena, book, orders, strategy, stop>>

Engine == PopOrder \/ NoFront \/ ApplyFrame \/ PublishTop

-----------------------------------------------------------------------------
(* The strategy thread *)

Ready ==
  /\ pcS = "start" /\ pcS' = "poll"
  /\ UNCHANGED <<vars, feeder, arena, book, engine, orders, my_px, open, pending, stop>>

PopUpdate ==
  /\ pcS = "poll" /\ Receive
  /\ pcS' = "Buy"
  /\ UNCHANGED <<feeder, arena, book, engine, orders, my_px, open, pending, stop>>

\* Mutant: an empty ring is polled again before stop is looked at.
PollOn == pcS = "poll" /\ ring = <<>> /\ UNCHANGED loopVars

PopFails ==
  /\ pcS = "poll" /\ ring = <<>>
  /\ pcS' = "look"
  /\ UNCHANGED <<vars, feeder, arena, book, engine, orders, my_px, open, pending, stop>>

LookAtStop ==
  /\ pcS = "look"
  /\ pcS' = IF stop THEN "left" ELSE "poll"
  /\ UNCHANGED <<vars, feeder, arena, book, engine, orders, my_px, open, pending, stop>>

BuyPressure == view.bq >= view.aq

\* Mutant: under buy pressure the bid steps in front of the touch, by two.
WantInFront(side) ==
  IF side = "Buy" THEN (IF BuyPressure THEN view.bp + 2 ELSE view.bp - 1)
                  ELSE (IF BuyPressure THEN view.ap + 1 ELSE view.ap)

\* Join the touch on the side with more size, step back on the other.
Want(side) ==
  IF side = "Buy" THEN (IF BuyPressure THEN view.bp ELSE view.bp - 1)
                  ELSE (IF BuyPressure THEN view.ap + 1 ELSE view.ap)

Quotes(side) ==
  /\ (IF side = "Buy" THEN view.bp ELSE view.ap) >= 0
  /\ Want(side) # my_px[side]

After(side) == IF side = "Buy" THEN "Sell" ELSE "poll"

Skip(side) ==
  /\ pcS = side /\ ~Quotes(side)
  /\ pcS' = After(side)
  /\ UNCHANGED <<my_px, open, pending>>

\* check refuses, for the rate or the collar; the quote is not updated.
Refused(side) ==
  /\ pcS = side /\ Quotes(side)
  /\ pcS' = After(side)
  /\ UNCHANGED <<my_px, open, pending>>

\* Mutant: the old price is kept.
AcceptForgetsPrice(side) ==
  /\ pcS = side /\ Quotes(side) /\ Want(side) \in Levels
  /\ open' = [open EXCEPT ![side] = 1]
  /\ my_px' = IF my_px[side] = None THEN [my_px EXCEPT ![side] = Want(side)] ELSE my_px
  /\ pending' = <<[side |-> side, price |-> Want(side)]>>
  /\ pcS' = "push"

\* Accepted: check counts the new lot, on_cancel takes the old one off, the
\* price is the strategy's from here on.
Accepted(side) ==
  /\ pcS = side /\ Quotes(side) /\ Want(side) \in Levels
  /\ open' = [open EXCEPT ![side] = IF my_px[side] = None THEN @ + 1 ELSE @ ]
  /\ my_px' = [my_px EXCEPT ![side] = Want(side)]
  /\ pending' = <<[side |-> side, price |-> Want(side)]>>
  /\ pcS' = "push"

Push ==
  /\ pcS = "push"
  /\ IF Len(orders) < OrdCap
     THEN /\ orders' = orders \o pending
          /\ pcS' = After(pending[1].side) /\ pending' = <<>>
     ELSE UNCHANGED <<orders, pcS, pending>>     \* spin
  /\ UNCHANGED <<vars, feeder, arena, book, engine, my_px, open, stop>>

Quote ==
  /\ \E side \in Sides : Skip(side) \/ Refused(side) \/ Accepted(side)
  /\ UNCHANGED <<vars, feeder, arena, book, engine, orders, stop>>

Strategy == Ready \/ PopUpdate \/ PopFails \/ LookAtStop \/ Quote \/ Push

-----------------------------------------------------------------------------
(* main, and the loop as a whole *)

\* The engine has left its loop and the feeder is joined.
SetStop ==
  /\ ~InLoop /\ sent_frames = NMsgs /\ ~stop
  /\ stop' = TRUE
  /\ UNCHANGED <<vars, feeder, arena, book, engine, orders, strategy>>

\* The strategy is joined; its late quotes are applied.
DrainOrder ==
  /\ pcS = "left" /\ orders # <<>>
  /\ DeskApply(Head(orders))
  /\ orders' = Tail(orders) /\ quoted' = TRUE
  /\ UNCHANGED <<vars, feeder, arena, done, pcE, strategy, stop>>

Main == SetStop \/ DrainOrder

Over == pcS = "left" /\ orders = <<>>

Terminated == Over /\ UNCHANGED loopVars

LoopNext == Feeder \/ Engine \/ Strategy \/ Main \/ Terminated

\* Four threads that always run on.
LoopSpec ==
  /\ LoopInit /\ [][LoopNext]_loopVars
  /\ WF_loopVars(Feeder) /\ WF_loopVars(Engine)
  /\ WF_loopVars(Strategy) /\ WF_loopVars(Main)

-----------------------------------------------------------------------------
(* The properties of the loop *)

\* "strategy flow can never cross feed flow" (bench_trading_loop.cpp:210): however
\* old the top a quote answers, the book is never crossed or locked, which is
\* what keeps the feed's fill counts intact.
NothingCrosses == BestBid = None \/ BestAsk = None \/ BestBid < BestAsk

\* The price the strategy remembers, which decides whether it quotes again, is
\* the one the desk ends with once every quote under way has arrived: no quote
\* is lost, reordered or overtaken between the two threads.
NewestQuoteWins ==
  \A side \in Sides :
    LET underway == orders \o pending
        ofSide == {n \in DOMAIN underway : underway[n].side = side}
    IN  my_px[side] = IF ofSide = {} THEN desk[side] ELSE underway[Max(ofSide)].price

\* The exposure of the old quote is given back when its replacement is pushed,
\* before the engine pulls it (bench_trading_loop.cpp:188): still no side ever has
\* more of the firm's lots resting than the gateway counts, one, and that one
\* at a single price.
RestingWithinRisk ==
  \A side \in Sides :
    /\ \A p \in Levels : own[side][p] \in 0 .. open[side]
    /\ \A p, q \in Levels : own[side][p] > 0 /\ own[side][q] > 0 => p = q
    /\ open[side] <= 1

\* Between two frames the publisher's last top is the book's, unless a quote of
\* the firm changed the book since: on_message_applied runs after frames only
\* (bench_trading_loop.cpp:251), so such a top waits for the next frame.
PublishedTopCurrent == (~quoted /\ pcE # "publish") => last = Top

\* The quotes the strategy may still push fit the order ring, two for the update
\* in hand and for each one waiting.
RoomForQuotes == Len(orders) + 2 * (Len(ring) + 1) <= OrdCap

\* The feed is applied to its end even while the strategy spins on a full order
\* ring (bench_trading_loop.cpp:194); and if by then the ring has room for
\* what the waiting updates can cause, the threads are joined and the ring is
\* drained.  Without that room nobody pops any more and the strategy may spin
\* for ever.
LoopEnds == /\ <>(done = NMsgs)
            /\ (done = NMsgs /\ RoomForQuotes) ~> Over
=============================================================================
