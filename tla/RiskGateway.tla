------------------------------ MODULE RiskGateway ------------------------------
(***************************************************************************)
(* The pre-trade risk gateway of src/include/lob/risk.hpp and the venue    *)
(* its orders go to.  An accepted order rests at the venue, fills or is    *)
(* cancelled there lot by lot, and the gateway hears of it by a report     *)
(* that arrives later, in any order: on_fill and on_cancel.                *)
(*                                                                         *)
(* The venue is not in the repository; what it does is what risk.hpp says  *)
(* of its callers.  clock is the timestamp counter, which has counted at   *)
(* least one window when the gateway starts; accepts records when each     *)
(* order was accepted.                                                     *)
(***************************************************************************)
EXTENDS Integers, Sequences, FiniteSets

CONSTANTS RateWindowMsgs, WindowTicks,
          MaxQty, PxLo, PxHi, PosLimit,
          Prices, Quantities,    \* what a strategy may ask for
          MaxClock, MaxSent      \* bounds: ticks and accepted orders

ASSUME RiskAssumption ==
  /\ RateWindowMsgs \in Nat \ {0} /\ WindowTicks \in Nat
  /\ MaxQty \in Int /\ PosLimit \in Nat /\ PxLo \in Int /\ PxHi \in Int
  /\ Prices \subseteq Int /\ Quantities \subseteq Int
  /\ MaxClock \in Int /\ MaxSent \in Int

OrderSides == {"Buy", "Sell"}
Zero == [s \in OrderSides |-> 0]

VARIABLES open_lots,   \* open_buy_ and open_sell_
          net_pos, n_sent, stamps,
          verdict,     \* check's answer, the set of reject reasons
          clock, accepts,
          resting,     \* the venue: lots of ours resting on each side
          position,    \* and what its fills come to
          fillsDue, cancelsDue   \* lots whose reports are on their way

counters == <<open_lots, net_pos>>
rate == <<n_sent, stamps, accepts>>
venue == <<resting, position, fillsDue, cancelsDue>>
gatewayVars == <<counters, rate, verdict, clock, venue>>

NoVerdict == {"none"}

GatewayInit ==
  /\ open_lots = Zero /\ net_pos = 0
  /\ n_sent = 0 /\ stamps = [w \in 0 .. RateWindowMsgs - 1 |-> 0]
  /\ accepts = <<>> /\ verdict = NoVerdict /\ clock = WindowTicks
  /\ resting = Zero /\ position = 0 /\ fillsDue = Zero /\ cancelsDue = Zero

\* Lots of side s as a change of the position.
Signed(s, q) == IF s = "Buy" THEN q ELSE -q

-----------------------------------------------------------------------------
(* check *)

\* The side's lots if everything that rests on it, and this order, filled.
Prospective(side, q) == [open_lots EXCEPT ![side] = @ + q]

\* Mutant: the realised position is left out.
OverLimitGross(o) == \E s \in OrderSides : o[s] > PosLimit
OverLimit(o) == \E s \in OrderSides : o[s] + Signed(s, net_pos) > PosLimit

\* Mutants: an accept exactly one window old still counts, or one a tick short
\* of a window no more.
TooSoonShort == clock - stamps[n_sent % RateWindowMsgs] < WindowTicks - 1
TooSoonInclusive == clock - stamps[n_sent % RateWindowMsgs] <= WindowTicks
\* The accept RateWindowMsgs accepts ago is less than a window old.
TooSoon == clock - stamps[n_sent % RateWindowMsgs] < WindowTicks

Violated(side, px, q) ==
  {r \in {"QTY", "PRICE_BAND", "POSITION", "RATE"} :
     \/ r = "QTY" /\ (q <= 0 \/ q > MaxQty)
     \/ r = "PRICE_BAND" /\ (px < PxLo \/ px > PxHi)
     \/ r = "POSITION" /\ OverLimit(Prospective(side, q))
     \/ r = "RATE" /\ TooSoon}

Stamped == [stamps EXCEPT ![n_sent % RateWindowMsgs] = clock]

\* An accepted order is sent to the venue and rests there.
Accept(side, px, q) ==
  /\ n_sent < MaxSent
  /\ Violated(side, px, q) = {}
  /\ open_lots' = Prospective(side, q)
  /\ stamps' = Stamped
  /\ n_sent' = n_sent + 1
  /\ verdict' = {}
  /\ accepts' = Append(accepts, clock)
  /\ resting' = [resting EXCEPT ![side] = @ + q]
  /\ UNCHANGED <<net_pos, clock, position, fillsDue, cancelsDue>>

Reject(side, px, q) ==
  /\ Violated(side, px, q) # {}
  /\ verdict' = Violated(side, px, q)
  /\ UNCHANGED <<counters, rate, clock, venue>>

-----------------------------------------------------------------------------
(* The venue, and the reports *)

Filled(s, q) ==
  /\ resting[s] >= q
  /\ resting' = [resting EXCEPT ![s] = @ - q]
  /\ position' = position + Signed(s, q)
  /\ fillsDue' = [fillsDue EXCEPT ![s] = @ + q]
  /\ verdict' = NoVerdict
  /\ UNCHANGED <<counters, rate, clock, cancelsDue>>

Cancelled(s, q) ==
  /\ resting[s] >= q
  /\ resting' = [resting EXCEPT ![s] = @ - q]
  /\ cancelsDue' = [cancelsDue EXCEPT ![s] = @ + q]
  /\ verdict' = NoVerdict
  /\ UNCHANGED <<counters, rate, clock, position, fillsDue>>

Released(s, q) == [open_lots EXCEPT ![s] = @ - q]

on_cancel(s, q) ==
  /\ cancelsDue[s] >= q
  /\ cancelsDue' = [cancelsDue EXCEPT ![s] = @ - q]
  /\ open_lots' = Released(s, q)
  /\ verdict' = NoVerdict
  /\ UNCHANGED <<net_pos, rate, clock, resting, position, fillsDue>>

on_fill(s, q) ==
  /\ fillsDue[s] >= q
  /\ fillsDue' = [fillsDue EXCEPT ![s] = @ - q]
  /\ open_lots' = Released(s, q)
  /\ net_pos' = net_pos + Signed(s, q)
  /\ verdict' = NoVerdict
  /\ UNCHANGED <<rate, clock, resting, position, cancelsDue>>

Tick ==
  /\ clock < MaxClock
  /\ clock' = clock + 1
  /\ verdict' = NoVerdict
  /\ UNCHANGED <<counters, rate, venue>>

Check(side, px, q) == Accept(side, px, q) \/ Reject(side, px, q)

Lots == 1 .. PosLimit + PosLimit

Report(s, q) == Filled(s, q) \/ Cancelled(s, q) \/ on_cancel(s, q) \/ on_fill(s, q)

GatewayNext ==
  \/ \E s \in OrderSides, px \in Prices, q \in Quantities : Check(s, px, q)
  \/ \E s \in OrderSides, q \in Lots : Report(s, q)
  \/ Tick

GatewaySpec == GatewayInit /\ [][GatewayNext]_gatewayVars

-----------------------------------------------------------------------------
(* The properties of the gateway *)

GatewayTypes ==
  /\ open_lots \in [OrderSides -> Nat] /\ net_pos \in Int
  /\ n_sent \in Nat /\ stamps \in [0 .. RateWindowMsgs - 1 -> Nat]
  /\ verdict \in SUBSET {"none", "QTY", "PRICE_BAND", "POSITION", "RATE"}
  /\ clock \in Nat /\ accepts \in Seq(Nat)
  /\ resting \in [OrderSides -> Nat] /\ position \in Int
  /\ fillsDue \in [OrderSides -> Nat] /\ cancelsDue \in [OrderSides -> Nat]

\* "If everything resting on this side filled, would we be over?" (risk.hpp:52):
\* never, whatever filled or was cancelled at the venue and not yet reported.
ExposureWithinLimit ==
  \A s \in OrderSides : Signed(s, position) + resting[s] <= PosLimit

\* The accepts less than a window old.
Recent == {n \in 1 .. Len(accepts) : clock - accepts[n] < WindowTicks}

\* At most RateWindowMsgs accepts within any window ...
RateRespected == Cardinality(Recent) <= RateWindowMsgs

\* ... and no order is refused for the rate unless it would be one more: "it is
\* EXACT, not an approximation" (risk.hpp:46).
RateRefusalExact == "RATE" \in verdict => Cardinality(Recent) = RateWindowMsgs
=============================================================================
