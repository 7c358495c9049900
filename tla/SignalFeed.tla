----------------------------- MODULE SignalFeed -----------------------------
(***************************************************************************)
(* The signal publisher of src/include/lob/signals.hpp: the BBO publisher  *)
(* with the same diff and the same conflation (BboFeed), whose updates     *)
(* also carry the running order flow imbalance and the micro-price.        *)
(*                                                                         *)
(* signals[n] is what ring[n] carries besides the top.  Widths are those   *)
(* of the wire, which lose nothing; the micro-price counts in parts of a   *)
(* tick, 256 in the code.  history records every change of the top.        *)
(***************************************************************************)
EXTENDS BboFeed

CONSTANT TickParts   \* 1 << 8

ASSUME SignalAssumption ==
  /\ TickParts \in Nat \ {0}
  /\ EmptyTop = [bp |-> -1, ap |-> -1, bq |-> 0, aq |-> 0]

\* What the book reports: a side that is empty has price -1 and quantity 0, and
\* the sides do not cross (OrderBook.NotCrossed).
BookTops ==
  {t \in Tops \intersect [bp : Int, ap : Int, bq : Nat, aq : Nat] :
     /\ IF t.bq = 0 THEN t.bp = -1 ELSE t.bp >= 0
     /\ IF t.aq = 0 THEN t.ap = -1 ELSE t.ap >= 0
     /\ t.bq # 0 /\ t.aq # 0 => t.bp < t.ap}

VARIABLES ofi, signals, viewed, history

signalVars == <<vars, ofi, signals, viewed, history>>

SigInit == Init /\ ofi = 0 /\ signals = <<>> /\ viewed = [ofi |-> 0, micro |-> 0] /\ history = <<>>

-----------------------------------------------------------------------------
\* A comparison used as a number, as the code multiplies by it.
Indicator(b) == IF b THEN 1 ELSE 0

\* The change of the imbalance when the top becomes t.
Increment(t) ==
  Indicator(t.bp >= last.bp) * t.bq - Indicator(t.bp <= last.bp) * last.bq
  - Indicator(t.ap <= last.ap) * t.aq + Indicator(t.ap >= last.ap) * last.aq

\* Mutant: each price is weighed by its own side's size.
MicroSwapped(t) ==
  ((t.bp * t.bq + t.ap * t.aq) * TickParts) \div (t.bq + t.aq + Indicator(t.bq + t.aq = 0))

Micro(t) ==
  ((t.bp * t.aq + t.ap * t.bq) * TickParts) \div (t.bq + t.aq + Indicator(t.bq + t.aq = 0))

\* Mutant: the imbalance of a dropped update is lost with it.
AccumulateSent(t) ==
  /\ ofi' = IF Len(ring) < Capacity THEN ofi + Increment(t) ELSE ofi
  /\ history' = Append(history, t)

Accumulate(t) ==
  /\ ofi' = ofi + Increment(t)
  /\ history' = Append(history, t)

SigPublish(t) ==
  /\ Publish(t)
  /\ Accumulate(t)
  /\ signals' = Append(signals, [ofi |-> ofi', micro |-> Micro(t)])
  /\ UNCHANGED viewed

SigDrop(t) ==
  /\ Drop(t)
  /\ Accumulate(t)
  /\ UNCHANGED <<signals, viewed>>

SigUnchanged(t) == Unchanged(t) /\ UNCHANGED <<ofi, signals, viewed, history>>

SigReceive ==
  /\ Receive
  /\ viewed' = Head(signals) /\ signals' = Tail(signals)
  /\ UNCHANGED <<ofi, history>>

SigNext ==
  \/ \E t \in BookTops : SigUnchanged(t) \/ SigPublish(t) \/ SigDrop(t)
  \/ SigReceive

SigSpec == SigInit /\ [][SigNext]_signalVars

-----------------------------------------------------------------------------
(* The properties of the signals *)

\* The n-th top that differed from the one before it; the book starts empty.
TopAt(n) == IF n = 0 THEN EmptyTop ELSE history[n]

\* The flow the n-th change means: liquidity that joins, leaves or moves away
\* on the bid is buying, selling; on the ask the reverse.  A bid side that
\* appears or vanishes counts with its whole size.  An ask side that does
\* counts for nothing: its price, -1, reads as one below every other.
BidFlow(n) ==
  LET from == TopAt(n - 1) to == TopAt(n)
  IN  CASE to.bp > from.bp -> to.bq
        [] to.bp = from.bp -> to.bq - from.bq
        [] to.bp < from.bp -> -from.bq

AskFlow(n) ==
  LET from == TopAt(n - 1) to == TopAt(n)
  IN  CASE from.ap = -1 \/ to.ap = -1 -> 0
        [] from.ap # -1 /\ to.ap # -1 /\ to.ap = from.ap -> from.aq - to.aq
        [] from.ap # -1 /\ to.ap # -1 /\ to.ap > from.ap -> from.aq
        [] from.ap # -1 /\ to.ap # -1 /\ to.ap < from.ap -> -to.aq

\* The flow of the changes after the a-th, up to the b-th.
Window(a, b) ==
  LET sum[n \in a .. b] == IF n = a THEN 0 ELSE sum[n - 1] + BidFlow(n) + AskFlow(n)
  IN  sum[b]

\* "Sum over any window = difference of two cumulative reads" (signals.hpp:24):
\* the imbalance of a queued update less the one the subscriber saw last is the
\* flow of all the changes in between, those whose updates were dropped too.
WindowIsDifference ==
  \A n \in 1 .. Len(ring) : signals[n].ofi - viewed.ofi = Window(last_seq, ring[n].seq)

\* The micro-price of a two-sided top lies between its prices and leans to the
\* thinner side; a one-sided top publishes minus one tick and an empty one zero,
\* which a subscriber tells from a price only by the -1 that travels with it.
MicroInSpread ==
  \A n \in 1 .. Len(ring) :
    LET t == ring[n].top
        m == signals[n].micro
    IN  IF t.bp # -1 /\ t.ap # -1
        THEN /\ t.bp * TickParts <= m /\ m <= t.ap * TickParts
             /\ t.aq < t.bq => 2 * m >= (t.bp + t.ap) * TickParts - 1
             /\ t.aq > t.bq => 2 * m <= (t.bp + t.ap) * TickParts
        ELSE m = IF t = EmptyTop THEN 0 ELSE -TickParts
=============================================================================
