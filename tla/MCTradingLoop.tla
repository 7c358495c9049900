---------------------------- MODULE MCTradingLoop ----------------------------
(* Model checking of TradingLoop: constants in the .cfg and here *)
EXTENDS TradingLoop

\* More tops than the book of three feed levels and two quotes can have.
MCTops == [bp : -1 .. 6, ap : -1 .. 6, bq : 0 .. 7, aq : 0 .. 7]
MCEmptyTop == [bp |-> -1, ap |-> -1, bq |-> 0, aq |-> 0]
=============================================================================
