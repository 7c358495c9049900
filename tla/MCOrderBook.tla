----------------------------- MODULE MCOrderBook -----------------------------
(* Model checking of OrderBook and of its refinement: constants in the .cfg *)
EXTENDS OrderBookRefinement
=============================================================================
