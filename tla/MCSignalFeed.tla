----------------------------- MODULE MCSignalFeed -----------------------------
(* Model checking of SignalFeed: the tops the book moves through *)
EXTENDS SignalFeed

Empty  == [bp |-> -1, ap |-> -1, bq |-> 0, aq |-> 0]
BidOnly == [bp |-> 2, ap |-> -1, bq |-> 3, aq |-> 0]
AskOnly == [bp |-> -1, ap |-> 4, bq |-> 0, aq |-> 2]
Thin   == [bp |-> 2, ap |-> 4, bq |-> 3, aq |-> 1]
Thick  == [bp |-> 2, ap |-> 4, bq |-> 1, aq |-> 2]
Higher == [bp |-> 3, ap |-> 5, bq |-> 1, aq |-> 3]

SomeTops == {Empty, BidOnly, AskOnly, Thin, Thick, Higher}
=============================================================================
