---------------------------- MODULE MCArenaRing ----------------------------
(* Model checking of ArenaRing: constants in the .cfg *)
EXTENDS ArenaRing
=============================================================================
