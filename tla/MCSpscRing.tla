------------------------------ MODULE MCSpscRing ------------------------------
(* Model checking of SpscRing: constants in the .cfg *)
EXTENDS SpscRing
=============================================================================
