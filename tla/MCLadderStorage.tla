--------------------------- MODULE MCLadderStorage ---------------------------
(* Model checking of LadderStorage: constants in the .cfg *)
EXTENDS LadderStorage
=============================================================================
