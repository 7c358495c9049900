----------------------------- MODULE MCJournal -----------------------------
(* Model checking of Journal: constants in the .cfg *)
EXTENDS Journal
=============================================================================
