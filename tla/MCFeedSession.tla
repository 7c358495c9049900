---------------------------- MODULE MCFeedSession ----------------------------
(* Model checking of FeedSession: constants in the .cfg *)
EXTENDS FeedSession
=============================================================================
