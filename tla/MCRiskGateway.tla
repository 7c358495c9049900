---------------------------- MODULE MCRiskGateway ----------------------------
(* Model checking of RiskGateway: constants in the .cfg *)
EXTENDS RiskGateway
=============================================================================
