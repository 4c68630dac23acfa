---------------------------- MODULE MCPowerLoss -----------------------------
(***************************************************************************)
(* PowerLoss with the small inputs of MCIngest.                            *)
(***************************************************************************)
EXTENDS PowerLoss, MCIngest
=============================================================================
