------------------------------- MODULE MCDrain -------------------------------
(* The small clusters of MCDeploy for Drain. *)
EXTENDS MCDeploy, Drain
=============================================================================
