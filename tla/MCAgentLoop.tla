---------------------------- MODULE MCAgentLoop ----------------------------
(* Values for the constants of AgentLoop that a cfg cannot write. *)
EXTENDS AgentLoop
MCCosts == {1, 2}
=============================================================================
