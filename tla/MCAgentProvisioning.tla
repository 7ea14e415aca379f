------------------------ MODULE MCAgentProvisioning -------------------------
(* Small instances of AgentProvisioning for TLC. *)
EXTENDS AgentProvisioning

CONSTANTS i1, i2, a1

=============================================================================
