-------------------------- MODULE MCAgentApproval --------------------------
(* Small instances of AgentApproval for TLC. *)
EXTENDS AgentApproval, TLC

MCSymmetry == Permutations(Requests)
=============================================================================
