----------------------------- MODULE AgentRunMC -----------------------------
(* Instances of AgentRun for TLC. *)
EXTENDS AgentRun, TLC
=============================================================================
