---------------------------- MODULE MCAgentExec ----------------------------
(* Small instances of AgentExec. *)
EXTENDS AgentExec, TLC

Symmetry == Permutations(Children)
=============================================================================
