---------------------------- MODULE MCAgentRuntime ----------------------------
(* Instances of AgentRuntime for TLC; supervisors are interchangeable.     *)
EXTENDS AgentRuntime, TLC

CONSTANTS s1, s2

Symmetry == Permutations({s1, s2})
=============================================================================
