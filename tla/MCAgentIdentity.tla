---------------------------- MODULE MCAgentIdentity ----------------------------
(* TLC instances of AgentIdentity. *)
EXTENDS AgentIdentity, TLC

Symmetric == Permutations(Machines) \cup Permutations(Agents) \cup Permutations(Proxies)
================================================================================
