---------------------------- MODULE MCRelaySessions ----------------------------
(* TLC instances of RelaySessions. *)
EXTENDS RelaySessions, TLC

\* Connections and identities are interchangeable in the safety properties.
Symmetric == Permutations(Conns) \cup Permutations(Agents) \cup Permutations(Proxies)
================================================================================
