------------------------------ MODULE MCSocksGate ------------------------------
(* TLC instances of SocksGate. *)
EXTENDS SocksGate, TLC

Symmetric == Permutations(Clients)
================================================================================
