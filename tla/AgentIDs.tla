------------------------------- MODULE AgentIDs -------------------------------
(* The identifiers both agent stores deal in (internal/server/registry.go).     *)
EXTENDS Naturals

CONSTANTS Agents, Proxies,
          None         \* an absent ID, entry or result

ASSUME NoneAssumption == None \notin Agents \cup Proxies
================================================================================
