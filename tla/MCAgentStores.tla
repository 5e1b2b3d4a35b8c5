---------------------------- MODULE MCAgentStores ----------------------------
(* TLC instances of the two agent stores: a server has one or the other, from   *)
(* its start on.  A history variable tells a Redis store whose operations took  *)
(* turns from one where two of them ever overlapped, another one whether        *)
(* requests were of the kind that the agent program makes.                      *)
EXTENDS MemoryRegistry, RedisRegistry, TLC

Symmetric == Permutations(Agents) \cup Permutations(Proxies)
                \cup Permutations(Records) \cup Permutations(Calls)

VARIABLES backend,     \* AgentStore.BackendName
          overlapped,
          foreign      \* a request was not an agent's own

allVars == <<memoryVars, vars, backend, overlapped, foreign>>

StoresInit ==
    /\ MemoryInit /\ Init
    /\ backend \in {"memory", "redis"}
    /\ overlapped = FALSE
    /\ foreign = FALSE

Begins(c) == At(c, "done") /\ call'[c].pc # "done"

\* The request of this step is one that the agent and desktop programs make.
OwnRequest ==
    /\ MemoryPromise!AsksForItsOwn(last'.agent, last'.proxy)
    /\ \A c \in Calls : Begins(c) => RedisPromise!AsksForItsOwn(call'[c].agent, call'[c].proxy)

StoresNext ==
    /\ \/ backend = "memory" /\ MemoryNext /\ UNCHANGED vars
       \/ backend = "redis" /\ Next /\ UNCHANGED memoryVars
    /\ overlapped' = (overlapped \/ \E c, d \in Calls :
                         c # d /\ call'[c].pc # "done" /\ call'[d].pc # "done")
    /\ foreign' = (foreign \/ ~OwnRequest)
    /\ UNCHANGED backend

StoresSpec == StoresInit /\ [][StoresNext]_allVars

\* As long as requests are the agents' own, no record in memory loses its entry: it
\* can be found by its agent ID and is listed.  A foreign pair of IDs can take it away:
\* after (a, p), (a, q) and (b, p) the entry of a is gone, which by then is that of the
\* record of q (registry.go:101).
NoEntryIsLost ==
    ~foreign => \A r \in allocated : \E a \in Agents : agentID[r] = a /\ byAgent[a] = r

\* Whatever fails and however saves interleave, no pointer dangles when
\* loadByProxyID follows it; and as long as requests are the agents' own, the record
\* behind the pointer of a proxy is one of that proxy, so that whoever looks it up is
\* never sent to an agent of another (redis_registry.go:245-254).
LookupsAreExact == PointersResolve /\ (~foreign => PointersCurrent)

\* As long as operations take turns the proxy of every record leads back to that
\* record, whatever command of an operation fails: it can be looked up, and no two
\* agents hold one proxy (redis_registry.go:55-87).
ExclusiveInTurns == ~overlapped => OneAgentPerProxy

\* Either store does for the agents what AgentIdentity takes for granted, as long as
\* operations take turns and every agent ID comes with its own proxy ID
\* (registry.go:80-139, redis_registry.go:55-87).
AgentsAreServed ==
    [][~overlapped' /\ ~foreign' =>
          IF backend = "redis" THEN RedisKeepsPromise ELSE MemoryKeepsPromise]_allVars

\* As long as operations take turns a heartbeat changes no binding
\* (redis_registry.go:89-115).
BeatsKeepBindingsInTurns ==
    [][~overlapped' =>
         \A c \in Calls : Is(c, "touch") /\ At(c, "save") /\ call'[c].pc # "save"
                             => UNCHANGED Stored]_allVars
================================================================================
