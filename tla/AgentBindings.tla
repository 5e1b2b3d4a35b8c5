----------------------------- MODULE AgentBindings -----------------------------
(* What a registration does to the binding of agents to proxies, in one step: it *)
(* finds its agent again, by agent ID or else by proxy ID, or makes a record.    *)
(* RedisRegistry and MemoryRegistry implement it for the requests that agents    *)
(* make (internal/server/redis_registry.go, internal/server/registry.go).        *)
EXTENDS AgentIDs

VARIABLE bound         \* the proxy ID in an agent's record

\* MUTANT: a request without a proxy ID is taken for one that fits every record.
FoundForAnyone(a, p) ==
    IF a # None /\ bound[a] # None /\ p \in {None, bound[a]} THEN {a}
    ELSE {x \in Agents : bound[x] # None /\ p \in {None, bound[x]}}

\* The agents that loadForRegister finds for a request: the one of the agent ID,
\* unless the request names another proxy, else the one that has the proxy.
FoundFor(a, p) ==
    IF a # None /\ bound[a] # None /\ p \in {None, bound[a]} THEN {a}
    ELSE {x \in Agents : p # None /\ bound[x] = p}

Resume(a, p, x, q) ==
    /\ x \in FoundFor(a, p)
    /\ q = bound[x]
    /\ UNCHANGED bound

\* randomHex and randomUUIDLike make IDs that nobody has.
Create(a, p, x, q) ==
    /\ FoundFor(a, p) = {}
    /\ x \in (IF a = None THEN {y \in Agents : bound[y] = None} ELSE {a})
    /\ q \in (IF p = None THEN {r \in Proxies : \A y \in Agents : bound[y] # r} ELSE {p})
    /\ bound' = [bound EXCEPT ![x] = q]

Binds(a, p, x, q) == Resume(a, p, x, q) \/ Create(a, p, x, q)

\* A request that the agent program may make: an agent ID comes with the proxy ID that
\* the store has for it.  A proxy ID could come alone, from a file like the ones that
\* writePersistedProxyID writes.
AsksForItsOwn(a, p) == a # None => p # None /\ bound[a] = p
================================================================================
