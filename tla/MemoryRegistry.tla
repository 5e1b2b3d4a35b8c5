---------------------------- MODULE MemoryRegistry ----------------------------
(* The in-memory agent store (internal/server/registry.go).  Every operation   *)
(* holds the registry's mutex, so each is one step.  The maps hold pointers to *)
(* records: a record found through one map and changed is changed for both.    *)
(*                                                                             *)
(* Names, versions, addresses and times are left out.  A request may carry any *)
(* agent and proxy ID, or none: the agent sends what its state file has, the   *)
(* desktop program writes a proxy ID alone, and POST /api/v1/agents/register   *)
(* takes any pair.                                                             *)
EXTENDS AgentIDs

CONSTANT Records       \* identities of the records the registry may allocate

ASSUME RecordsAssumption == None \notin Records

VARIABLES byAgent, byProxy,
          allocated,   \* the records in use
          agentID,     \* AgentRecord.AgentID
          proxyID,     \* AgentRecord.ProxyID
          last         \* the last call: what was asked, what was returned

memoryVars == <<byAgent, byProxy, allocated, agentID, proxyID, last>>

NoRequest == [op |-> "none", agent |-> None, proxy |-> None, result |-> None]

MemoryInit ==
    /\ byAgent = [a \in Agents |-> None]
    /\ byProxy = [p \in Proxies |-> None]
    /\ allocated = {}
    /\ agentID = [r \in Records |-> None]
    /\ proxyID = [r \in Records |-> None]
    /\ last = NoRequest

\* A lookup of an absent ID finds nothing.
ByAgent(a) == IF a = None THEN None ELSE byAgent[a]
ByProxy(p) == IF p = None THEN None ELSE byProxy[p]

\* MUTANT: the proxy that the request names is not compared.
KnownAgentAnyProxy(a, p) == ByAgent(a) # None

\* The agent is known, and the request names no other proxy than its own.
KnownAgent(a, p) == ByAgent(a) # None /\ p \in {None, proxyID[ByAgent(a)]}

Return(op, a, p, r) == last' = [op |-> op, agent |-> a, proxy |-> p, result |-> r]

\* RegisterOrResume, first branch: the agent's record is refreshed.
ResumeAgent(a, p) ==
    /\ KnownAgent(a, p)
    /\ Return("register", a, p, byAgent[a])
    /\ UNCHANGED <<byAgent, byProxy, allocated, agentID, proxyID>>

\* MUTANT: the entry of the agent that loses the proxy is not deleted.
ResumeProxyKeepsEntry(a, p) ==
    LET r == ByProxy(p)
        owner == IF a = None THEN agentID[r] ELSE a
    IN  /\ ~KnownAgent(a, p)
        /\ r # None
        /\ byAgent' = [byAgent EXCEPT ![owner] = r]
        /\ agentID' = [agentID EXCEPT ![r] = owner]
        /\ Return("register", a, p, r)
        /\ UNCHANGED <<byProxy, allocated, proxyID>>

\* MUTANT: a request without an agent ID moves the proxy as well, to no agent.
ResumeProxyForNobody(a, p) ==
    LET r == ByProxy(p)
        moves == agentID[r] # a
    IN  /\ ~KnownAgent(a, p)
        /\ r # None
        /\ byAgent' = [x \in Agents |->
                          IF x = a THEN r
                          ELSE IF moves /\ x = agentID[r] THEN None ELSE byAgent[x]]
        /\ byProxy' = [byProxy EXCEPT ![proxyID[r]] = r]
        /\ agentID' = [agentID EXCEPT ![r] = a]
        /\ Return("register", a, p, r)
        /\ UNCHANGED <<allocated, proxyID>>

\* Second branch: the record of the proxy, which moves to the asking agent.
ResumeProxy(a, p) ==
    LET r == ByProxy(p)
        moves == a # None /\ agentID[r] # a
        owner == IF moves THEN a ELSE agentID[r]
    IN  /\ ~KnownAgent(a, p)
        /\ r # None
        /\ byAgent' = [x \in Agents |->
                          IF x = owner THEN r
                          ELSE IF moves /\ x = agentID[r] THEN None ELSE byAgent[x]]
        /\ byProxy' = [byProxy EXCEPT ![proxyID[r]] = r]
        /\ agentID' = [agentID EXCEPT ![r] = owner]
        /\ Return("register", a, p, r)
        /\ UNCHANGED <<allocated, proxyID>>

\* IDs that randomHex and randomUUIDLike may make: nobody has them yet.
UnusedAgents == {a \in Agents : byAgent[a] = None /\ \A r \in allocated : agentID[r] # a}
UnusedProxies == {p \in Proxies : byProxy[p] = None}

\* Otherwise a new record, under the IDs of the request as far as it has any.
NewRecord(a, p) ==
    /\ ~KnownAgent(a, p)
    /\ ByProxy(p) = None
    /\ \E r \in Records \ allocated,
          x \in (IF a = None THEN UnusedAgents ELSE {a}),
          q \in (IF p = None THEN UnusedProxies ELSE {p}) :
          /\ allocated' = allocated \cup {r}
          /\ agentID' = [agentID EXCEPT ![r] = x]
          /\ proxyID' = [proxyID EXCEPT ![r] = q]
          /\ byAgent' = [byAgent EXCEPT ![x] = r]
          /\ byProxy' = [byProxy EXCEPT ![q] = r]
          /\ Return("register", a, p, r)

RegisterOrResume(a, p) == ResumeAgent(a, p) \/ ResumeProxy(a, p) \/ NewRecord(a, p)

\* Touch refuses an unknown agent, and one that is filed under another proxy.
Touch(a, p) ==
    LET r == IF byAgent[a] # None THEN byAgent[a] ELSE ByProxy(p)
        found == r # None /\ (p = None \/ proxyID[r] = p)
    IN  /\ Return("touch", a, p, IF found THEN r ELSE None)
        /\ UNCHANGED <<byAgent, byProxy, allocated, agentID, proxyID>>

MemoryNext ==
    \/ \E a \in Agents \cup {None}, p \in Proxies \cup {None} : RegisterOrResume(a, p)
    \/ \E a \in Agents, p \in Proxies \cup {None} : Touch(a, p)

MemorySpec == MemoryInit /\ [][MemoryNext]_memoryVars

-------------------------------------------------------------------------------
\* Types; a record in use carries both IDs, whatever the request left out.
MemoryTypeOK ==
    /\ byAgent \in [Agents -> Records \cup {None}]
    /\ byProxy \in [Proxies -> Records \cup {None}]
    /\ allocated \subseteq Records
    /\ agentID \in [Records -> Agents \cup {None}]
    /\ proxyID \in [Records -> Proxies \cup {None}]
    /\ \A r \in allocated : agentID[r] # None /\ proxyID[r] # None
    /\ last \in [op : {"none", "register", "touch"}, agent : Agents \cup {None},
                 proxy : Proxies \cup {None}, result : Records \cup {None}]

\* A map holds records of its own keys only.
FiledUnderOwnIDs ==
    /\ \A a \in Agents : byAgent[a] # None => agentID[byAgent[a]] = a
    /\ \A p \in Proxies : byProxy[p] # None => proxyID[byProxy[p]] = p

\* Every record ever made is found under its proxy ID.
RecordsAreFiled == \A r \in allocated : byProxy[proxyID[r]] = r

\* No entry leads to a record of other IDs, and every record ever made stays the one
\* that its proxy ID is answered with, although an agent may be moved to another proxy
\* and a proxy to another agent through a shared pointer (registry.go:98-110).  Under
\* its agent ID a record may be missing: NoEntryIsLost tells when it is not.
MapsAgree == FiledUnderOwnIDs /\ RecordsAreFiled

\* What the agents see of the registry.
Binding == [a \in Agents |-> IF byAgent[a] = None THEN None ELSE proxyID[byAgent[a]]]
MemoryPromise == INSTANCE AgentBindings WITH bound <- Binding

\* A registration does what AgentBindings says, and nothing else binds.
MemoryKeepsPromise ==
    IF last'.op = "register"
    THEN MemoryPromise!Binds(last'.agent, last'.proxy,
                             agentID'[last'.result], proxyID'[last'.result])
    ELSE UNCHANGED Binding

\* Whoever asks for a proxy ID gets it, known or not (state.go:40, the agent
\* reuses its old proxy ID).
AskedProxyIsGiven ==
    last.op = "register" /\ last.proxy # None => proxyID[last.result] = last.proxy
================================================================================
