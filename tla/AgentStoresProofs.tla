--------------------------- MODULE AgentStoresProofs ---------------------------
(* Proofs about the two agent stores, for every set of IDs, records and         *)
(* operations: first the store in memory, whose operations are one step each;   *)
(* then the one in Redis, with any number of operations at once and when they   *)
(* take turns; then the composition that the runs check, with the history that  *)
(* tells whether operations took turns and whether agents asked for their own.  *)
EXTENDS MCAgentStores, TLAPS

-------------------------------------------------------------------------------
(* The store in memory *)

\* The maps hold records in use only, so a new record is in neither of them; the
\* rest is what the runs check.
EntriesAllocated ==
    /\ \A a \in Agents : byAgent[a] # None => byAgent[a] \in allocated
    /\ \A p \in Proxies : byProxy[p] # None => byProxy[p] \in allocated

MemoryInv ==
    /\ MemoryTypeOK
    /\ EntriesAllocated
    /\ FiledUnderOwnIDs
    /\ RecordsAreFiled
    /\ AskedProxyIsGiven

\* The registry starts empty.
LEMMA MemoryInitially == MemoryInit => MemoryInv
<1> SUFFICES ASSUME MemoryInit PROVE MemoryInv
  OBVIOUS
<1> USE NoneAssumption, RecordsAssumption DEF MemoryInit, NoRequest
<1>1. MemoryTypeOK
  BY DEF MemoryTypeOK
<1>2. EntriesAllocated /\ FiledUnderOwnIDs
  BY DEF EntriesAllocated, FiledUnderOwnIDs
<1>3. RecordsAreFiled /\ AskedProxyIsGiven
  BY DEF RecordsAreFiled, AskedProxyIsGiven
<1> QED
  BY <1>1, <1>2, <1>3 DEF MemoryInv

\* A step that leaves the maps and the records alone can only go wrong in what it
\* returns.
LEMMA RecordsUntouched ==
  ASSUME MemoryInv, UNCHANGED <<byAgent, byProxy, allocated, agentID, proxyID>>,
         last' \in [op : {"none", "register", "touch"}, agent : Agents \cup {None},
                    proxy : Proxies \cup {None}, result : Records \cup {None}],
         AskedProxyIsGiven'
  PROVE  MemoryInv'
<1>1. MemoryTypeOK'
  BY DEF MemoryInv, MemoryTypeOK
<1>2. EntriesAllocated' /\ FiledUnderOwnIDs'
  BY DEF MemoryInv, EntriesAllocated, FiledUnderOwnIDs
<1>3. RecordsAreFiled'
  BY DEF MemoryInv, RecordsAreFiled
<1> QED
  BY <1>1, <1>2, <1>3 DEF MemoryInv

\* The first branch returns the agent's record: it is the one asked for.
LEMMA ResumeAgentStep ==
  ASSUME MemoryInv, NEW a \in Agents \cup {None}, NEW p \in Proxies \cup {None}, ResumeAgent(a, p)
  PROVE  MemoryInv'
<1>1. a \in Agents /\ byAgent[a] \in Records
  BY DEF ResumeAgent, KnownAgent, ByAgent, MemoryInv, MemoryTypeOK
<1>2. p \in {None, proxyID[byAgent[a]]}
  BY <1>1, NoneAssumption, RecordsAssumption DEF ResumeAgent, KnownAgent, ByAgent
<1>3. AskedProxyIsGiven'
  BY <1>1, <1>2 DEF ResumeAgent, Return, AskedProxyIsGiven
<1> QED
  BY <1>1, <1>3, RecordsUntouched DEF ResumeAgent, Return

\* The second branch changes the agent of one record.  That the entry of the old
\* agent goes is what keeps both maps true to the records.
LEMMA ResumeProxyStep ==
  ASSUME MemoryInv, NEW a \in Agents \cup {None}, NEW p \in Proxies \cup {None}, ResumeProxy(a, p)
  PROVE  MemoryInv'
<1> DEFINE r == ByProxy(p)
           moves == a # None /\ agentID[r] # a
           owner == IF moves THEN a ELSE agentID[r]
<1> USE NoneAssumption, RecordsAssumption
<1>1. /\ p \in Proxies /\ r = byProxy[p] /\ r # None /\ r \in Records /\ r \in allocated
      /\ proxyID[r] = p
  BY DEF ResumeProxy, ByProxy, MemoryInv, MemoryTypeOK, EntriesAllocated, FiledUnderOwnIDs
<1>2. agentID[r] \in Agents /\ owner \in Agents
  BY <1>1 DEF MemoryInv, MemoryTypeOK
<1>3. /\ byAgent' = [x \in Agents |-> IF x = owner THEN r
                         ELSE IF moves /\ x = agentID[r] THEN None ELSE byAgent[x]]
      /\ agentID' = [agentID EXCEPT ![r] = owner]
      /\ last' = [op |-> "register", agent |-> a, proxy |-> p, result |-> r]
      /\ allocated' = allocated /\ proxyID' = proxyID
  BY DEF ResumeProxy, Return
<1>4. byProxy' = byProxy
  <2>1. byProxy' = [byProxy EXCEPT ![p] = byProxy[p]]
    BY <1>1 DEF ResumeProxy
  <2> QED
    BY <2>1, <1>1 DEF MemoryInv, MemoryTypeOK
<1> HIDE DEF r, moves, owner
<1>5. MemoryTypeOK'
  BY <1>1, <1>2, <1>3, <1>4 DEF MemoryInv, MemoryTypeOK
<1>6. EntriesAllocated'
  BY <1>1, <1>3, <1>4 DEF MemoryInv, EntriesAllocated
<1>7. ASSUME NEW x \in Agents, byAgent'[x] # None PROVE agentID'[byAgent'[x]] = x
  <2>1. CASE x = owner
    BY <2>1, <1>1, <1>3 DEF MemoryInv, MemoryTypeOK
  <2>2. CASE x # owner
    <3>1. byAgent'[x] = byAgent[x] /\ byAgent[x] # None /\ ~(moves /\ x = agentID[r])
      BY <2>2, <1>3, <1>7
    <3>2. agentID[byAgent[x]] = x
      BY <3>1 DEF MemoryInv, FiledUnderOwnIDs
    <3>3. byAgent[x] # r
      BY <3>1, <3>2, <2>2 DEF owner
    <3> QED
      BY <3>1, <3>2, <3>3, <1>1, <1>3 DEF MemoryInv, MemoryTypeOK
  <2> QED
    BY <2>1, <2>2
<1>8. FiledUnderOwnIDs'
  BY <1>3, <1>4, <1>7 DEF MemoryInv, FiledUnderOwnIDs
<1>9. RecordsAreFiled'
  BY <1>3, <1>4 DEF MemoryInv, RecordsAreFiled
<1>10. AskedProxyIsGiven'
  BY <1>1, <1>3 DEF AskedProxyIsGiven
<1> QED
  BY <1>5, <1>6, <1>8, <1>9, <1>10 DEF MemoryInv

\* A new record is in no map, and takes a proxy ID that no listed record has.
LEMMA NewRecordStep ==
  ASSUME MemoryInv, NEW a \in Agents \cup {None}, NEW p \in Proxies \cup {None}, NewRecord(a, p)
  PROVE  MemoryInv'
<1> USE NoneAssumption, RecordsAssumption
<1>1. PICK r \in Records \ allocated,
           x \in (IF a = None THEN UnusedAgents ELSE {a}),
           q \in (IF p = None THEN UnusedProxies ELSE {p}) :
           /\ allocated' = allocated \cup {r}
           /\ agentID' = [agentID EXCEPT ![r] = x]
           /\ proxyID' = [proxyID EXCEPT ![r] = q]
           /\ byAgent' = [byAgent EXCEPT ![x] = r]
           /\ byProxy' = [byProxy EXCEPT ![q] = r]
           /\ Return("register", a, p, r)
  BY DEF NewRecord
<1>2. x \in Agents /\ q \in Proxies /\ byProxy[q] = None /\ (p # None => q = p)
  BY DEF NewRecord, UnusedAgents, UnusedProxies, ByProxy
<1>3. r # None /\ r \notin allocated
  BY NoneAssumption, RecordsAssumption
<1>4. MemoryTypeOK'
  BY <1>1, <1>2 DEF MemoryInv, MemoryTypeOK, Return
<1>5. EntriesAllocated'
  BY <1>1, <1>2 DEF MemoryInv, MemoryTypeOK, EntriesAllocated
<1>6. FiledUnderOwnIDs'
  BY <1>1, <1>2, <1>3 DEF MemoryInv, MemoryTypeOK, EntriesAllocated, FiledUnderOwnIDs
<1>7. RecordsAreFiled'
  <2> SUFFICES ASSUME NEW s \in allocated' PROVE byProxy'[proxyID'[s]] = s
    BY DEF RecordsAreFiled
  <2>1. CASE s = r
    BY <2>1, <1>1, <1>2 DEF MemoryInv, MemoryTypeOK
  <2>2. CASE s # r
    <3>1. s \in allocated /\ s \in Records /\ s # None
      BY <2>2, <1>1 DEF MemoryInv, MemoryTypeOK
    <3>2. byProxy[proxyID[s]] = s /\ proxyID[s] \in Proxies
      BY <3>1 DEF MemoryInv, RecordsAreFiled, MemoryTypeOK
    <3> QED
      BY <3>1, <3>2, <2>2, <1>1, <1>2 DEF MemoryInv, MemoryTypeOK
  <2> QED
    BY <2>1, <2>2
<1>8. AskedProxyIsGiven'
  BY <1>1, <1>2 DEF MemoryInv, MemoryTypeOK, Return, AskedProxyIsGiven
<1> QED
  BY <1>4, <1>5, <1>6, <1>7, <1>8 DEF MemoryInv

\* A heartbeat changes no map.
LEMMA TouchStep ==
  ASSUME MemoryInv, NEW a \in Agents, NEW p \in Proxies \cup {None}, Touch(a, p)
  PROVE  MemoryInv'
<1>1. last'.op = "touch" /\ last' \in
        [op : {"none", "register", "touch"}, agent : Agents \cup {None},
         proxy : Proxies \cup {None}, result : Records \cup {None}]
  BY DEF Touch, Return, ByProxy, MemoryInv, MemoryTypeOK
<1>2. AskedProxyIsGiven'
  BY <1>1 DEF AskedProxyIsGiven
<1> QED
  BY <1>1, <1>2, RecordsUntouched DEF Touch

\* Every operation of the registry keeps its invariant.
LEMMA MemoryStep == MemoryInv /\ [MemoryNext]_memoryVars => MemoryInv'
<1> SUFFICES ASSUME MemoryInv, [MemoryNext]_memoryVars PROVE MemoryInv'
  OBVIOUS
<1>1. ASSUME NEW a \in Agents \cup {None}, NEW p \in Proxies \cup {None}, RegisterOrResume(a, p)
      PROVE  MemoryInv'
  BY <1>1, ResumeAgentStep, ResumeProxyStep, NewRecordStep DEF RegisterOrResume
<1>2. ASSUME NEW a \in Agents, NEW p \in Proxies \cup {None}, Touch(a, p) PROVE MemoryInv'
  BY <1>2, TouchStep
<1>3. CASE UNCHANGED memoryVars
  <2>1. AskedProxyIsGiven'
    BY <1>3 DEF memoryVars, MemoryInv, AskedProxyIsGiven
  <2> QED
    BY <1>3, <2>1, RecordsUntouched DEF memoryVars, MemoryInv, MemoryTypeOK
<1> QED
  BY <1>1, <1>2, <1>3 DEF MemoryNext

\* The invariant of the registry always holds.
THEOREM MemoryInvariance == MemorySpec => []MemoryInv
  BY MemoryInitially, MemoryStep, PTL DEF MemorySpec

\* The registry is well typed, and a record in use carries both of its IDs.
THEOREM MemoryTypeCorrect == MemorySpec => []MemoryTypeOK
<1>1. MemoryInv => MemoryTypeOK
  BY DEF MemoryInv
<1> QED
  BY <1>1, MemoryInvariance, PTL

\* No entry leads to a record of other IDs and every record stays the one its proxy ID
\* is answered with, whatever pairs of IDs the registrations carry.
THEOREM MapsAreTrue == MemorySpec => []MapsAgree
<1>1. MemoryInv => MapsAgree
  BY DEF MemoryInv, MapsAgree
<1> QED
  BY <1>1, MemoryInvariance, PTL

\* A registration that names a proxy ID returns that proxy ID.
THEOREM ProxyIsReused == MemorySpec => []AskedProxyIsGiven
<1>1. MemoryInv => AskedProxyIsGiven
  BY DEF MemoryInv
<1> QED
  BY <1>1, MemoryInvariance, PTL

-------------------------------------------------------------------------------
\* The registry for those who ask for their own: agents that carry an ID together
\* with the proxy ID that the registry has for it, or no agent ID.

MemoryOwnRequest == MemoryPromise!AsksForItsOwn(last'.agent, last'.proxy)

\* No record is filed in one map only: a proxy never moves from agent to agent.
AllListed == \A p \in Proxies : byProxy[p] # None => byAgent[agentID[byProxy[p]]] = byProxy[p]

\* The agent is known: its record is returned.
LEMMA OwnAgentResumed ==
  ASSUME MemoryInv, AllListed, NEW a \in Agents \cup {None}, NEW p \in Proxies \cup {None},
         ResumeAgent(a, p)
  PROVE  AllListed' /\ MemoryKeepsPromise
<1> USE NoneAssumption, RecordsAssumption
<1> DEFINE r == byAgent[a]
<1>1. /\ a \in Agents /\ r \in Records /\ r # None /\ r \in allocated
      /\ p \in {None, proxyID[r]} /\ agentID[r] = a /\ proxyID[r] # None
  BY DEF ResumeAgent, KnownAgent, ByAgent, MemoryInv, MemoryTypeOK, EntriesAllocated,
         FiledUnderOwnIDs
<1>2. /\ UNCHANGED <<byAgent, byProxy, allocated, agentID, proxyID>>
      /\ last' = [op |-> "register", agent |-> a, proxy |-> p, result |-> r]
  BY DEF ResumeAgent, Return
<1>3. Binding[a] = proxyID[r] /\ UNCHANGED Binding
  BY <1>1, <1>2 DEF Binding
<1>4. MemoryPromise!Binds(a, p, a, proxyID[r])
  BY <1>1, <1>3 DEF MemoryPromise!Binds, MemoryPromise!Resume, MemoryPromise!FoundFor
<1>5. AllListed'
  BY <1>2 DEF AllListed
<1> QED
  BY <1>1, <1>2, <1>4, <1>5 DEF MemoryKeepsPromise

\* The proxy alone is known: its agent is resumed, and no entry moves.
LEMMA OwnProxyResumed ==
  ASSUME MemoryInv, AllListed, NEW a \in Agents \cup {None}, NEW p \in Proxies \cup {None},
         ResumeProxy(a, p), MemoryOwnRequest
  PROVE  AllListed' /\ MemoryKeepsPromise
<1> USE NoneAssumption, RecordsAssumption
<1> DEFINE r == byProxy[p]
           x == agentID[r]
<1>1. /\ p \in Proxies /\ ByProxy(p) = r /\ r # None /\ r \in Records /\ r \in allocated
      /\ proxyID[r] = p /\ x \in Agents /\ byAgent[x] = r
  BY DEF ResumeProxy, ByProxy, MemoryInv, MemoryTypeOK, EntriesAllocated, FiledUnderOwnIDs,
         AllListed
<1>2. last' = [op |-> "register", agent |-> a, proxy |-> p, result |-> r]
  BY <1>1 DEF ResumeProxy, Return
<1>3. a = None
  <2> SUFFICES ASSUME a # None PROVE FALSE
    OBVIOUS
  <2>1. Binding[a] = p
    BY <1>2 DEF MemoryOwnRequest, MemoryPromise!AsksForItsOwn
  <2>2. byAgent[a] # None /\ proxyID[byAgent[a]] = p
    BY <2>1, <1>1 DEF Binding
  <2> QED
    BY <2>2 DEF ResumeProxy, KnownAgent, ByAgent
<1>4. /\ byAgent' = [y \in Agents |-> IF y = x THEN r ELSE byAgent[y]]
      /\ byProxy' = [byProxy EXCEPT ![p] = r]
      /\ agentID' = [agentID EXCEPT ![r] = x]
      /\ proxyID' = proxyID
  BY <1>1, <1>3 DEF ResumeProxy
<1>5. byAgent' = byAgent /\ byProxy' = byProxy /\ agentID' = agentID
  BY <1>1, <1>4 DEF MemoryInv, MemoryTypeOK
<1>6. Binding[x] = p /\ UNCHANGED Binding
  BY <1>1, <1>4, <1>5 DEF Binding
<1> HIDE DEF r, x
<1>7. MemoryPromise!Binds(a, p, x, p)
  BY <1>1, <1>3, <1>6 DEF MemoryPromise!Binds, MemoryPromise!Resume, MemoryPromise!FoundFor
<1>8. AllListed'
  BY <1>5 DEF AllListed
<1>9. agentID'[r] = x /\ proxyID'[r] = p
  BY <1>1, <1>4, <1>5 DEF x
<1> QED
  BY <1>2, <1>7, <1>8, <1>9 DEF MemoryKeepsPromise

\* Neither is known, and no agent ID was sent: a new agent gets the proxy.
LEMMA OwnRecordMade ==
  ASSUME MemoryInv, AllListed, NEW a \in Agents \cup {None}, NEW p \in Proxies \cup {None},
         NewRecord(a, p), MemoryOwnRequest
  PROVE  AllListed' /\ MemoryKeepsPromise
<1> USE NoneAssumption, RecordsAssumption
<1>1. PICK r \in Records \ allocated,
           x \in (IF a = None THEN UnusedAgents ELSE {a}),
           q \in (IF p = None THEN UnusedProxies ELSE {p}) :
           /\ allocated' = allocated \cup {r}
           /\ agentID' = [agentID EXCEPT ![r] = x]
           /\ proxyID' = [proxyID EXCEPT ![r] = q]
           /\ byAgent' = [byAgent EXCEPT ![x] = r]
           /\ byProxy' = [byProxy EXCEPT ![q] = r]
           /\ last' = [op |-> "register", agent |-> a, proxy |-> p, result |-> r]
  BY DEF NewRecord, Return
<1>2. a = None
  <2> SUFFICES ASSUME a # None PROVE FALSE
    OBVIOUS
  <2>1. Binding[a] = p /\ p # None
    BY <1>1 DEF MemoryOwnRequest, MemoryPromise!AsksForItsOwn
  <2>2. byAgent[a] # None /\ proxyID[byAgent[a]] = p
    BY <2>1 DEF Binding
  <2> QED
    BY <2>2 DEF NewRecord, KnownAgent, ByAgent
<1>3. /\ x \in Agents /\ byAgent[x] = None /\ \A s \in allocated : agentID[s] # x
      /\ q \in Proxies /\ byProxy[q] = None /\ (p # None => q = p)
      /\ r # None /\ r \in Records /\ r \notin allocated
  BY <1>2 DEF NewRecord, UnusedAgents, UnusedProxies, ByProxy
<1>4. /\ byAgent \in [Agents -> Records \cup {None}] /\ byProxy \in [Proxies -> Records \cup {None}]
      /\ agentID \in [Records -> Agents \cup {None}] /\ proxyID \in [Records -> Proxies \cup {None}]
      /\ \A s \in allocated : s \in Records /\ agentID[s] \in Agents /\ proxyID[s] \in Proxies
      /\ \A y \in Agents : byAgent[y] # None => byAgent[y] \in allocated
      /\ \A y \in Proxies : byProxy[y] # None => byProxy[y] \in allocated
  BY DEF MemoryInv, MemoryTypeOK, EntriesAllocated
<1>5. agentID'[r] = x /\ proxyID'[r] = q
  BY <1>1, <1>3, <1>4
<1>6. Binding' = [Binding EXCEPT ![x] = q]
  <2>1. \A y \in Agents : Binding'[y] = IF y = x THEN q ELSE Binding[y]
    <3> SUFFICES ASSUME NEW y \in Agents PROVE Binding'[y] = IF y = x THEN q ELSE Binding[y]
      OBVIOUS
    <3>1. Binding'[y] = IF byAgent'[y] = None THEN None ELSE proxyID'[byAgent'[y]]
      BY DEF Binding
    <3>2. CASE y = x
      BY <3>1, <3>2, <1>1, <1>3, <1>4, <1>5
    <3>3. CASE y # x
      <4>1. /\ byAgent'[y] = byAgent[y]
            /\ byAgent[y] # None => proxyID'[byAgent[y]] = proxyID[byAgent[y]]
        BY <3>3, <1>1, <1>3, <1>4
      <4> QED
        BY <3>1, <3>3, <4>1 DEF Binding
    <3> QED
      BY <3>2, <3>3
  <2>2. Binding' = [y \in Agents |-> Binding'[y]]
    BY DEF Binding
  <2> QED
    BY <2>1, <2>2, <1>3 DEF Binding
<1>7. \A y \in Agents : Binding[y] # q
  BY <1>3, <1>4 DEF Binding, MemoryInv, RecordsAreFiled
<1>8. Binding[x] = None
  BY <1>3 DEF Binding
<1>9. MemoryPromise!FoundFor(a, p) = {}
  BY <1>2, <1>3, <1>7 DEF MemoryPromise!FoundFor
<1>10. MemoryPromise!Create(a, p, x, q)
  <2>1. q \in (IF p = None THEN {y \in Proxies : \A z \in Agents : Binding[z] # y} ELSE {p})
    BY <1>3, <1>7
  <2>2. x \in (IF a = None THEN {y \in Agents : Binding[y] = None} ELSE {a})
    BY <1>2, <1>3, <1>8
  <2> QED
    BY <1>6, <1>9, <2>1, <2>2 DEF MemoryPromise!Create
<1>11. MemoryPromise!Binds(a, p, x, q)
  BY <1>10 DEF MemoryPromise!Binds
<1>12. AllListed'
  <2> SUFFICES ASSUME NEW y \in Proxies, byProxy'[y] # None
               PROVE  byAgent'[agentID'[byProxy'[y]]] = byProxy'[y]
    BY DEF AllListed
  <2>1. CASE y = q
    BY <2>1, <1>1, <1>3, <1>4
  <2>2. CASE y # q
    <3>1. byProxy'[y] = byProxy[y] /\ byProxy[y] \in allocated
      BY <2>2, <1>1, <1>4
    <3>2. byAgent[agentID[byProxy[y]]] = byProxy[y]
      BY <3>1 DEF AllListed
    <3> QED
      BY <3>1, <3>2, <1>1, <1>3, <1>4
  <2> QED
    BY <2>1, <2>2
<1> QED
  BY <1>1, <1>5, <1>11, <1>12 DEF MemoryKeepsPromise

\* A request of an agent's own is answered as AgentBindings says.
LEMMA MemoryOwnStep ==
  ASSUME MemoryInv, AllListed, MemoryNext, MemoryOwnRequest
  PROVE  AllListed' /\ MemoryKeepsPromise
<1>1. ASSUME NEW a \in Agents \cup {None}, NEW p \in Proxies \cup {None}, RegisterOrResume(a, p)
      PROVE  AllListed' /\ MemoryKeepsPromise
  BY <1>1, OwnAgentResumed, OwnProxyResumed, OwnRecordMade DEF RegisterOrResume
<1>2. ASSUME NEW a \in Agents, NEW p \in Proxies \cup {None}, Touch(a, p)
      PROVE  AllListed' /\ MemoryKeepsPromise
  BY <1>2 DEF Touch, Return, AllListed, MemoryKeepsPromise, Binding
<1> QED
  BY <1>1, <1>2 DEF MemoryNext

\* If everybody asks for its own, each registration is a step of AgentBindings, and
\* nothing else binds an agent to a proxy.
THEOREM MemoryImplementsBindings ==
  MemorySpec /\ [][MemoryOwnRequest]_memoryVars => [][MemoryKeepsPromise]_memoryVars
<1>1. MemoryInit => AllListed
  BY DEF MemoryInit, AllListed
<1>2. MemoryInv /\ AllListed /\ [MemoryNext]_memoryVars /\ [MemoryOwnRequest]_memoryVars
        => AllListed' /\ [MemoryKeepsPromise]_memoryVars
  <2>1. CASE UNCHANGED memoryVars
    BY <2>1 DEF memoryVars, AllListed
  <2> QED
    BY <2>1, MemoryOwnStep
<1> QED
  BY MemoryInvariance, <1>1, <1>2, PTL DEF MemorySpec

-------------------------------------------------------------------------------
(* The store in Redis *)

\* The proxy of a record has a pointer.
RecordsAreFound == \A a \in Agents : agentHash[a] # None => proxyPtr[agentHash[a]] # None

\* With operations at once: pointers and records are written together.
RedisInv == TypeOK /\ PointersResolve /\ RecordsAreFound

\* What an operation on its own may rely on between its loads and its save: the
\* record it is about to save is as it loaded it, or its proxy is still free.
LoadsAreCurrent ==
    \A c \in Calls :
        /\ At(c, "hash") => proxyPtr[call[c].proxy] = call[c].rec.agent
        /\ At(c, "save") => \/ agentHash[call[c].rec.agent] = call[c].rec.proxy
                            \/ Is(c, "register") /\ proxyPtr[call[c].rec.proxy] = None

SerialInv == RedisInv /\ OneAgentPerProxy /\ LoadsAreCurrent

\* Operations take turns: one is in progress at most.
InTurns == \A c, d \in Calls : ~At(c, "done") /\ ~At(d, "done") => c = d

-------------------------------------------------------------------------------
\* The two ways a load ends, as facts about the call alone: nothing else of the
\* state is read or written, so each loading step below cites them.
CallType == [op : {"none", "register", "touch", "get"},
             agent : Agents \cup {None}, proxy : Proxies \cup {None},
             pc : Points, ok : BOOLEAN,
             rec : [agent : Agents \cup {None}, proxy : Proxies \cup {None}]]

\* A call is well formed: it has what its next command needs.
Formed(k) ==
    /\ k \in CallType
    /\ k.pc = "agent" => k.agent # None
    /\ k.pc = "pointer" => k.proxy # None
    /\ k.pc = "hash" => k.rec.agent # None /\ k.proxy # None
    /\ k.pc = "save" => k.rec.agent # None /\ k.rec.proxy # None

\* The types, call by call.
LEMMA TypesByCall ==
  TypeOK <=> /\ agentHash \in [Agents -> Proxies \cup {None}]
             /\ proxyPtr \in [Proxies -> Agents \cup {None}]
             /\ call \in [Calls -> CallType]
             /\ \A c \in Calls : Formed(call[c])
  BY DEF TypeOK, Formed, CallType, At

\* An operation that returns.
LEMMA FinishForms ==
  ASSUME TypeOK, NEW c \in Calls, NEW ok \in BOOLEAN, Finish(c, ok)
  PROVE  /\ call' \in [Calls -> CallType] /\ Formed(call'[c])
         /\ call'[c].pc = "done"
         /\ \A d \in Calls : d # c => call'[d] = call[d]
  BY TypesByCall DEF Finish, Formed, CallType, Points

\* An operation that goes on to save a record.
LEMMA SaveNextForms ==
  ASSUME TypeOK, NEW c \in Calls, NEW x \in Agents, NEW q \in Proxies, SaveNext(c, x, q)
  PROVE  /\ call' \in [Calls -> CallType] /\ Formed(call'[c])
         /\ call'[c].pc = "save" /\ call'[c].rec = [agent |-> x, proxy |-> q]
         /\ call'[c].op = call[c].op
         /\ \A d \in Calls : d # c => call'[d] = call[d]
  BY TypesByCall, NoneAssumption DEF SaveNext, Formed, CallType, Points

\* A record that was found is saved again, returned or refused.
LEMMA UseForms ==
  ASSUME TypeOK, NEW c \in Calls, NEW x \in Agents, NEW q \in Proxies, Use(c, x, q)
  PROVE  /\ call' \in [Calls -> CallType] /\ Formed(call'[c])
         /\ \/ call'[c].pc = "done"
            \/ call'[c].pc = "save" /\ call'[c].rec = [agent |-> x, proxy |-> q]
         /\ \A d \in Calls : d # c => call'[d] = call[d]
<1>1. CASE Is(c, "get")
  <2>1. call[c] \in CallType
    BY TypesByCall
  <2>2. call' = [call EXCEPT ![c] = [op |-> @.op, agent |-> @.agent, proxy |-> @.proxy,
                   pc |-> "done", rec |-> [agent |-> x, proxy |-> q], ok |-> TRUE]]
    BY <1>1, <2>1, TypesByCall DEF Use, Answer, CallType
  <2> QED
    BY <2>1, <2>2, TypesByCall DEF Formed, CallType, Points
<1>2. CASE ~Is(c, "get") /\ Finish(c, FALSE)
  BY <1>2, FinishForms
<1>3. CASE ~Is(c, "get") /\ SaveNext(c, x, q)
  BY <1>3, SaveNextForms
<1> QED
  BY <1>1, <1>2, <1>3 DEF Use

\* A new record has both IDs; one that was made is free in the store.
LEMMA MissingForms ==
  ASSUME TypeOK, NEW c \in Calls, Missing(c)
  PROVE  /\ call' \in [Calls -> CallType] /\ Formed(call'[c])
         /\ \/ call'[c].pc = "done"
            \/ /\ call'[c].pc = "save" /\ call'[c].op = "register"
               /\ IF call[c].proxy = None THEN proxyPtr[call'[c].rec.proxy] = None
                  ELSE call'[c].rec.proxy = call[c].proxy
         /\ \A d \in Calls : d # c => call'[d] = call[d]
<1>1. CASE Is(c, "register")
  <2>1. PICK x \in (IF call[c].agent = None THEN FreshAgents ELSE {call[c].agent}),
             q \in (IF call[c].proxy = None THEN FreshProxies ELSE {call[c].proxy}) :
             SaveNext(c, x, q)
    BY <1>1 DEF Missing
  <2>2. x \in Agents /\ q \in Proxies
    BY TypesByCall DEF Formed, CallType, FreshAgents, FreshProxies
  <2>3. /\ call' \in [Calls -> CallType] /\ Formed(call'[c])
        /\ call'[c].pc = "save" /\ call'[c].rec = [agent |-> x, proxy |-> q]
        /\ call'[c].op = call[c].op
        /\ \A d \in Calls : d # c => call'[d] = call[d]
    BY <2>1, <2>2, SaveNextForms
  <2>4. IF call[c].proxy = None THEN proxyPtr[q] = None ELSE q = call[c].proxy
    BY DEF FreshProxies
  <2> QED
    BY <2>3, <2>4, <1>1 DEF Is
<1>2. CASE ~Is(c, "register")
  BY <1>2, FinishForms DEF Missing
<1> QED
  BY <1>1, <1>2

\* A pointer that was found names the hash to load.
LEMMA FollowForms ==
  ASSUME TypeOK, NEW c \in Calls, NEW x \in Agents, call[c].proxy # None,
         call' = [call EXCEPT ![c].rec = [agent |-> x, proxy |-> None], ![c].pc = "hash"]
  PROVE  /\ call' \in [Calls -> CallType] /\ Formed(call'[c])
         /\ call'[c].pc = "hash" /\ call'[c].rec.agent = x /\ call'[c].proxy = call[c].proxy
         /\ \A d \in Calls : d # c => call'[d] = call[d]
  BY TypesByCall, NoneAssumption DEF Formed, CallType, Points

\* An operation that has no record yet: it follows the pointer, makes a record or returns.
LEMMA TryProxyForms ==
  ASSUME TypeOK, NEW c \in Calls, TryProxy(c)
  PROVE  /\ call' \in [Calls -> CallType] /\ Formed(call'[c])
         /\ \/ call'[c].pc \in {"done", "pointer"}
            \/ /\ call'[c].pc = "save" /\ call'[c].op = "register"
               /\ proxyPtr[call'[c].rec.proxy] = None
         /\ \A d \in Calls : d # c => call'[d] = call[d]
<1>1. CASE call[c].proxy = None
  BY <1>1, MissingForms DEF TryProxy
<1>2. CASE call[c].proxy # None
  BY <1>2, TypesByCall DEF TryProxy, Formed, CallType, Points
<1> QED
  BY <1>1, <1>2

-------------------------------------------------------------------------------
\* One call moves on and the store stays as it is.
Moves(c) ==
    /\ call' \in [Calls -> CallType] /\ Formed(call'[c])
    /\ \A d \in Calls : d # c => call'[d] = call[d]
    /\ UNCHANGED Stored

\* What a step that only reads does to its call, one fact per command.
LEMMA StartMoves ==
  ASSUME TypeOK, NEW c \in Calls, NEW op \in {"register", "touch", "get"},
         NEW a \in Agents \cup {None}, NEW p \in Proxies \cup {None}, Start(c, op, a, p)
  PROVE  Moves(c) /\ call'[c].pc \notin {"hash", "save"}
  BY TypesByCall DEF Start, Moves, Formed, CallType, Points, NoRecord

\* Without an agent ID nothing is loaded by it.
LEMMA NoAgentIDMoves ==
  ASSUME TypeOK, NEW c \in Calls, NoAgentID(c)
  PROVE  /\ Moves(c) /\ call'[c].pc # "hash"
         /\ call'[c].pc = "save" => /\ call'[c].op = "register"
                                    /\ proxyPtr[call'[c].rec.proxy] = None
  BY TryProxyForms DEF NoAgentID, Moves

\* HGETALL on the agent of the request: what is saved next is as loaded, or new.
LEMMA LoadAgentMoves ==
  ASSUME TypeOK, NEW c \in Calls, LoadAgent(c)
  PROVE  /\ Moves(c) /\ call'[c].pc # "hash"
         /\ call'[c].pc = "save" =>
               \/ agentHash[call'[c].rec.agent] = call'[c].rec.proxy
               \/ call'[c].op = "register" /\ proxyPtr[call'[c].rec.proxy] = None
<1> DEFINE a == call[c].agent
           q == agentHash[a]
<1>1. a \in Agents /\ q \in Proxies \cup {None}
  BY TypesByCall DEF LoadAgent, At, Formed, CallType
<1>2. CASE TryProxy(c)
  BY <1>2, TryProxyForms DEF LoadAgent, Moves
<1>3. CASE q # None /\ Use(c, a, q)
  <2>1. q \in Proxies
    BY <1>1, <1>3
  <2> HIDE DEF a, q
  <2>2. /\ call' \in [Calls -> CallType] /\ Formed(call'[c])
        /\ \/ call'[c].pc = "done"
           \/ call'[c].pc = "save" /\ call'[c].rec = [agent |-> a, proxy |-> q]
        /\ \A d \in Calls : d # c => call'[d] = call[d]
    BY <1>1, <1>3, <2>1, UseForms
  <2>3. UNCHANGED Stored
    BY DEF LoadAgent
  <2> QED
    BY <2>2, <2>3 DEF Moves, q
<1> QED
  BY <1>2, <1>3 DEF LoadAgent

\* GET on the pointer: what it names is loaded next, or a new record saved.
LEMMA LoadPointerMoves ==
  ASSUME TypeOK, NEW c \in Calls, LoadPointer(c)
  PROVE  /\ Moves(c)
         /\ call'[c].pc = "hash" => proxyPtr[call'[c].proxy] = call'[c].rec.agent
         /\ call'[c].pc = "save" => /\ call'[c].op = "register"
                                    /\ proxyPtr[call'[c].rec.proxy] = None
<1> DEFINE x == proxyPtr[call[c].proxy]
<1>1. /\ x \in Agents \cup {None} /\ call[c].proxy \in Proxies
      /\ call[c] \in CallType /\ At(c, "pointer")
  BY TypesByCall DEF LoadPointer, At, Formed, CallType
<1>2. CASE x = None
  BY <1>1, <1>2, MissingForms DEF LoadPointer, Moves
<1>3. CASE x # None
  <2>1. call' = [call EXCEPT ![c].rec = [agent |-> x, proxy |-> None],
                           ![c].pc = "hash"]
    BY <1>3 DEF LoadPointer
  <2> HIDE DEF x
  <2>3. /\ call' \in [Calls -> CallType] /\ Formed(call'[c])
        /\ call'[c].pc = "hash" /\ call'[c].rec.agent = x /\ call'[c].proxy = call[c].proxy
        /\ \A d \in Calls : d # c => call'[d] = call[d]
    BY <1>1, <1>3, <2>1, NoneAssumption, FollowForms
  <2> QED
    BY <2>3 DEF LoadPointer, Moves, x
<1> QED
  BY <1>2, <1>3

\* HGETALL behind the pointer: what is saved next is as loaded, if the pointer still leads
\* there.
LEMMA LoadHashMoves ==
  ASSUME TypeOK, PointersResolve, NEW c \in Calls, LoadHash(c)
  PROVE  /\ Moves(c) /\ call'[c].pc # "hash"
         /\ proxyPtr[call[c].proxy] = call[c].rec.agent /\ call'[c].pc = "save"
              => agentHash[call'[c].rec.agent] = call'[c].rec.proxy
<1> DEFINE x == call[c].rec.agent
<1>1. /\ x \in Agents /\ agentHash[x] \in Proxies \cup {None}
      /\ call[c].proxy \in Proxies
  BY TypesByCall DEF LoadHash, At, Formed, CallType
<1>2. CASE agentHash[x] = None
  <2>1. proxyPtr[call[c].proxy] # x
    BY <1>1, <1>2, NoneAssumption DEF PointersResolve
  <2> QED
    BY <1>2, <2>1, MissingForms DEF LoadHash, Moves
<1>3. CASE agentHash[x] # None
  <2>1. agentHash[x] \in Proxies /\ Use(c, x, agentHash[x]) /\ UNCHANGED Stored
    BY <1>1, <1>3 DEF LoadHash
  <2> DEFINE q == agentHash[x]
  <2> HIDE DEF x, q
  <2>2. /\ call' \in [Calls -> CallType] /\ Formed(call'[c])
        /\ \/ call'[c].pc = "done"
           \/ call'[c].pc = "save" /\ call'[c].rec = [agent |-> x, proxy |-> q]
        /\ \A d \in Calls : d # c => call'[d] = call[d]
    BY <1>1, <2>1, UseForms DEF q
  <2> QED
    BY <2>1, <2>2 DEF Moves, q
<1> QED
  BY <1>2, <1>3

\* A load that fails ends its operation.
LEMMA LoadFailsMoves ==
  ASSUME TypeOK, NEW c \in Calls, LoadFails(c)
  PROVE  Moves(c) /\ call'[c].pc = "done"
  BY FinishForms DEF LoadFails, Moves

\* So does the load of the configuration.
LEMMA EnsureConfigMoves ==
  ASSUME TypeOK, NEW c \in Calls, EnsureConfig(c)
  PROVE  Moves(c) /\ call'[c].pc = "done"
  BY FinishForms DEF EnsureConfig, Moves

\* What a save does: the block, or nothing, and the call is past it.
Saves(c) ==
    /\ At(c, "save")
    /\ Store(call[c].rec) \/ UNCHANGED Stored
    /\ call' \in [Calls -> CallType] /\ Formed(call'[c])
    /\ call'[c].pc \in {"done", "config"}
    /\ \A d \in Calls : d # c => call'[d] = call[d]

\* Save and SaveFails write the block or nothing.
LEMMA SaveSaves ==
  ASSUME TypeOK, NEW c \in Calls, Save(c) \/ SaveFails(c)
  PROVE  Saves(c)
<1>1. CASE Save(c) /\ Is(c, "register")
  <2>1. call' = [call EXCEPT ![c].pc = "config"]
    BY <1>1 DEF Save
  <2>2. /\ call' \in [Calls -> CallType] /\ Formed(call'[c])
        /\ call'[c].pc = "config"
        /\ \A d \in Calls : d # c => call'[d] = call[d]
    BY <2>1, TypesByCall DEF Formed, CallType, Points
  <2> QED
    BY <1>1, <2>2 DEF Save, Saves
<1>2. CASE Save(c) /\ ~Is(c, "register")
  BY <1>2, FinishForms DEF Save, Saves
<1>3. CASE SaveFails(c)
  BY <1>3, FinishForms DEF SaveFails, Saves
<1> QED
  BY <1>1, <1>2, <1>3

\* Every step is one of three: a call moves on, a call saves, nothing changes.
LEMMA StepKinds ==
  ASSUME TypeOK, PointersResolve, [Next]_vars
  PROVE  (\E c \in Calls : Moves(c) \/ Saves(c)) \/ UNCHANGED vars
<1>1. ASSUME NEW c \in Calls, NEW op \in {"register", "touch", "get"},
             NEW a \in Agents \cup {None}, NEW p \in Proxies \cup {None}, Start(c, op, a, p)
      PROVE  Moves(c)
  BY <1>1, StartMoves
<1>2. ASSUME NEW c \in Calls, \/ NoAgentID(c) \/ LoadAgent(c) \/ LoadPointer(c)
                              \/ LoadHash(c) \/ LoadFails(c) \/ EnsureConfig(c)
      PROVE  Moves(c)
  BY <1>2, NoAgentIDMoves, LoadAgentMoves, LoadPointerMoves, LoadHashMoves,
     LoadFailsMoves, EnsureConfigMoves
<1>3. ASSUME NEW c \in Calls, Save(c) \/ SaveFails(c) PROVE Saves(c)
  BY <1>3, SaveSaves
<1> QED
  BY <1>1, <1>2, <1>3 DEF Next

-------------------------------------------------------------------------------
\* The store with any number of operations at once.

\* An empty store with no operation satisfies all of it.
LEMMA RedisInitially == Init => SerialInv
<1> SUFFICES ASSUME Init PROVE SerialInv
  OBVIOUS
<1>1. TypeOK
  BY DEF Init, TypeOK, NoCall, NoRecord, Points, At
<1>2. PointersResolve /\ RecordsAreFound /\ OneAgentPerProxy
  BY DEF Init, PointersResolve, RecordsAreFound, OneAgentPerProxy
<1>3. LoadsAreCurrent
  BY DEF Init, LoadsAreCurrent, At, NoCall
<1> QED
  BY <1>1, <1>2, <1>3 DEF SerialInv, RedisInv

\* Moving on keeps the store, and with it the two facts about it.
LEMMA MovesKeepsInv ==
  ASSUME RedisInv, NEW c \in Calls, Moves(c) PROVE RedisInv'
<1>1. /\ agentHash \in [Agents -> Proxies \cup {None}]
      /\ proxyPtr \in [Proxies -> Agents \cup {None}]
      /\ \A d \in Calls : Formed(call[d])
  BY TypesByCall DEF RedisInv
<1>2. \A d \in Calls : Formed(call'[d])
  BY <1>1 DEF Moves
<1>3. TypeOK'
  BY <1>1, <1>2 DEF Moves, Stored, TypeOK, Formed, CallType, At
<1>4. PointersResolve' /\ RecordsAreFound'
  BY DEF RedisInv, Moves, Stored, PointersResolve, RecordsAreFound
<1> QED
  BY <1>3, <1>4 DEF RedisInv

\* One block writes the hash and the pointer, so that each still has the other.
LEMMA SavesKeepsInv ==
  ASSUME RedisInv, NEW c \in Calls, Saves(c) PROVE RedisInv'
<1> DEFINE x == call[c].rec.agent
           q == call[c].rec.proxy
<1>1. /\ agentHash \in [Agents -> Proxies \cup {None}]
      /\ proxyPtr \in [Proxies -> Agents \cup {None}]
      /\ \A d \in Calls : Formed(call[d])
  BY TypesByCall DEF RedisInv
<1>2. x \in Agents /\ q \in Proxies
  BY <1>1 DEF Saves, At, Formed, CallType
<1>3. \A d \in Calls : Formed(call'[d])
  BY <1>1 DEF Saves
<1>4. \/ /\ agentHash' = [agentHash EXCEPT ![x] = q]
         /\ proxyPtr' = [proxyPtr EXCEPT ![q] = x]
      \/ agentHash' = agentHash /\ proxyPtr' = proxyPtr
  BY DEF Saves, Store, Stored
<1> HIDE DEF x, q
<1>5. TypeOK'
  BY <1>1, <1>2, <1>3, <1>4 DEF Saves, TypeOK, Formed, CallType, At
<1>6. PointersResolve' /\ RecordsAreFound'
  BY <1>1, <1>2, <1>4, NoneAssumption DEF RedisInv, PointersResolve, RecordsAreFound
<1> QED
  BY <1>5, <1>6 DEF RedisInv

\* Every step keeps the invariant, however many operations are in progress.
LEMMA RedisStep == RedisInv /\ [Next]_vars => RedisInv'
<1> SUFFICES ASSUME RedisInv, [Next]_vars PROVE RedisInv'
  OBVIOUS
<1>1. (\E c \in Calls : Moves(c) \/ Saves(c)) \/ UNCHANGED vars
  BY StepKinds DEF RedisInv
<1>2. CASE UNCHANGED vars
  BY <1>2 DEF vars, RedisInv, TypeOK, PointersResolve, RecordsAreFound, At
<1> QED
  BY <1>1, <1>2, MovesKeepsInv, SavesKeepsInv

\* The invariant of the Redis store always holds.
THEOREM RedisInvariance == Spec => []RedisInv
<1>1. Init => RedisInv
  BY RedisInitially DEF SerialInv
<1> QED
  BY <1>1, RedisStep, PTL DEF Spec

\* The store and the calls are well typed; a record is complete before its save.
THEOREM RedisTypeCorrect == Spec => []TypeOK
<1>1. RedisInv => TypeOK
  BY DEF RedisInv
<1> QED
  BY <1>1, RedisInvariance, PTL

-------------------------------------------------------------------------------
\* The store when operations take turns.

\* An operation that loads keeps it, whatever else is in progress.
LEMMA MovesKeepsSerial ==
  ASSUME SerialInv, NEW c \in Calls, Moves(c),
         call'[c].pc = "hash" => proxyPtr[call'[c].proxy] = call'[c].rec.agent,
         call'[c].pc = "save" =>
             \/ agentHash[call'[c].rec.agent] = call'[c].rec.proxy
             \/ call'[c].op = "register" /\ proxyPtr[call'[c].rec.proxy] = None
  PROVE  SerialInv'
<1>1. RedisInv'
  BY MovesKeepsInv DEF SerialInv
<1>2. OneAgentPerProxy'
  BY DEF SerialInv, OneAgentPerProxy, Moves, Stored
<1>3. LoadsAreCurrent'
  BY DEF SerialInv, Moves, Stored, LoadsAreCurrent, At, Is
<1> QED
  BY <1>1, <1>2, <1>3 DEF SerialInv

\* A record that was loaded is written back as it is.
LEMMA SaveOfLoaded ==
  ASSUME SerialInv, NEW c \in Calls, At(c, "save"),
         agentHash[call[c].rec.agent] = call[c].rec.proxy, Store(call[c].rec)
  PROVE  UNCHANGED Stored
<1> DEFINE x == call[c].rec.agent
           q == call[c].rec.proxy
<1>1. /\ agentHash \in [Agents -> Proxies \cup {None}]
      /\ proxyPtr \in [Proxies -> Agents \cup {None}]
      /\ x \in Agents /\ q \in Proxies
  BY TypesByCall DEF SerialInv, RedisInv, At, Formed, CallType
<1>2. agentHash[x] = q /\ proxyPtr[q] = x
  BY <1>1, NoneAssumption DEF SerialInv, OneAgentPerProxy
<1>3. /\ agentHash' = [agentHash EXCEPT ![x] = q]
      /\ proxyPtr' = [proxyPtr EXCEPT ![q] = x]
  BY DEF Store
<1> HIDE DEF x, q
<1> QED
  BY <1>1, <1>2, <1>3 DEF Stored

\* A new record takes a proxy that nobody has.
LEMMA SavesKeepsSerial ==
  ASSUME InTurns, SerialInv, NEW c \in Calls, Saves(c) PROVE SerialInv'
<1> DEFINE x == call[c].rec.agent
           q == call[c].rec.proxy
<1>1. RedisInv'
  BY SavesKeepsInv DEF SerialInv
<1>2. LoadsAreCurrent'
  BY DEF InTurns, Saves, LoadsAreCurrent, At
<1>3. /\ agentHash \in [Agents -> Proxies \cup {None}]
      /\ proxyPtr \in [Proxies -> Agents \cup {None}]
      /\ x \in Agents /\ q \in Proxies
  BY TypesByCall DEF SerialInv, RedisInv, Saves, At, Formed, CallType
<1>4. ASSUME UNCHANGED Stored PROVE OneAgentPerProxy'
  BY <1>4 DEF SerialInv, OneAgentPerProxy, Stored
<1>5. ASSUME Store(call[c].rec), agentHash[x] = q PROVE OneAgentPerProxy'
  BY <1>4, <1>5, SaveOfLoaded DEF Saves
<1>6. ASSUME Store(call[c].rec), proxyPtr[q] = None PROVE OneAgentPerProxy'
  <2>1. /\ agentHash' = [agentHash EXCEPT ![x] = q]
        /\ proxyPtr' = [proxyPtr EXCEPT ![q] = x]
    BY <1>6 DEF Store
  <2> HIDE DEF x, q
  <2> QED
    BY <1>3, <1>6, <2>1, NoneAssumption DEF SerialInv, OneAgentPerProxy
<1>7. agentHash[x] = q \/ proxyPtr[q] = None
  BY DEF SerialInv, LoadsAreCurrent, Saves
<1>8. OneAgentPerProxy'
  BY <1>4, <1>5, <1>6, <1>7 DEF Saves
<1> QED
  BY <1>1, <1>2, <1>8 DEF SerialInv

\* A step keeps it when operations take turns.
LEMMA SerialStep == InTurns /\ SerialInv /\ [Next]_vars => SerialInv'
<1> SUFFICES ASSUME InTurns, SerialInv, [Next]_vars PROVE SerialInv'
  OBVIOUS
<1> USE DEF SerialInv, RedisInv
<1>1. ASSUME NEW c \in Calls, NEW op \in {"register", "touch", "get"},
             NEW a \in Agents \cup {None}, NEW p \in Proxies \cup {None}, Start(c, op, a, p)
      PROVE  SerialInv'
  BY <1>1, StartMoves, MovesKeepsSerial
<1>2. ASSUME NEW c \in Calls, NoAgentID(c) PROVE SerialInv'
  BY <1>2, NoAgentIDMoves, MovesKeepsSerial
<1>3. ASSUME NEW c \in Calls, LoadAgent(c) PROVE SerialInv'
  BY <1>3, LoadAgentMoves, MovesKeepsSerial
<1>4. ASSUME NEW c \in Calls, LoadPointer(c) PROVE SerialInv'
  BY <1>4, LoadPointerMoves, MovesKeepsSerial
<1>5. ASSUME NEW c \in Calls, LoadHash(c) PROVE SerialInv'
  <2>1. proxyPtr[call[c].proxy] = call[c].rec.agent
    BY <1>5 DEF LoadHash, LoadsAreCurrent
  <2> QED
    BY <1>5, <2>1, LoadHashMoves, MovesKeepsSerial
<1>6. ASSUME NEW c \in Calls, LoadFails(c) \/ EnsureConfig(c) PROVE SerialInv'
  BY <1>6, LoadFailsMoves, EnsureConfigMoves, MovesKeepsSerial
<1>7. ASSUME NEW c \in Calls, Save(c) \/ SaveFails(c) PROVE SerialInv'
  BY <1>7, SaveSaves, SavesKeepsSerial
<1>8. CASE UNCHANGED vars
  BY <1>8 DEF vars, TypeOK, PointersResolve, RecordsAreFound, OneAgentPerProxy,
              LoadsAreCurrent, At, Is
<1> QED
  BY <1>1, <1>2, <1>3, <1>4, <1>5, <1>6, <1>7, <1>8 DEF Next

\* A heartbeat that comes in its turn writes back what it read.
LEMMA BeatStep ==
  ASSUME InTurns, SerialInv, [Next]_vars,
         NEW c \in Calls, Is(c, "touch"), At(c, "save"), call'[c].pc # "save"
  PROVE  UNCHANGED Stored
<1>1. agentHash[call[c].rec.agent] = call[c].rec.proxy
  BY DEF SerialInv, LoadsAreCurrent, Is
<1>2. (\E d \in Calls : Moves(d) \/ Saves(d)) \/ UNCHANGED vars
  BY StepKinds DEF SerialInv, RedisInv
<1>3. ASSUME NEW d \in Calls, Saves(d) PROVE d = c
  BY <1>3 DEF InTurns, Saves, At
<1> QED
  BY <1>1, <1>2, <1>3, SaveOfLoaded DEF Moves, Saves, vars, At, Stored

-------------------------------------------------------------------------------
\* The store for those who ask for their own, one at a time: agents that carry an
\* ID together with the proxy ID that the store has for it, or no agent ID.

RedisOwnRequests ==
    \A c \in Calls : At(c, "done") /\ call'[c].pc # "done" =>
        RedisPromise!AsksForItsOwn(call'[c].agent, call'[c].proxy)

\* The record that a registration is about to save is the one it found, or a new
\* one for an agent ID and a proxy ID that nobody has.
Found(k) ==
    /\ k.rec.agent \in RedisPromise!FoundFor(k.agent, k.proxy)
    /\ agentHash[k.rec.agent] = k.rec.proxy

Fresh(k) ==
    /\ k.agent = None /\ k.proxy \in {None, k.rec.proxy}
    /\ RedisPromise!FoundFor(None, k.proxy) = {}
    /\ agentHash[k.rec.agent] = None /\ proxyPtr[k.rec.proxy] = None

OwnCall(k) ==
    /\ k.pc # "done" => RedisPromise!AsksForItsOwn(k.agent, k.proxy)
    /\ k.op = "register" =>
          /\ k.pc \in {"nokey", "pointer", "hash"} => k.agent = None
          /\ k.pc = "save" => Found(k) \/ Fresh(k)

OwnInv == SerialInv /\ PointersCurrent /\ \A c \in Calls : OwnCall(call[c])

\* No step of a call changes its request.
SameRequest(c) ==
    /\ call'[c].op = call[c].op
    /\ call'[c].agent = call[c].agent /\ call'[c].proxy = call[c].proxy

\* Returning does not change the request.
LEMMA FinishKeeps ==
  ASSUME TypeOK, NEW c \in Calls, NEW ok \in BOOLEAN, Finish(c, ok)
  PROVE  SameRequest(c)
  BY TypesByCall DEF Finish, SameRequest, CallType

\* Nor does choosing the record to save.
LEMMA SaveNextKeeps ==
  ASSUME TypeOK, NEW c \in Calls, NEW x \in Agents, NEW q \in Proxies, SaveNext(c, x, q)
  PROVE  SameRequest(c)
  BY TypesByCall DEF SaveNext, SameRequest, CallType

\* Nor does following the pointer.
LEMMA FollowKeeps ==
  ASSUME TypeOK, NEW c \in Calls, NEW x \in Agents,
         call' = [call EXCEPT ![c].rec = [agent |-> x, proxy |-> None], ![c].pc = "hash"]
  PROVE  SameRequest(c)
  BY TypesByCall DEF SameRequest, CallType

\* Nor does going on to the pointer.
LEMMA TryKeeps ==
  ASSUME TypeOK, NEW c \in Calls, call' = [call EXCEPT ![c].pc = "pointer"]
  PROVE  SameRequest(c) /\ call'[c].pc = "pointer"
  BY TypesByCall DEF SameRequest, CallType

\* A call that is over, or has just saved its record, has nothing left to keep.
LEMMA DoneIsOwn ==
  ASSUME NEW c \in Calls, call'[c].pc = "done"
  PROVE  OwnCall(call'[c])
  BY DEF OwnCall

\* A new record: neither its agent nor its proxy is known.
LEMMA MissingOwn ==
  ASSUME OwnInv, NEW c \in Calls, ~At(c, "done"), Missing(c),
         Is(c, "register") => call[c].agent = None,
         call[c].proxy # None => proxyPtr[call[c].proxy] = None
  PROVE  OwnCall(call'[c])
<1>1. TypeOK /\ RecordsAreFound /\ OwnCall(call[c])
  BY DEF OwnInv, SerialInv, RedisInv
<1>2. CASE Is(c, "register")
  <2>1. PICK x \in FreshAgents,
             q \in (IF call[c].proxy = None THEN FreshProxies ELSE {call[c].proxy}) :
             SaveNext(c, x, q)
    BY <1>2 DEF Missing
  <2>2. /\ x \in Agents /\ agentHash[x] = None
        /\ q \in Proxies /\ proxyPtr[q] = None /\ call[c].proxy \in {None, q}
    BY <1>1, TypesByCall DEF FreshAgents, FreshProxies, Formed, CallType
  <2>3. /\ call'[c].pc = "save" /\ call'[c].rec = [agent |-> x, proxy |-> q]
        /\ SameRequest(c)
    BY <1>1, <2>1, <2>2, SaveNextForms, SaveNextKeeps
  <2>4. RedisPromise!FoundFor(None, call[c].proxy) = {}
    BY <1>1, <2>2, NoneAssumption DEF RedisPromise!FoundFor, RecordsAreFound
  <2>5. Fresh(call'[c])
    BY <1>2, <2>2, <2>3, <2>4 DEF Fresh, SameRequest
  <2> QED
    BY <1>1, <2>3, <2>5 DEF OwnCall, SameRequest, At
<1>3. CASE ~Is(c, "register")
  BY <1>1, <1>3, FinishForms, DoneIsOwn DEF Missing
<1> QED
  BY <1>2, <1>3

\* A record that was found.
LEMMA UseOwn ==
  ASSUME OwnInv, NEW c \in Calls, ~At(c, "done"),
         NEW x \in Agents, NEW q \in Proxies, Use(c, x, q), agentHash[x] = q,
         Is(c, "register") => x \in RedisPromise!FoundFor(call[c].agent, call[c].proxy)
  PROVE  OwnCall(call'[c])
<1>1. TypeOK /\ OwnCall(call[c])
  BY DEF OwnInv, SerialInv, RedisInv
<1>2. CASE Is(c, "get")
  <2>1. call[c] \in CallType
    BY <1>1, TypesByCall
  <2>2. call' = [call EXCEPT ![c] = [op |-> @.op, agent |-> @.agent, proxy |-> @.proxy,
                   pc |-> "done", rec |-> [agent |-> x, proxy |-> q], ok |-> TRUE]]
    BY <1>1, <1>2, <2>1, TypesByCall DEF Use, Answer, CallType
  <2>3. call'[c].pc = "done"
    BY <1>1, <2>2, TypesByCall
  <2> QED
    BY <2>3, DoneIsOwn
<1>3. CASE ~Is(c, "get") /\ Finish(c, FALSE)
  BY <1>1, <1>3, FinishForms, DoneIsOwn
<1>4. CASE ~Is(c, "get") /\ SaveNext(c, x, q)
  <2>1. /\ call'[c].pc = "save" /\ call'[c].rec = [agent |-> x, proxy |-> q]
        /\ SameRequest(c)
    BY <1>1, <1>4, SaveNextForms, SaveNextKeeps
  <2>2. Is(c, "register") => Found(call'[c])
    BY <2>1 DEF Found, SameRequest
  <2> QED
    BY <1>1, <2>1, <2>2 DEF OwnCall, SameRequest, At, Is
<1> QED
  BY <1>2, <1>3, <1>4 DEF Use

\* An operation that begins asks for its own.
LEMMA StartOwn ==
  ASSUME OwnInv, RedisOwnRequests, NEW c \in Calls, NEW op \in {"register", "touch", "get"},
         NEW a \in Agents \cup {None}, NEW p \in Proxies \cup {None}, Start(c, op, a, p)
  PROVE  OwnCall(call'[c]) /\ ~At(c, "save")
<1>1. call'[c] = [op |-> op, agent |-> a, proxy |-> p, rec |-> NoRecord, ok |-> FALSE,
                  pc |-> IF a # None THEN "agent" ELSE "nokey"]
  BY TypesByCall DEF Start, OwnInv, SerialInv, RedisInv
<1> QED
  BY <1>1 DEF Start, RedisOwnRequests, OwnCall, At

\* A request without an agent ID: on to its proxy, or a new record.
LEMMA NoAgentIDOwn ==
  ASSUME OwnInv, NEW c \in Calls, NoAgentID(c)
  PROVE  OwnCall(call'[c])
<1>1. TypeOK /\ OwnCall(call[c]) /\ ~At(c, "done") /\ (Is(c, "register") => call[c].agent = None)
  BY DEF OwnInv, SerialInv, RedisInv, OwnCall, NoAgentID, At, Is
<1>2. CASE call[c].proxy = None
  BY <1>1, <1>2, MissingOwn DEF NoAgentID, TryProxy
<1>3. CASE call[c].proxy # None
  <2>1. SameRequest(c) /\ call'[c].pc = "pointer"
    BY <1>1, <1>3, TryKeeps DEF NoAgentID, TryProxy
  <2> QED
    BY <1>1, <2>1 DEF OwnCall, SameRequest, At, Is
<1> QED
  BY <1>2, <1>3

\* The record of an agent ID that comes with its own proxy ID settles it.
LEMMA LoadAgentOwn ==
  ASSUME OwnInv, NEW c \in Calls, LoadAgent(c)
  PROVE  OwnCall(call'[c])
<1> DEFINE a == call[c].agent
           p == call[c].proxy
<1>1. /\ TypeOK /\ OwnCall(call[c]) /\ ~At(c, "done")
      /\ a \in Agents /\ p \in Proxies \cup {None}
  BY TypesByCall, NoneAssumption DEF OwnInv, SerialInv, RedisInv, LoadAgent, At, Formed, CallType
<1>2. p \in Proxies /\ p # None /\ agentHash[a] = p
  BY <1>1, NoneAssumption DEF OwnCall, At, RedisPromise!AsksForItsOwn
<1>3. Use(c, a, p)
  BY <1>2 DEF LoadAgent
<1>4. a \in RedisPromise!FoundFor(a, p)
  BY <1>1, <1>2, NoneAssumption DEF RedisPromise!FoundFor
<1> HIDE DEF a, p
<1> QED
  BY <1>1, <1>2, <1>3, <1>4, UseOwn DEF a, p

\* A proxy that is known leads to its agent; for one that is not a record is made.
LEMMA LoadPointerOwn ==
  ASSUME OwnInv, NEW c \in Calls, LoadPointer(c)
  PROVE  OwnCall(call'[c])
<1> DEFINE x == proxyPtr[call[c].proxy]
<1>1. /\ TypeOK /\ OwnCall(call[c]) /\ ~At(c, "done")
      /\ Is(c, "register") => call[c].agent = None
      /\ x \in Agents \cup {None}
  BY TypesByCall DEF OwnInv, SerialInv, RedisInv, OwnCall, LoadPointer, At, Is, Formed, CallType
<1>2. CASE x = None
  BY <1>1, <1>2, MissingOwn DEF LoadPointer
<1>3. CASE x # None
  <2>1. call' = [call EXCEPT ![c].rec = [agent |-> x, proxy |-> None], ![c].pc = "hash"]
    BY <1>3 DEF LoadPointer
  <2>2. x \in Agents /\ call[c].proxy # None
    BY <1>1, <1>3, TypesByCall DEF LoadPointer, At, Formed
  <2> HIDE DEF x
  <2>3. SameRequest(c) /\ call'[c].pc = "hash"
    BY <1>1, <2>1, <2>2, FollowKeeps, FollowForms
  <2> QED
    BY <1>1, <2>3 DEF OwnCall, SameRequest, At, Is
<1> QED
  BY <1>2, <1>3

\* The pointer was current, so that the hash has the proxy of the request.
LEMMA LoadHashOwn ==
  ASSUME OwnInv, NEW c \in Calls, LoadHash(c)
  PROVE  OwnCall(call'[c])
<1> DEFINE x == call[c].rec.agent
           p == call[c].proxy
<1>1. /\ TypeOK /\ OwnCall(call[c]) /\ ~At(c, "done")
      /\ Is(c, "register") => call[c].agent = None
      /\ x \in Agents /\ x # None /\ p \in Proxies /\ p # None
  BY TypesByCall, NoneAssumption
     DEF OwnInv, SerialInv, RedisInv, OwnCall, LoadHash, At, Is, Formed, CallType
<1>2. proxyPtr[p] = x
  BY DEF OwnInv, SerialInv, LoadsAreCurrent, LoadHash
<1>3. agentHash[x] = p
  BY <1>1, <1>2 DEF OwnInv, PointersCurrent
<1>4. Use(c, x, p)
  BY <1>1, <1>3 DEF LoadHash
<1>5. Is(c, "register") => x \in RedisPromise!FoundFor(call[c].agent, p)
  BY <1>1, <1>3, NoneAssumption DEF RedisPromise!FoundFor
<1> HIDE DEF x, p
<1> QED
  BY <1>1, <1>3, <1>4, <1>5, UseOwn DEF p

\* A step that leaves the store alone keeps what its call keeps.
LEMMA MovesKeepsOwn ==
  ASSUME OwnInv, NEW c \in Calls, Moves(c), OwnCall(call'[c])
  PROVE  PointersCurrent' /\ \A d \in Calls : OwnCall(call[d])'
<1>1. agentHash' = agentHash /\ proxyPtr' = proxyPtr
  BY DEF Moves, Stored
<1>2. PointersCurrent'
  BY <1>1 DEF OwnInv, PointersCurrent
<1>3. OwnCall(call[c])'
  BY <1>1 DEF OwnCall, Found, Fresh, RedisPromise!AsksForItsOwn, RedisPromise!FoundFor
<1>4. ASSUME NEW d \in Calls, d # c PROVE OwnCall(call[d])'
  <2>1. call'[d] = call[d] /\ OwnCall(call[d])
    BY <1>4 DEF Moves, OwnInv
  <2> QED
    BY <1>1, <2>1 DEF OwnCall, Found, Fresh, RedisPromise!AsksForItsOwn, RedisPromise!FoundFor
<1> QED
  BY <1>2, <1>3, <1>4

\* The save is the step in which the registration happens: it resumes or creates.
LEMMA SaveOwn ==
  ASSUME InTurns, OwnInv, NEW c \in Calls, Save(c) \/ SaveFails(c)
  PROVE  PointersCurrent' /\ (\A d \in Calls : OwnCall(call[d])') /\ RedisKeepsPromise
<1> DEFINE x == call[c].rec.agent
           q == call[c].rec.proxy
<1>1. /\ TypeOK /\ PointersResolve /\ RecordsAreFound /\ OwnCall(call[c]) /\ SerialInv
      /\ At(c, "save") /\ Saves(c)
  BY SaveSaves DEF OwnInv, SerialInv, RedisInv, Save, SaveFails
<1>2. /\ agentHash \in [Agents -> Proxies \cup {None}]
      /\ proxyPtr \in [Proxies -> Agents \cup {None}]
      /\ x \in Agents /\ q \in Proxies /\ x # None /\ q # None
      /\ call[c].proxy \in Proxies \cup {None}
  BY <1>1, TypesByCall DEF At, Formed, CallType
<1>3. /\ call'[c].pc \in {"done", "config"}
      /\ SameRequest(c)
      /\ call'[c].pc = "config" => Is(c, "register") /\ Store(call[c].rec)
  <2>1. CASE Save(c) /\ Is(c, "register")
    <3>1. call' = [call EXCEPT ![c].pc = "config"] /\ Store(call[c].rec)
      BY <2>1 DEF Save
    <3> QED
      BY <1>1, <2>1, <3>1, TypesByCall DEF SameRequest, CallType
  <2>2. CASE \E ok \in BOOLEAN : Finish(c, ok)
    BY <1>1, <2>2, FinishForms, FinishKeeps
  <2> QED
    BY <2>1, <2>2 DEF Save, SaveFails
<1>10. \A d \in Calls : d # c => call[d].pc = "done" /\ call'[d].pc = "done"
  BY <1>1 DEF InTurns, Saves, At
<1>11. \A d \in Calls : d # c => OwnCall(call[d])'
  BY <1>10 DEF OwnCall
<1>12. (At(c, "save") /\ call'[c].pc = "config" => Registers(c)) =>
          \A d \in Calls : At(d, "save") /\ call'[d].pc = "config" => Registers(d)
  BY <1>10
<1>4. ASSUME UNCHANGED Stored PROVE PointersCurrent' /\ \A d \in Calls : OwnCall(call[d])'
  <2>1. OwnCall(call'[c])
    BY <1>1, <1>3 DEF OwnCall, SameRequest, At
  <2>2. Moves(c)
    BY <1>1, <1>4 DEF Moves, Saves
  <2> QED
    BY <2>1, <2>2, MovesKeepsOwn
<1>5. CASE UNCHANGED Stored /\ call'[c].pc # "config"
  BY <1>4, <1>5, <1>12 DEF RedisKeepsPromise, Stored
<1>6. CASE Store(call[c].rec) /\ agentHash[x] = q
  <2>1. UNCHANGED Stored
    BY <1>1, <1>6, SaveOfLoaded
  <2>2. Is(c, "register") => Found(call[c])
    BY <1>1, <1>2, <1>6 DEF OwnCall, At, Is, Fresh
  <2>3. Is(c, "register") => Registers(c)
    BY <1>1, <2>1, <2>2 DEF Registers, RedisPromise!Binds, RedisPromise!Resume, Found, Stored
  <2> QED
    BY <1>3, <1>4, <1>12, <2>1, <2>3 DEF RedisKeepsPromise, Stored
<1>7. CASE Store(call[c].rec) /\ agentHash[x] # q
  <2>1. Is(c, "register")
    BY <1>1, <1>7 DEF SerialInv, LoadsAreCurrent
  <2>2. Fresh(call[c])
    BY <1>1, <1>7, <2>1 DEF OwnCall, At, Is, Found
  <2>3. /\ call[c].agent = None /\ call[c].proxy \in {None, q}
        /\ RedisPromise!FoundFor(None, call[c].proxy) = {}
        /\ agentHash[x] = None /\ proxyPtr[q] = None
    BY <2>2 DEF Fresh
  <2>4. /\ agentHash' = [agentHash EXCEPT ![x] = q]
        /\ proxyPtr' = [proxyPtr EXCEPT ![q] = x]
    BY <1>7 DEF Store
  <2> HIDE DEF x, q
  <2>5. \A y \in Agents : agentHash[y] # q
    BY <1>1, <1>2, <2>3 DEF RecordsAreFound
  <2>6. RedisPromise!Create(call[c].agent, call[c].proxy, x, q)
    <3>1. q \in (IF call[c].proxy = None
                  THEN {r \in Proxies : \A y \in Agents : agentHash[y] # r} ELSE {call[c].proxy})
      BY <1>2, <2>3, <2>5
    <3>2. x \in (IF call[c].agent = None THEN {y \in Agents : agentHash[y] = None}
                  ELSE {call[c].agent})
      BY <1>2, <2>3
    <3> QED
      BY <2>3, <2>4, <3>1, <3>2 DEF RedisPromise!Create
  <2>7. Registers(c)
    BY <1>1, <2>1, <2>6 DEF Registers, RedisPromise!Binds, x, q
  <2>8. PointersCurrent'
    BY <1>1, <1>2, <2>3, <2>4 DEF OwnInv, PointersCurrent, PointersResolve
  <2>9. OwnCall(call[c])'
    BY <1>3, <2>3 DEF OwnCall, SameRequest, RedisPromise!AsksForItsOwn
  <2> QED
    BY <1>11, <1>12, <2>7, <2>8, <2>9 DEF RedisKeepsPromise
<1> QED
  BY <1>1, <1>3, <1>5, <1>6, <1>7 DEF Saves

\* Every step of an operation in its turn, by a request of an agent's own.
LEMMA RedisOwnStep ==
  ASSUME InTurns, OwnInv, Next, RedisOwnRequests
  PROVE  OwnInv' /\ RedisKeepsPromise
<1> DEFINE Goal == PointersCurrent' /\ (\A d \in Calls : OwnCall(call[d])') /\ RedisKeepsPromise
<1>1. SerialInv'
  BY SerialStep DEF OwnInv
<1>10. TypeOK /\ PointersResolve
  BY DEF OwnInv, SerialInv, RedisInv
<1>2. ASSUME NEW c \in Calls, Moves(c), OwnCall(call'[c]), ~At(c, "save") PROVE Goal
  <2>1. \A d \in Calls : ~(At(d, "save") /\ call'[d].pc = "config")
    BY <1>2 DEF Moves, At
  <2> QED
    BY <1>2, <2>1, MovesKeepsOwn DEF RedisKeepsPromise, Moves, Stored
<1>3. ASSUME NEW c \in Calls, NEW op \in {"register", "touch", "get"},
             NEW a \in Agents \cup {None}, NEW p \in Proxies \cup {None}, Start(c, op, a, p)
      PROVE  Goal
  BY <1>2, <1>3, <1>10, StartOwn, StartMoves
<1>4. ASSUME NEW c \in Calls, NoAgentID(c) PROVE Goal
  BY <1>2, <1>4, <1>10, NoAgentIDOwn, NoAgentIDMoves DEF NoAgentID, At
<1>5. ASSUME NEW c \in Calls, LoadAgent(c) PROVE Goal
  BY <1>2, <1>5, <1>10, LoadAgentOwn, LoadAgentMoves DEF LoadAgent, At
<1>6. ASSUME NEW c \in Calls, LoadPointer(c) PROVE Goal
  BY <1>2, <1>6, <1>10, LoadPointerOwn, LoadPointerMoves DEF LoadPointer, At
<1>7. ASSUME NEW c \in Calls, LoadHash(c) PROVE Goal
  BY <1>2, <1>7, <1>10, LoadHashOwn, LoadHashMoves DEF LoadHash, At
<1>8. ASSUME NEW c \in Calls, LoadFails(c) \/ EnsureConfig(c) PROVE Goal
  <2>1. Moves(c) /\ OwnCall(call'[c])
    BY <1>8, <1>10, LoadFailsMoves, EnsureConfigMoves, DoneIsOwn
  <2> QED
    BY <1>2, <1>8, <2>1 DEF LoadFails, EnsureConfig, At
<1>9. ASSUME NEW c \in Calls, Save(c) \/ SaveFails(c) PROVE Goal
  BY <1>9, SaveOwn
<1> QED
  BY <1>1, <1>3, <1>4, <1>5, <1>6, <1>7, <1>8, <1>9 DEF Next, OwnInv

\* A step that leaves the Redis store alone leaves this alone.
LEMMA OwnStutters == OwnInv /\ UNCHANGED vars => OwnInv'
<1> SUFFICES ASSUME OwnInv, UNCHANGED vars PROVE OwnInv'
  OBVIOUS
<1>1. SerialInv'
  BY DEF vars, OwnInv, SerialInv, RedisInv, TypeOK, PointersResolve, RecordsAreFound,
         OneAgentPerProxy, LoadsAreCurrent, At, Is
<1>2. PointersCurrent' /\ \A c \in Calls : OwnCall(call[c])'
  BY DEF vars, OwnInv, PointersCurrent, OwnCall, Found, Fresh,
         RedisPromise!AsksForItsOwn, RedisPromise!FoundFor
<1> QED
  BY <1>1, <1>2 DEF OwnInv

\* If operations take turns and everybody asks for its own, each registration that is
\* saved is a step of AgentBindings, and nothing else binds an agent to a proxy, whatever
\* fails in between.
THEOREM RedisImplementsBindings ==
  Spec /\ []InTurns /\ [][RedisOwnRequests]_vars => [][RedisKeepsPromise]_vars
<1>1. Init => OwnInv
  BY RedisInitially DEF Init, OwnInv, PointersCurrent, OwnCall, NoCall
<1>2. InTurns /\ OwnInv /\ [Next]_vars /\ [RedisOwnRequests]_vars
        => OwnInv' /\ [RedisKeepsPromise]_vars
  BY RedisOwnStep, OwnStutters
<1> QED
  BY <1>1, <1>2, PTL DEF Spec

-------------------------------------------------------------------------------
\* The store for those who ask for their own, any number of them at once.

\* A hash that a call relies on is there, and the record it is about to save has
\* either that proxy already or an agent that has none.
Honest(k) ==
    /\ k.pc # "done" => RedisPromise!AsksForItsOwn(k.agent, k.proxy)
    /\ k.pc \in {"nokey", "pointer", "hash"} => k.agent = None
    /\ k.pc = "hash" => agentHash[k.rec.agent] # None
    /\ k.pc = "save" => agentHash[k.rec.agent] \in {None, k.rec.proxy}

\* No two operations are about to make records of one agent.
NewAreApart ==
    \A c, d \in Calls :
        /\ c # d /\ ~At(c, "done") /\ ~At(d, "done")
        /\ call[c].rec.agent # None /\ call[c].rec.agent = call[d].rec.agent
        => agentHash[call[c].rec.agent] # None

HonestInv == RedisInv /\ PointersCurrent /\ (\A c \in Calls : Honest(call[c])) /\ NewAreApart

\* The agent of the record that a call takes up has a record, or is nobody else's.
StoredOrOwn(c) ==
    call'[c].pc # "done" /\ call'[c].rec.agent # None =>
        \/ agentHash[call'[c].rec.agent] # None
        \/ \A d \in Calls : d # c /\ ~At(d, "done") => call[d].rec.agent # call'[c].rec.agent

\* A call that is over has nothing left to keep.
LEMMA DoneIsHonest ==
  ASSUME NEW c \in Calls, call'[c].pc = "done"
  PROVE  Honest(call'[c]) /\ StoredOrOwn(c)
  BY DEF Honest, StoredOrOwn

\* A new record is one of an agent that no other operation has in hand.
LEMMA MissingHonest ==
  ASSUME HonestInv, NEW c \in Calls, ~At(c, "done"), Missing(c), call[c].agent = None
  PROVE  Honest(call'[c]) /\ StoredOrOwn(c)
<1>1. TypeOK /\ Honest(call[c])
  BY DEF HonestInv, RedisInv
<1>2. CASE Is(c, "register")
  <2>1. PICK x \in FreshAgents,
             q \in (IF call[c].proxy = None THEN FreshProxies ELSE {call[c].proxy}) :
             SaveNext(c, x, q)
    BY <1>2 DEF Missing
  <2>2. /\ x \in Agents /\ agentHash[x] = None /\ q \in Proxies
        /\ \A d \in Calls : ~At(d, "done") => call[d].rec.agent # x
    BY <1>1, TypesByCall DEF FreshAgents, FreshProxies, InUse, Formed, CallType
  <2>3. /\ call'[c].pc = "save" /\ call'[c].rec = [agent |-> x, proxy |-> q]
        /\ SameRequest(c)
    BY <1>1, <2>1, <2>2, SaveNextForms, SaveNextKeeps
  <2> QED
    BY <1>1, <2>2, <2>3 DEF Honest, StoredOrOwn, SameRequest, At
<1>3. CASE ~Is(c, "register")
  BY <1>1, <1>3, FinishForms, DoneIsHonest DEF Missing
<1> QED
  BY <1>2, <1>3

\* A record that was found is saved again as it is.
LEMMA UseHonest ==
  ASSUME HonestInv, NEW c \in Calls, ~At(c, "done"),
         NEW x \in Agents, NEW q \in Proxies, Use(c, x, q), agentHash[x] = q
  PROVE  Honest(call'[c]) /\ StoredOrOwn(c)
<1>1. TypeOK /\ Honest(call[c])
  BY DEF HonestInv, RedisInv
<1>2. CASE call'[c].pc = "done"
  BY <1>2, DoneIsHonest
<1>3. CASE call'[c].pc # "done"
  <2>1. call'[c].pc = "save" /\ call'[c].rec = [agent |-> x, proxy |-> q]
    BY <1>1, <1>3, UseForms
  <2>2. SaveNext(c, x, q)
    <3>1. CASE Is(c, "get")
      <4>1. call[c] \in CallType
        BY <1>1, TypesByCall
      <4>2. call' = [call EXCEPT ![c] = [op |-> @.op, agent |-> @.agent, proxy |-> @.proxy,
                       pc |-> "done", rec |-> [agent |-> x, proxy |-> q], ok |-> TRUE]]
        BY <1>1, <3>1, <4>1, TypesByCall DEF Use, Answer, CallType
      <4> QED
        BY <1>1, <1>3, <4>2, TypesByCall
    <3>2. CASE ~Is(c, "get") /\ Finish(c, FALSE)
      BY <1>1, <1>3, <3>2, FinishForms
    <3> QED
      BY <3>1, <3>2 DEF Use
  <2>3. SameRequest(c)
    BY <1>1, <2>2, SaveNextKeeps
  <2> QED
    BY <1>1, <2>1, <2>3, NoneAssumption DEF Honest, StoredOrOwn, SameRequest, At
<1> QED
  BY <1>2, <1>3

\* An operation that begins asks for its own.
LEMMA StartHonest ==
  ASSUME HonestInv, RedisOwnRequests, NEW c \in Calls, NEW op \in {"register", "touch", "get"},
         NEW a \in Agents \cup {None}, NEW p \in Proxies \cup {None}, Start(c, op, a, p)
  PROVE  Honest(call'[c]) /\ StoredOrOwn(c)
<1>1. call'[c] = [op |-> op, agent |-> a, proxy |-> p, rec |-> NoRecord, ok |-> FALSE,
                  pc |-> IF a # None THEN "agent" ELSE "nokey"]
  BY TypesByCall DEF Start, HonestInv, RedisInv
<1> QED
  BY <1>1 DEF Start, RedisOwnRequests, Honest, StoredOrOwn, NoRecord, At

\* A request without an agent ID: on to its proxy, or a new record.
LEMMA NoAgentIDHonest ==
  ASSUME HonestInv, NEW c \in Calls, NoAgentID(c)
  PROVE  Honest(call'[c]) /\ StoredOrOwn(c)
<1>1. TypeOK /\ Honest(call[c]) /\ ~At(c, "done") /\ call[c].agent = None
  BY DEF HonestInv, RedisInv, Honest, NoAgentID, At
<1>2. CASE call[c].proxy = None
  BY <1>1, <1>2, MissingHonest DEF NoAgentID, TryProxy
<1>3. CASE call[c].proxy # None
  <2>1. call' = [call EXCEPT ![c].pc = "pointer"]
    BY <1>3 DEF NoAgentID, TryProxy
  <2>2. call'[c].rec = call[c].rec
    BY <1>1, <2>1, TypesByCall DEF CallType
  <2>3. SameRequest(c) /\ call'[c].pc = "pointer" /\ call'[c].rec = call[c].rec
    BY <1>1, <2>1, <2>2, TryKeeps
  <2>4. Honest(call'[c])
    BY <1>1, <2>3 DEF Honest, SameRequest, At
  <2>5. StoredOrOwn(c)
    BY <1>1, <2>3 DEF HonestInv, NewAreApart, StoredOrOwn, At
  <2> QED
    BY <2>4, <2>5
<1> QED
  BY <1>2, <1>3

\* The record of an agent ID that comes with its own proxy ID settles it.
LEMMA LoadAgentHonest ==
  ASSUME HonestInv, NEW c \in Calls, LoadAgent(c)
  PROVE  Honest(call'[c]) /\ StoredOrOwn(c)
<1> DEFINE a == call[c].agent
           p == call[c].proxy
<1>1. /\ TypeOK /\ Honest(call[c]) /\ ~At(c, "done")
      /\ a \in Agents /\ p \in Proxies \cup {None}
  BY TypesByCall, NoneAssumption DEF HonestInv, RedisInv, LoadAgent, At, Formed, CallType
<1>2. p \in Proxies /\ p # None /\ agentHash[a] = p
  BY <1>1, NoneAssumption DEF Honest, At, RedisPromise!AsksForItsOwn
<1>3. Use(c, a, p)
  BY <1>2 DEF LoadAgent
<1> HIDE DEF a, p
<1> QED
  BY <1>1, <1>2, <1>3, UseHonest

\* A pointer that is there leads to a record.
LEMMA LoadPointerHonest ==
  ASSUME HonestInv, NEW c \in Calls, LoadPointer(c)
  PROVE  Honest(call'[c]) /\ StoredOrOwn(c)
<1> DEFINE x == proxyPtr[call[c].proxy]
<1>1. /\ TypeOK /\ PointersResolve /\ Honest(call[c]) /\ ~At(c, "done")
      /\ call[c].agent = None
      /\ call[c].proxy \in Proxies /\ x \in Agents \cup {None}
  BY TypesByCall DEF HonestInv, RedisInv, Honest, LoadPointer, At, Formed, CallType
<1>2. CASE x = None
  BY <1>1, <1>2, MissingHonest DEF LoadPointer
<1>3. CASE x # None
  <2>1. call' = [call EXCEPT ![c].rec = [agent |-> x, proxy |-> None], ![c].pc = "hash"]
    BY <1>3 DEF LoadPointer
  <2>2. x \in Agents /\ call[c].proxy # None /\ agentHash[x] # None
    BY <1>1, <1>3, NoneAssumption DEF PointersResolve
  <2> HIDE DEF x
  <2>3. SameRequest(c) /\ call'[c].pc = "hash" /\ call'[c].rec.agent = x
    BY <1>1, <2>1, <2>2, FollowKeeps, FollowForms
  <2> QED
    BY <1>1, <2>2, <2>3 DEF Honest, StoredOrOwn, SameRequest, At
<1> QED
  BY <1>2, <1>3

\* The hash that the pointer led to is still there.
LEMMA LoadHashHonest ==
  ASSUME HonestInv, NEW c \in Calls, LoadHash(c)
  PROVE  Honest(call'[c]) /\ StoredOrOwn(c)
<1> DEFINE x == call[c].rec.agent
           q == agentHash[x]
<1>1. TypeOK /\ Honest(call[c]) /\ ~At(c, "done") /\ x \in Agents
  BY TypesByCall DEF HonestInv, RedisInv, LoadHash, At, Formed, CallType
<1>2. q \in Proxies /\ q # None
  BY <1>1, TypesByCall DEF Honest, LoadHash, At
<1>3. Use(c, x, q)
  BY <1>2 DEF LoadHash
<1> HIDE DEF x
<1> QED
  BY <1>1, <1>2, <1>3, UseHonest

\* A step that leaves the store alone.
LEMMA MovesKeepsHonest ==
  ASSUME HonestInv, NEW c \in Calls, Moves(c), Honest(call'[c]), StoredOrOwn(c)
  PROVE  HonestInv'
<1>1. RedisInv'
  BY MovesKeepsInv DEF HonestInv
<1>2. agentHash' = agentHash /\ proxyPtr' = proxyPtr
  BY DEF Moves, Stored
<1>3. PointersCurrent'
  BY <1>2 DEF HonestInv, PointersCurrent
<1>4. \A d \in Calls : Honest(call[d])'
  <2>1. Honest(call[c])'
    BY <1>2 DEF Honest, RedisPromise!AsksForItsOwn
  <2>2. ASSUME NEW d \in Calls, d # c PROVE Honest(call[d])'
    <3>1. call'[d] = call[d] /\ Honest(call[d])
      BY <2>2 DEF Moves, HonestInv
    <3> QED
      BY <1>2, <3>1 DEF Honest, RedisPromise!AsksForItsOwn
  <2> QED
    BY <2>1, <2>2
<1>5. NewAreApart'
  <2> SUFFICES ASSUME NEW d \in Calls, NEW e \in Calls, d # e,
                      call'[d].pc # "done", call'[e].pc # "done",
                      call'[d].rec.agent # None, call'[d].rec.agent = call'[e].rec.agent
               PROVE  agentHash[call'[d].rec.agent] # None
    BY <1>2 DEF NewAreApart, At
  <2>1. CASE d # c /\ e # c
    BY <2>1 DEF Moves, HonestInv, NewAreApart, At
  <2>2. CASE d = c
    BY <2>2 DEF Moves, StoredOrOwn, At
  <2>3. CASE e = c
    BY <2>3 DEF Moves, StoredOrOwn, At
  <2> QED
    BY <2>1, <2>2, <2>3
<1> QED
  BY <1>1, <1>3, <1>4, <1>5 DEF HonestInv

\* Nothing of a call but its progress changes with its save.
LEMMA SaveLeaves ==
  ASSUME TypeOK, NEW c \in Calls, Save(c) \/ SaveFails(c)
  PROVE  SameRequest(c) /\ call'[c].rec = call[c].rec
<1>1. CASE call' = [call EXCEPT ![c].pc = "config"]
  BY <1>1, TypesByCall DEF SameRequest, CallType
<1>2. CASE \E ok \in BOOLEAN : Finish(c, ok)
  BY <1>2, TypesByCall DEF Finish, SameRequest, CallType
<1> QED
  BY <1>1, <1>2 DEF Save, SaveFails

\* A save gives a proxy to an agent without one, or leaves the store as it is.
LEMMA SaveHonest ==
  ASSUME HonestInv, NEW c \in Calls, Save(c) \/ SaveFails(c)
  PROVE  HonestInv'
<1> DEFINE x == call[c].rec.agent
           q == call[c].rec.proxy
<1>1. TypeOK /\ RedisInv /\ Saves(c) /\ SameRequest(c) /\ call'[c].rec = call[c].rec
  BY SaveSaves, SaveLeaves DEF HonestInv, RedisInv
<1>2. RedisInv'
  BY <1>1, SavesKeepsInv
<1>3. /\ agentHash \in [Agents -> Proxies \cup {None}]
      /\ proxyPtr \in [Proxies -> Agents \cup {None}]
      /\ x \in Agents /\ q \in Proxies /\ x # None /\ q # None
      /\ agentHash[x] \in {None, q}
      /\ \A d \in Calls : Formed(call[d])
  BY <1>1, TypesByCall, NoneAssumption DEF Saves, At, Formed, CallType, HonestInv, Honest
<1>4. \/ /\ agentHash' = [agentHash EXCEPT ![x] = q]
         /\ proxyPtr' = [proxyPtr EXCEPT ![q] = x]
      \/ agentHash' = agentHash /\ proxyPtr' = proxyPtr
  BY <1>1 DEF Saves, Store, Stored
<1>5. /\ call'[c].pc \in {"done", "config"}
      /\ \A d \in Calls : d # c => call'[d] = call[d]
  BY <1>1 DEF Saves
<1> HIDE DEF x, q
<1>6. \A y \in Agents : agentHash[y] # None => agentHash'[y] = agentHash[y]
  BY <1>3, <1>4
<1>7. PointersCurrent'
  BY <1>1, <1>3, <1>4 DEF HonestInv, PointersCurrent, RedisInv, PointersResolve
<1>8. ASSUME NEW d \in Calls PROVE Honest(call[d])'
  <2>1. Honest(call[d]) /\ Formed(call[d])
    BY <1>3 DEF HonestInv
  <2>2. call[d].pc # "done" /\ call[d].agent # None =>
            call[d].proxy # None /\ agentHash'[call[d].agent] = call[d].proxy
    BY <1>6, <2>1, NoneAssumption DEF Honest, RedisPromise!AsksForItsOwn, Formed, CallType
  <2>3. CASE d = c
    BY <1>1, <1>5, <2>1, <2>2, <2>3
       DEF Honest, SameRequest, Saves, At, RedisPromise!AsksForItsOwn
  <2>4. CASE d # c
    <3>1. call'[d] = call[d]
      BY <1>5, <2>4
    <3>2. call[d].pc = "save" /\ agentHash'[call[d].rec.agent] # agentHash[call[d].rec.agent]
             => FALSE
      <4> SUFFICES ASSUME call[d].pc = "save",
                          agentHash'[call[d].rec.agent] # agentHash[call[d].rec.agent]
                   PROVE  FALSE
        OBVIOUS
      <4>1. call[d].rec.agent \in Agents /\ call[d].rec.agent # None
        BY <2>1, NoneAssumption DEF Formed, CallType
      <4>2. call[d].rec.agent = x /\ agentHash[x] = None
        BY <1>3, <1>4, <1>6, <4>1
      <4>3. ~At(c, "done") /\ ~At(d, "done")
        BY <1>1 DEF Saves, At
      <4> QED
        BY <2>4, <4>1, <4>2, <4>3 DEF HonestInv, NewAreApart, x
    <3>3. call[d].pc = "hash" => agentHash'[call[d].rec.agent] # None
      <4> SUFFICES ASSUME call[d].pc = "hash" PROVE agentHash'[call[d].rec.agent] # None
        OBVIOUS
      <4>1. call[d].rec.agent \in Agents /\ agentHash[call[d].rec.agent] # None
        BY <2>1, NoneAssumption DEF Honest, Formed, CallType
      <4> QED
        BY <1>6, <4>1
    <3>4. call[d].pc = "save" => agentHash'[call[d].rec.agent] \in {None, call[d].rec.proxy}
      BY <2>1, <3>2 DEF Honest
    <3> QED
      BY <2>1, <2>2, <3>1, <3>3, <3>4 DEF Honest, RedisPromise!AsksForItsOwn
  <2> QED
    BY <2>3, <2>4
<1>9. NewAreApart'
  <2> SUFFICES ASSUME NEW d \in Calls, NEW e \in Calls, d # e,
                      call'[d].pc # "done", call'[e].pc # "done",
                      call'[d].rec.agent # None, call'[d].rec.agent = call'[e].rec.agent
               PROVE  agentHash'[call'[d].rec.agent] # None
    BY DEF NewAreApart, At
  <2>1. \A g \in Calls : call'[g].rec = call[g].rec /\ (call'[g].pc # "done" => ~At(g, "done"))
    BY <1>1, <1>5 DEF Saves, At
  <2>2. agentHash[call[d].rec.agent] # None /\ call[d].rec.agent \in Agents
    BY <1>3, <2>1 DEF HonestInv, NewAreApart, Formed, CallType
  <2> QED
    BY <1>6, <2>1, <2>2
<1> QED
  BY <1>2, <1>7, <1>8, <1>9 DEF HonestInv

\* Every step, however many operations are in progress.
LEMMA HonestStep == HonestInv /\ [Next]_vars /\ (Next => RedisOwnRequests) => HonestInv'
<1> SUFFICES ASSUME HonestInv, [Next]_vars, Next => RedisOwnRequests PROVE HonestInv'
  OBVIOUS
<1>1. TypeOK /\ PointersResolve
  BY DEF HonestInv, RedisInv
<1>2. ASSUME NEW c \in Calls, NEW op \in {"register", "touch", "get"},
             NEW a \in Agents \cup {None}, NEW p \in Proxies \cup {None}, Start(c, op, a, p)
      PROVE  HonestInv'
  BY <1>1, <1>2, StartHonest, StartMoves, MovesKeepsHonest DEF Next
<1>3. ASSUME NEW c \in Calls, NoAgentID(c) PROVE HonestInv'
  BY <1>1, <1>3, NoAgentIDHonest, NoAgentIDMoves, MovesKeepsHonest
<1>4. ASSUME NEW c \in Calls, LoadAgent(c) PROVE HonestInv'
  BY <1>1, <1>4, LoadAgentHonest, LoadAgentMoves, MovesKeepsHonest
<1>5. ASSUME NEW c \in Calls, LoadPointer(c) PROVE HonestInv'
  BY <1>1, <1>5, LoadPointerHonest, LoadPointerMoves, MovesKeepsHonest
<1>6. ASSUME NEW c \in Calls, LoadHash(c) PROVE HonestInv'
  BY <1>1, <1>6, LoadHashHonest, LoadHashMoves, MovesKeepsHonest
<1>7. ASSUME NEW c \in Calls, LoadFails(c) \/ EnsureConfig(c) PROVE HonestInv'
  BY <1>1, <1>7, LoadFailsMoves, EnsureConfigMoves, DoneIsHonest, MovesKeepsHonest
<1>8. ASSUME NEW c \in Calls, Save(c) \/ SaveFails(c) PROVE HonestInv'
  BY <1>8, SaveHonest
<1>9. CASE UNCHANGED vars
  <2>1. RedisInv'
    BY <1>9, RedisStep DEF HonestInv
  <2> QED
    BY <1>9, <2>1 DEF vars, HonestInv, PointersCurrent, Honest, NewAreApart, At,
                      RedisPromise!AsksForItsOwn
<1> QED
  BY <1>2, <1>3, <1>4, <1>5, <1>6, <1>7, <1>8, <1>9 DEF Next

-------------------------------------------------------------------------------
(* The composition: one server with either store, and what its operations did so far. *)

\* What holds of the operations so far: in turns, and the agents' own.
StoresInv ==
    /\ MemoryInv /\ RedisInv
    /\ ~overlapped => InTurns /\ SerialInv
    /\ ~foreign => AllListed /\ HonestInv
    /\ ~overlapped /\ ~foreign => OwnInv

\* A server starts with an empty store and no operation.
LEMMA StoresInitially == StoresInit => StoresInv
<1> SUFFICES ASSUME StoresInit PROVE StoresInv
  OBVIOUS
<1>1. MemoryInit /\ Init
  BY DEF StoresInit
<1>2. MemoryInv /\ SerialInv
  BY <1>1, MemoryInitially, RedisInitially
<1>3. InTurns
  BY <1>1 DEF Init, InTurns, At, NoCall
<1>4. AllListed /\ OwnInv
  BY <1>1, <1>2 DEF MemoryInit, AllListed, Init, OwnInv, PointersCurrent, OwnCall, NoCall
<1>5. HonestInv
  BY <1>1, <1>2 DEF Init, HonestInv, SerialInv, PointersCurrent, Honest, NewAreApart, NoCall, At
<1> QED
  BY <1>2, <1>3, <1>4, <1>5 DEF StoresInv, SerialInv

\* What the history variables say of a step.
LEMMA HistoryStep ==
  ASSUME StoresNext
  PROVE  /\ ~overlapped' => ~overlapped /\ InTurns'
         /\ ~foreign' => ~foreign /\ MemoryOwnRequest /\ RedisOwnRequests
         /\ backend = "memory" => MemoryNext /\ UNCHANGED vars
         /\ backend # "memory" => backend = "redis" /\ Next /\ UNCHANGED memoryVars
<1>1. ~overlapped' => ~overlapped /\ ~\E c, d \in Calls :
                         c # d /\ call'[c].pc # "done" /\ call'[d].pc # "done"
  BY DEF StoresNext
<1>2. ~overlapped' => ~overlapped /\ InTurns'
  BY <1>1 DEF InTurns, At
<1>3. ~foreign' => ~foreign /\ OwnRequest
  BY DEF StoresNext
<1>4. OwnRequest => MemoryOwnRequest /\ RedisOwnRequests
  BY DEF OwnRequest, MemoryOwnRequest, RedisOwnRequests, Begins
<1>5. \/ backend = "memory" /\ MemoryNext /\ UNCHANGED vars
      \/ backend = "redis" /\ Next /\ UNCHANGED memoryVars
  BY DEF StoresNext
<1> QED
  BY <1>2, <1>3, <1>4, <1>5

\* Each store keeps what it keeps, and does for the agents what it promises.
LEMMA StoresStep ==
  ASSUME StoresInv, StoresNext
  PROVE  /\ StoresInv'
         /\ ~overlapped' /\ ~foreign' =>
               IF backend = "redis" THEN RedisKeepsPromise ELSE MemoryKeepsPromise
<1>1. /\ ~overlapped' => ~overlapped /\ InTurns'
      /\ ~foreign' => ~foreign /\ MemoryOwnRequest /\ RedisOwnRequests
  BY HistoryStep
<1>2. CASE backend = "memory"
  <2>1. MemoryNext /\ UNCHANGED vars
    BY <1>2, HistoryStep
  <2>2. MemoryInv' /\ RedisInv'
    BY <2>1, MemoryStep, RedisStep DEF StoresInv
  <2>3. ~overlapped' => SerialInv'
    BY <1>1, <2>1, SerialStep DEF StoresInv
  <2>4. ~foreign' => AllListed' /\ MemoryKeepsPromise
    BY <1>1, <2>1, MemoryOwnStep DEF StoresInv
  <2>5. ~overlapped' /\ ~foreign' => OwnInv'
    BY <1>1, <2>1, OwnStutters DEF StoresInv
  <2>6. ~foreign' => HonestInv'
    BY <1>1, <2>1, HonestStep DEF StoresInv
  <2> QED
    BY <1>1, <1>2, <2>2, <2>3, <2>4, <2>5, <2>6 DEF StoresInv
<1>3. CASE backend # "memory"
  <2>1. Next /\ UNCHANGED memoryVars
    BY <1>3, HistoryStep
  <2>2. MemoryInv' /\ RedisInv'
    BY <2>1, MemoryStep, RedisStep DEF StoresInv
  <2>3. ~overlapped' => SerialInv'
    BY <1>1, <2>1, SerialStep DEF StoresInv
  <2>4. ~overlapped' /\ ~foreign' => OwnInv' /\ RedisKeepsPromise
    BY <1>1, <2>1, RedisOwnStep DEF StoresInv
  <2>5. ~foreign' => AllListed'
    BY <1>1, <2>1 DEF StoresInv, memoryVars, AllListed
  <2>6. ~foreign' => HonestInv'
    BY <1>1, <2>1, HonestStep DEF StoresInv
  <2>7. backend = "redis"
    BY <1>3, HistoryStep
  <2> QED
    BY <1>1, <2>2, <2>3, <2>4, <2>5, <2>6, <2>7 DEF StoresInv
<1> QED
  BY <1>2, <1>3

\* Stuttering.
LEMMA StoresStutter == StoresInv /\ UNCHANGED allVars => StoresInv'
<1> SUFFICES ASSUME StoresInv, UNCHANGED allVars PROVE StoresInv'
  OBVIOUS
<1>1. UNCHANGED <<memoryVars, vars, backend, overlapped, foreign>>
  BY DEF allVars
<1>2. MemoryInv' /\ RedisInv'
  BY <1>1, MemoryStep, RedisStep DEF StoresInv
<1>3. InTurns => InTurns'
  BY <1>1 DEF vars, InTurns, At
<1>4. ~overlapped => SerialInv'
  BY <1>1, SerialStep DEF StoresInv
<1>5. ~overlapped /\ ~foreign => OwnInv'
  BY <1>1, OwnStutters DEF StoresInv
<1>6. ~foreign => AllListed'
  BY <1>1 DEF StoresInv, memoryVars, AllListed
<1>7. ~foreign => HonestInv'
  <2>1. HonestInv => HonestInv'
    <3> SUFFICES ASSUME HonestInv PROVE HonestInv'
      OBVIOUS
    <3>1. RedisInv'
      BY <1>2
    <3> QED
      BY <1>1, <3>1 DEF vars, HonestInv, PointersCurrent, Honest, NewAreApart, At,
                        RedisPromise!AsksForItsOwn
  <2> QED
    BY <2>1 DEF StoresInv
<1> QED
  BY <1>1, <1>2, <1>3, <1>4, <1>5, <1>6, <1>7 DEF StoresInv

\* The invariant of the composition.
LEMMA StoresInvariance == StoresSpec => []StoresInv
<1>1. StoresInv /\ [StoresNext]_allVars => StoresInv'
  BY StoresStep, StoresStutter
<1> QED
  BY StoresInitially, <1>1, PTL DEF StoresSpec

\* As long as requests are the agents' own, no record in memory ever loses its entry
\* under its agent ID (registry.go:80-128).
THEOREM EntriesStay == StoresSpec => []NoEntryIsLost
<1>1. ASSUME StoresInv PROVE NoEntryIsLost
  <2> SUFFICES ASSUME ~foreign, NEW r \in allocated
               PROVE  agentID[r] \in Agents /\ byAgent[agentID[r]] = r
    BY DEF NoEntryIsLost
  <2>1. r \in Records /\ r # None /\ agentID[r] \in Agents /\ proxyID[r] \in Proxies
    BY <1>1, NoneAssumption, RecordsAssumption DEF StoresInv, MemoryInv, MemoryTypeOK
  <2>2. byProxy[proxyID[r]] = r
    BY <1>1 DEF StoresInv, MemoryInv, RecordsAreFiled
  <2>3. AllListed
    BY <1>1 DEF StoresInv
  <2> QED
    BY <2>1, <2>2, <2>3 DEF AllListed
<1> QED
  BY <1>1, StoresInvariance, PTL

\* With any number of operations at once and any failures no pointer dangles; and as
\* long as requests are the agents' own, a pointer leads to a record of its own proxy
\* (redis_registry.go:245-297).
THEOREM LookupsAlwaysExact == StoresSpec => []LookupsAreExact
<1>1. StoresInv => LookupsAreExact
  BY DEF StoresInv, RedisInv, HonestInv, LookupsAreExact
<1> QED
  BY <1>1, StoresInvariance, PTL

\* As long as operations take turns the proxy of every record leads back to it, and so
\* no two agents come to hold one proxy, whatever fails in between and whoever asks
\* (redis_registry.go:55-87).
THEOREM ProxiesAreExclusive == StoresSpec => []ExclusiveInTurns
<1>1. StoresInv => ExclusiveInTurns
  BY DEF StoresInv, SerialInv, ExclusiveInTurns
<1> QED
  BY <1>1, StoresInvariance, PTL

\* As long as operations take turns a heartbeat writes back what it read
\* (redis_registry.go:89-115).
THEOREM HeartbeatsOnlyRefresh == StoresSpec => BeatsKeepBindingsInTurns
<1> DEFINE Refreshes == ~overlapped' =>
         \A c \in Calls : Is(c, "touch") /\ At(c, "save") /\ call'[c].pc # "save"
                             => UNCHANGED Stored
<1>1. ASSUME StoresInv, StoresNext PROVE Refreshes
  <2> SUFFICES ASSUME ~overlapped', NEW c \in Calls, Is(c, "touch"), At(c, "save"),
                      call'[c].pc # "save"
               PROVE  UNCHANGED Stored
    OBVIOUS
  <2>1. ~overlapped
    BY <1>1, HistoryStep
  <2>2. InTurns /\ SerialInv
    BY <1>1, <2>1 DEF StoresInv
  <2>3. [Next]_vars
    BY <1>1, HistoryStep
  <2> QED
    BY <2>2, <2>3, BeatStep
<1>2. StoresInv /\ [StoresNext]_allVars => [Refreshes]_allVars
  BY <1>1
<1> QED
  BY <1>2, StoresInvariance, PTL DEF StoresSpec, BeatsKeepBindingsInTurns

\* As long as operations take turns and agents ask for their own, either store binds
\* agents to proxies as AgentBindings says, and in no other way (registry.go:80-139,
\* redis_registry.go:55-87): what AgentIdentity takes for granted.
THEOREM StoresServeAgents == StoresSpec => AgentsAreServed
<1>1. StoresInv /\ [StoresNext]_allVars =>
        [~overlapped' /\ ~foreign' =>
            IF backend = "redis" THEN RedisKeepsPromise ELSE MemoryKeepsPromise]_allVars
  BY StoresStep
<1> QED
  BY <1>1, StoresInvariance, PTL DEF StoresSpec, AgentsAreServed
================================================================================
