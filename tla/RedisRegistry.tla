---------------------------- MODULE RedisRegistry ----------------------------
(* The agent store kept in Redis (internal/server/redis_registry.go).  Each     *)
(* command or MULTI/EXEC block is one step, and nothing holds a lock from the   *)
(* loads of an operation to its save: the operations of other connections, and  *)
(* of other servers on the same Redis, come in between.  Any command may fail,  *)
(* and a save may be applied although its reply is lost.                        *)
(*                                                                              *)
(* A hash <prefix>:agent:<a> is represented by the proxy ID in it, a string     *)
(* <prefix>:proxy:<p> by the agent ID it holds.  The set of agents has the same *)
(* members as there are hashes, one block writes both, and is left out.         *)
EXTENDS AgentIDs

CONSTANT Calls         \* slots for operations in progress

VARIABLES agentHash, proxyPtr, call

vars == <<agentHash, proxyPtr, call>>

NoRecord == [agent |-> None, proxy |-> None]
NoCall == [op |-> "none", agent |-> None, proxy |-> None,
           pc |-> "done", rec |-> NoRecord, ok |-> FALSE]

Init ==
    /\ agentHash = [a \in Agents |-> None]
    /\ proxyPtr = [p \in Proxies |-> None]
    /\ call = [c \in Calls |-> NoCall]

At(c, point) == call[c].pc = point
Is(c, op) == call[c].op = op
Stored == <<agentHash, proxyPtr>>

Finish(c, ok) == call' = [call EXCEPT ![c].pc = "done", ![c].ok = ok]
\* The operation goes on to save the record (x, q), or returns it.
SaveNext(c, x, q) ==
    call' = [call EXCEPT ![c].rec = [agent |-> x, proxy |-> q], ![c].pc = "save"]
Answer(c, x, q) ==
    call' = [call EXCEPT ![c].rec = [agent |-> x, proxy |-> q],
                         ![c].pc = "done", ![c].ok = TRUE]

\* MUTANT: Touch writes the proxy ID of the request into the record it found.
UseAsAsked(c, x, q) ==
    IF Is(c, "get") THEN Answer(c, x, q)
    ELSE SaveNext(c, x, IF call[c].proxy = None THEN q ELSE call[c].proxy)

\* What an operation does with the record of agent x, whose hash holds q.  Touch
\* compares the proxy ID of the request with q; GetByProxyID, and
\* RegisterOrResume behind a pointer, do not.
Use(c, x, q) ==
    IF Is(c, "get") THEN Answer(c, x, q)
    ELSE IF Is(c, "touch") /\ call[c].proxy \notin {None, q} THEN Finish(c, FALSE)
    ELSE SaveNext(c, x, q)

\* IDs that randomHex and randomUUIDLike may make: nobody has them yet.
InUse == UNION {{call[c].agent, call[c].proxy, call[c].rec.agent, call[c].rec.proxy} :
                   c \in {d \in Calls : ~At(d, "done")}}
FreshAgents == {a \in Agents : agentHash[a] = None} \ InUse
FreshProxies == {p \in Proxies : proxyPtr[p] = None} \ InUse

\* MUTANT: a new record gets a proxy ID of its own, whichever was asked for.
MissingMakesProxy(c) ==
    IF Is(c, "register")
    THEN \E x \in (IF call[c].agent = None THEN FreshAgents ELSE {call[c].agent}),
            q \in FreshProxies : SaveNext(c, x, q)
    ELSE Finish(c, FALSE)

\* No record was found: RegisterOrResume makes one, the others report none.
Missing(c) ==
    IF Is(c, "register")
    THEN \E x \in (IF call[c].agent = None THEN FreshAgents ELSE {call[c].agent}),
            q \in (IF call[c].proxy = None THEN FreshProxies ELSE {call[c].proxy}) :
            SaveNext(c, x, q)
    ELSE Finish(c, FALSE)

\* MUTANT: a known agent that names another proxy gets a record of its own for it.
TryProxyIfUnknown(c) ==
    IF \/ call[c].proxy = None
       \/ call[c].agent # None /\ agentHash[call[c].agent] # None
    THEN Missing(c)
    ELSE call' = [call EXCEPT ![c].pc = "pointer"]

\* The load by agent ID did not settle it: on to the pointer, if there is one.
TryProxy(c) ==
    IF call[c].proxy = None THEN Missing(c)
    ELSE call' = [call EXCEPT ![c].pc = "pointer"]

-------------------------------------------------------------------------------
\* IDs just made, which neither the store nor a reply has shown to anybody.
Unseen ==
    {x \in Agents : agentHash[x] = None /\
        \E d \in Calls : ~At(d, "done") /\ call[d].agent = None /\ call[d].rec.agent = x}
    \cup {q \in Proxies : proxyPtr[q] = None /\
        \E d \in Calls : ~At(d, "done") /\ call[d].proxy = None /\ call[d].rec.proxy = q}

\* A call of the interface: a register or a heartbeat with any IDs, or a lookup.
Start(c, op, a, p) ==
    /\ At(c, "done")
    /\ {a, p} \cap Unseen = {}
    /\ op = "get" => a = None /\ p # None
    /\ call' = [call EXCEPT ![c] =
                  [op |-> op, agent |-> a, proxy |-> p, rec |-> NoRecord, ok |-> FALSE,
                   pc |-> IF a # None THEN "agent" ELSE "nokey"]]
    /\ UNCHANGED Stored

\* loadForRegister and loadForTouch without an agent ID, and GetByProxyID.
NoAgentID(c) ==
    /\ At(c, "nokey")
    /\ TryProxy(c)
    /\ UNCHANGED Stored

\* HGETALL on the agent of the request.
LoadAgent(c) ==
    LET q == agentHash[call[c].agent]
    IN  /\ At(c, "agent")
        /\ IF \/ q = None
              \/ Is(c, "register") /\ call[c].proxy \notin {None, q}
           THEN TryProxy(c)
           ELSE Use(c, call[c].agent, q)
        /\ UNCHANGED Stored

\* GET on the pointer of the proxy.
LoadPointer(c) ==
    LET x == proxyPtr[call[c].proxy]
    IN  /\ At(c, "pointer")
        /\ IF x = None THEN Missing(c)
           ELSE call' = [call EXCEPT ![c].rec = [agent |-> x, proxy |-> None],
                                     ![c].pc = "hash"]
        /\ UNCHANGED Stored

\* HGETALL on the agent that the pointer named.
LoadHash(c) ==
    LET x == call[c].rec.agent
    IN  /\ At(c, "hash")
        /\ IF agentHash[x] = None THEN Missing(c) ELSE Use(c, x, agentHash[x])
        /\ UNCHANGED Stored

\* A load fails or the operation's five seconds are over.  Without a key to load
\* by, this stands for the failure of the command that would come next.
LoadFails(c) ==
    /\ call[c].pc \in {"agent", "nokey", "pointer", "hash", "config"}
    /\ Finish(c, FALSE)
    /\ UNCHANGED Stored

\* saveRecord: one MULTI/EXEC block.
Store(r) ==
    /\ agentHash' = [agentHash EXCEPT ![r.agent] = r.proxy]
    /\ proxyPtr' = [proxyPtr EXCEPT ![r.proxy] = r.agent]

Save(c) ==
    /\ At(c, "save")
    /\ Store(call[c].rec)
    /\ IF Is(c, "register") THEN call' = [call EXCEPT ![c].pc = "config"]
       ELSE Finish(c, TRUE)

\* MUTANT: the commands are sent without MULTI, and the second arrives alone.
SaveFailsHalfway(c) ==
    /\ At(c, "save")
    /\ proxyPtr' = [proxyPtr EXCEPT ![call[c].rec.proxy] = call[c].rec.agent]
    /\ UNCHANGED agentHash
    /\ Finish(c, FALSE)

\* The block fails, before or after Redis has run it.
SaveFails(c) ==
    /\ At(c, "save")
    /\ Store(call[c].rec) \/ UNCHANGED Stored
    /\ Finish(c, FALSE)

\* ensureProxyConfig: the load answers with a default when nothing is stored,
\* so that nothing is ever saved here.
EnsureConfig(c) ==
    /\ At(c, "config")
    /\ Finish(c, TRUE)
    /\ UNCHANGED Stored

Next ==
    \E c \in Calls :
        \/ \E op \in {"register", "touch", "get"},
              a \in Agents \cup {None}, p \in Proxies \cup {None} : Start(c, op, a, p)
        \/ NoAgentID(c) \/ LoadAgent(c) \/ LoadPointer(c) \/ LoadHash(c) \/ LoadFails(c)
        \/ Save(c) \/ SaveFails(c) \/ EnsureConfig(c)

Spec == Init /\ [][Next]_vars
-------------------------------------------------------------------------------
Points == {"done", "agent", "nokey", "pointer", "hash", "save", "config"}

\* Types; a record is complete before it is saved.
TypeOK ==
    /\ agentHash \in [Agents -> Proxies \cup {None}]
    /\ proxyPtr \in [Proxies -> Agents \cup {None}]
    /\ call \in [Calls -> [op : {"none", "register", "touch", "get"},
                          agent : Agents \cup {None}, proxy : Proxies \cup {None},
                          pc : Points, ok : BOOLEAN,
                          rec : [agent : Agents \cup {None}, proxy : Proxies \cup {None}]]]
    /\ \A c \in Calls :
          /\ At(c, "agent") => call[c].agent # None
          /\ At(c, "pointer") => call[c].proxy # None
          /\ At(c, "hash") => call[c].rec.agent # None /\ call[c].proxy # None
          /\ At(c, "save") => call[c].rec.agent # None /\ call[c].rec.proxy # None

\* A pointer leads to a record.
PointersResolve == \A p \in Proxies : proxyPtr[p] # None => agentHash[proxyPtr[p]] # None

\* A pointer leads to a record of its own proxy.
PointersCurrent == \A p \in Proxies : proxyPtr[p] # None => agentHash[proxyPtr[p]] = p

\* The proxy of an agent's record leads back to the agent: the record can be looked up,
\* and no two agents hold one proxy.
OneAgentPerProxy == \A a \in Agents : agentHash[a] # None => proxyPtr[agentHash[a]] = a

\* What the agents see of the store.
RedisPromise == INSTANCE AgentBindings WITH bound <- agentHash

Registers(c) ==
    /\ Is(c, "register") /\ At(c, "save")
    /\ RedisPromise!Binds(call[c].agent, call[c].proxy, call[c].rec.agent, call[c].rec.proxy)

\* A registration that is saved does what AgentBindings says, and so does one whose
\* failed save was applied; nothing else binds.
RedisKeepsPromise ==
    /\ UNCHANGED agentHash \/ \E c \in Calls : Registers(c)
    /\ \A c \in Calls : At(c, "save") /\ call'[c].pc = "config" => Registers(c)

\* A heartbeat saves the record it loaded (redis_registry.go:93-111): it must
\* change times only, never which agent has which proxy.
HeartbeatKeepsBindings ==
    [][\A c \in Calls : Is(c, "touch") /\ At(c, "save") /\ call'[c].pc # "save"
                            => UNCHANGED Stored]_vars
================================================================================
