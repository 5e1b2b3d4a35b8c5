----------------------------- MODULE RelaySessions -----------------------------
(* The session directory of the relay server (internal/server/relay.go):       *)
(* handleConn registers one session per agent connection in two maps, a new    *)
(* session evicts the ones it finds there, a handler that ends takes only its  *)
(* own entries away, and Shutdown closes a snapshot of one of the maps.        *)
(*                                                                             *)
(* A connection is used once.  The identity that RegisterOrResume returns for  *)
(* it (an agent and a proxy) is an arbitrary pair: the store decides it.       *)
(* The streams of a session are in StreamRelay; here a connection is open or   *)
(* closed on the server's side and its peer is there or gone.                  *)
CONSTANTS Conns,     \* agent connections the listener may accept
          Agents,    \* agent identities
          Proxies,   \* proxy identities
          None       \* the absent map entry

ASSUME NoneAssumption == None \notin Conns

VARIABLES
    pc,             \* where handleConn of a connection is
    agentOf,        \* RelaySession.agentID
    proxyOf,        \* RelaySession.proxyID
    open,           \* connections the server has not closed
    peer,           \* connections whose agent has not gone
    activeByAgent,
    activeByProxy,
    evict,          \* oldSessions: what setActive of a connection must still Close
    phase,          \* how far Shutdown is
    closeList,      \* Shutdown's sessions that it must still Close
    atShutdown      \* history: sessions in service when Shutdown took its snapshot

vars == <<pc, agentOf, proxyOf, open, peer, activeByAgent, activeByProxy, evict,
          phase, closeList, atShutdown>>

identity == <<agentOf, proxyOf>>
directory == <<activeByAgent, activeByProxy>>
shutdown == <<phase, closeList, atShutdown>>

\* "hello": reading the register message.  "resolved": RegisterOrResume has
\* returned, the maps are untouched.  "evicting": in the maps, closing the
\* sessions it replaced.  "acking": about to send register_ok.  "serving": in
\* the read loop.  "leaving": the deferred removeActive is next.  "closing": only
\* the deferred conn.Close is left.
Points == {"idle", "hello", "resolved", "evicting", "acking", "serving",
           "leaving", "closing", "gone"}

\* Between setActive's and removeActive's critical sections.
Registered == {c \in Conns : pc[c] \in {"evicting", "acking", "serving", "leaving"}}

Evicted == UNION {evict[c] : c \in Conns}

Goto(c, point) == pc' = [pc EXCEPT ![c] = point]

-------------------------------------------------------------------------------
Init ==
    /\ pc = [c \in Conns |-> "idle"]
    /\ agentOf = [c \in Conns |-> None]
    /\ proxyOf = [c \in Conns |-> None]
    /\ open = {}
    /\ peer = {}
    /\ activeByAgent = [a \in Agents |-> None]
    /\ activeByProxy = [p \in Proxies |-> None]
    /\ evict = [c \in Conns |-> {}]
    /\ phase = "running"
    /\ closeList = {}
    /\ atShutdown = {}

-------------------------------------------------------------------------------
(* ListenAndServe and handleConn, in the order of the code *)

\* The listener accepts until Shutdown closes it, which is after the snapshot.
Accept(c) ==
    /\ phase \in {"running", "snapshotted"}
    /\ pc[c] = "idle"
    /\ Goto(c, "hello")
    /\ open' = open \cup {c}
    /\ peer' = peer \cup {c}
    /\ UNCHANGED <<identity, directory, evict, shutdown>>

\* Mutant: the store's error is reported, and the handler goes on.
RefuseHelloGoesOn(c) ==
    /\ pc[c] = "hello"
    /\ Goto(c, "resolved")
    /\ UNCHANGED <<identity, open, peer, directory, evict, shutdown>>

\* No register message, a refused one, or RegisterOrResume failed: an error
\* reply, and only conn.Close is deferred yet.
RefuseHello(c) ==
    /\ pc[c] = "hello"
    /\ Goto(c, "closing")
    /\ UNCHANGED <<identity, open, peer, directory, evict, shutdown>>

RegisterOrResume(c, a, p) ==
    /\ pc[c] = "hello"
    /\ c \in peer
    /\ Goto(c, "resolved")
    /\ agentOf' = [agentOf EXCEPT ![c] = a]
    /\ proxyOf' = [proxyOf EXCEPT ![c] = p]
    /\ UNCHANGED <<open, peer, directory, evict, shutdown>>

\* What setActive finds in the two maps, other than the session itself.
Replaced(c) == {activeByAgent[agentOf[c]], activeByProxy[proxyOf[c]]} \ {None, c}

\* setActive, the part under RelayServer.mu.
SetActive(c) ==
    /\ pc[c] = "resolved"
    /\ Goto(c, "evicting")
    /\ evict' = [evict EXCEPT ![c] = Replaced(c)]
    /\ activeByAgent' = [activeByAgent EXCEPT ![agentOf[c]] = c]
    /\ activeByProxy' = [activeByProxy EXCEPT ![proxyOf[c]] = c]
    /\ UNCHANGED <<identity, open, peer, shutdown>>

\* Mutant: the streams of the replaced session are closed, its connection is not.
CloseOldKeepsConn(c, old) ==
    /\ pc[c] = "evicting"
    /\ old \in evict[c]
    /\ evict' = [evict EXCEPT ![c] = @ \ {old}]
    /\ UNCHANGED <<pc, identity, open, peer, directory, shutdown>>

\* setActive after the unlock: old.Close of each replaced session, in any order.
CloseOld(c, old) ==
    /\ pc[c] = "evicting"
    /\ old \in evict[c]
    /\ evict' = [evict EXCEPT ![c] = @ \ {old}]
    /\ open' = open \ {old}
    /\ UNCHANGED <<pc, identity, peer, directory, shutdown>>

SetActiveReturns(c) ==
    /\ pc[c] = "evicting"
    /\ evict[c] = {}
    /\ Goto(c, "acking")
    /\ UNCHANGED <<identity, open, peer, directory, evict, shutdown>>

\* Mutant: a failed register_ok is retried instead of ending the handler.
SendAckRetries(c) ==
    /\ pc[c] = "acking"
    /\ c \in open /\ Goto(c, "serving")
    /\ UNCHANGED <<identity, open, peer, directory, evict, shutdown>>

\* Sending register_ok fails at once on a connection this side closed; to a
\* peer that has gone it may still succeed.
SendAck(c) ==
    /\ pc[c] = "acking"
    /\ \/ c \in open /\ Goto(c, "serving")
       \/ (c \notin open \/ c \notin peer) /\ Goto(c, "leaving")
    /\ UNCHANGED <<identity, open, peer, directory, evict, shutdown>>

\* A ping that the store does not accept (Touch fails, or finds no record).
TouchRefused(c) ==
    /\ pc[c] = "serving"
    /\ c \in open
    /\ Goto(c, "leaving")
    /\ UNCHANGED <<identity, open, peer, directory, evict, shutdown>>

\* Decode fails once the connection is closed or the peer has gone.  There is
\* no read deadline: a silent peer is not noticed.
ReadFails(c) ==
    /\ pc[c] = "serving"
    /\ c \notin open \/ c \notin peer
    /\ Goto(c, "leaving")
    /\ UNCHANGED <<identity, open, peer, directory, evict, shutdown>>

\* Mutant: whoever is in the maps is removed.
RemoveActiveUnchecked(c) ==
    /\ pc[c] = "leaving"
    /\ Goto(c, "closing")
    /\ activeByAgent' = [activeByAgent EXCEPT ![agentOf[c]] = None]
    /\ activeByProxy' = [activeByProxy EXCEPT ![proxyOf[c]] = None]
    /\ UNCHANGED <<identity, open, peer, evict, shutdown>>

\* Mutant: the entry of the proxy is left behind.
RemoveActiveAgentOnly(c) ==
    /\ pc[c] = "leaving"
    /\ Goto(c, "closing")
    /\ activeByAgent' =
          [a \in Agents |-> IF a = agentOf[c] /\ activeByAgent[a] = c
                            THEN None ELSE activeByAgent[a]]
    /\ UNCHANGED <<identity, open, peer, activeByProxy, evict, shutdown>>

\* Compare-and-delete on both maps, in one critical section.
RemoveActive(c) ==
    /\ pc[c] = "leaving"
    /\ Goto(c, "closing")
    /\ activeByAgent' =
          [a \in Agents |-> IF a = agentOf[c] /\ activeByAgent[a] = c
                            THEN None ELSE activeByAgent[a]]
    /\ activeByProxy' =
          [p \in Proxies |-> IF p = proxyOf[c] /\ activeByProxy[p] = c
                             THEN None ELSE activeByProxy[p]]
    /\ UNCHANGED <<identity, open, peer, evict, shutdown>>

CloseConn(c) ==
    /\ pc[c] = "closing"
    /\ Goto(c, "gone")
    /\ open' = open \ {c}
    /\ UNCHANGED <<identity, peer, directory, evict, shutdown>>

\* The agent exits, crashes or loses its network.
PeerGone(c) ==
    /\ c \in peer
    /\ peer' = peer \ {c}
    /\ UNCHANGED <<pc, identity, open, directory, evict, shutdown>>

-------------------------------------------------------------------------------
(* Shutdown *)

Snapshot ==
    /\ phase = "running"
    /\ phase' = "snapshotted"
    /\ closeList' = {activeByAgent[a] : a \in Agents} \ {None}
    /\ atShutdown' = Registered
    /\ UNCHANGED <<pc, identity, open, peer, directory, evict>>

CloseListener ==
    /\ phase = "snapshotted"
    /\ phase' = "closing"
    /\ UNCHANGED <<pc, identity, open, peer, directory, evict, closeList, atShutdown>>

CloseSession(c) ==
    /\ phase = "closing"
    /\ c \in closeList
    /\ closeList' = closeList \ {c}
    /\ open' = open \ {c}
    /\ UNCHANGED <<pc, identity, peer, directory, evict, phase, atShutdown>>

\* Mutant: Shutdown does not wait for the sessions it has to close.
ShutdownReturnsEarly ==
    /\ phase = "closing"
    /\ phase' = "done"
    /\ UNCHANGED <<pc, identity, open, peer, directory, evict, closeList, atShutdown>>

ShutdownReturns ==
    /\ phase = "closing"
    /\ closeList = {}
    /\ phase' = "done"
    /\ UNCHANGED <<pc, identity, open, peer, directory, evict, closeList, atShutdown>>

\* Nothing is left to do: the process is about to exit.
Stopped ==
    /\ phase = "done"
    /\ \A c \in Conns : pc[c] \in {"idle", "gone"}
    /\ UNCHANGED vars

-------------------------------------------------------------------------------
\* What the handler's goroutine does by itself once it can.
Handler(c) ==
    \/ c \notin peer /\ RefuseHello(c)
    \/ SetActive(c)
    \/ \E old \in Conns : CloseOld(c, old)
    \/ SetActiveReturns(c)
    \/ SendAck(c)
    \/ ReadFails(c)
    \/ RemoveActive(c)
    \/ CloseConn(c)

Environment(c) ==
    \/ Accept(c)
    \/ RefuseHello(c)
    \/ \E a \in Agents, p \in Proxies : RegisterOrResume(c, a, p)
    \/ TouchRefused(c)
    \/ PeerGone(c)

Shutdown ==
    \/ Snapshot
    \/ CloseListener
    \/ \E c \in Conns : CloseSession(c)
    \/ ShutdownReturns

Next ==
    \/ \E c \in Conns : Handler(c) \/ Environment(c)
    \/ Shutdown
    \/ Stopped

\* The Go scheduler runs a goroutine that can run; nothing obliges a peer to
\* send or to go, or an operator to stop the server.
Fairness ==
    /\ \A c \in Conns : WF_vars(Handler(c))
    /\ WF_vars(CloseListener \/ (\E c \in Conns : CloseSession(c)) \/ ShutdownReturns)

Spec == Init /\ [][Next]_vars

FairSpec == Spec /\ Fairness

-------------------------------------------------------------------------------
(* Properties *)

TypeOK ==
    /\ pc \in [Conns -> Points]
    /\ agentOf \in [Conns -> Agents \cup {None}]
    /\ proxyOf \in [Conns -> Proxies \cup {None}]
    /\ \A c \in Conns : pc[c] \in {"resolved", "evicting", "acking", "serving", "leaving"}
                          => agentOf[c] \in Agents /\ proxyOf[c] \in Proxies
    /\ open \subseteq Conns
    /\ peer \subseteq Conns
    /\ activeByAgent \in [Agents -> Conns \cup {None}]
    /\ activeByProxy \in [Proxies -> Conns \cup {None}]
    /\ evict \in [Conns -> SUBSET Conns]
    /\ phase \in {"running", "snapshotted", "closing", "done"}
    /\ closeList \subseteq Conns
    /\ atShutdown \subseteq Conns

\* Every entry of the two maps is a session whose handler will still run
\* removeActive, filed under its own identity: GetSessionByProxyID never routes
\* a client to another proxy's agent, or to a session that nobody will clean up
\* (setActive 239, removeActive 257).
NoStaleEntry ==
    /\ \A a \in Agents : activeByAgent[a] # None =>
          activeByAgent[a] \in Registered /\ agentOf[activeByAgent[a]] = a
    /\ \A p \in Proxies : activeByProxy[p] # None =>
          activeByProxy[p] \in Registered /\ proxyOf[activeByProxy[p]] = p

\* A session in service that nobody is about to close is the one both maps
\* point to.  Otherwise its agent would be connected and never used: the
\* removeActive of a predecessor must not take the successor's entries, and
\* setActive must miss no session it displaces (239-267).
NeverLost ==
    \A c \in Registered : c \in open \ Evicted =>
        activeByAgent[agentOf[c]] = c /\ activeByProxy[proxyOf[c]] = c

\* Two sessions that share an agent or a proxy are never both in service,
\* unless one of them is closed or its evictor is on the way to close it.
OneSessionPerIdentity ==
    \A c, d \in (Registered \cap open) \ Evicted :
        agentOf[c] = agentOf[d] \/ proxyOf[c] = proxyOf[d] => c = d

\* Shutdown looks at activeByAgent only.  Still, when it returns, every session
\* that was in service at the snapshot is closed, unless its successor is just
\* about to close it (103-124).
ShutdownClosesAll == phase = "done" => atShutdown \cap open \subseteq Evicted

\* A map entry disappears only through the removeActive of the very session it
\* points to: a late exit of a replaced handler does not unregister its
\* successor (257-264).
OnlyOwnerUnregisters ==
    [][\A a \in Agents, p \in Proxies :
          /\ activeByAgent[a] # None /\ activeByAgent'[a] = None =>
                pc[activeByAgent[a]] = "leaving" /\ pc'[activeByAgent[a]] = "closing"
          /\ activeByProxy[p] # None /\ activeByProxy'[p] = None =>
                pc[activeByProxy[p]] = "leaving" /\ pc'[activeByProxy[p]] = "closing"]_vars

\* A session that was replaced, closed by Shutdown or left by its agent ends:
\* its read loop notices, it leaves the maps and its connection is closed.
Ended(c) == pc[c] \in {"idle", "gone"}
SessionEnds ==
    \A c \in Conns :
        (c \in Evicted \/ (~Ended(c) /\ (c \notin open \/ c \notin peer))) ~> Ended(c)

\* A registration comes to an end: it is served, or its connection is closed,
\* even when sessions evict each other (188-195).
RegistrationCompletes ==
    \A c \in Conns : pc[c] = "resolved" ~> pc[c] \in {"serving", "gone"}
================================================================================
