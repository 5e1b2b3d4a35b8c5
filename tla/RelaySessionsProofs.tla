-------------------------- MODULE RelaySessionsProofs --------------------------
(* Proofs about RelaySessions, for every set of connections and identities.    *)
EXTENDS RelaySessions, TLAPS

\* While Shutdown runs, what is open of its snapshot is on its list, or in the
\* hands of a successor; the list is empty when it returns, and a connection that
\* is accepted later is not of the snapshot.
SnapshotCovered ==
    /\ phase # "running" => atShutdown \cap open \subseteq closeList \cup Evicted
    /\ phase = "done" => closeList = {}
    /\ \A c \in atShutdown : pc[c] # "idle"

\* Only a handler inside setActive has sessions to evict.
EvictsWhileEvicting == \A c \in Conns : pc[c] = "evicting" \/ evict[c] = {}

IInv ==
    /\ TypeOK
    /\ EvictsWhileEvicting
    /\ NoStaleEntry
    /\ NeverLost
    /\ SnapshotCovered

-------------------------------------------------------------------------------
\* Type correctness.  No action leaves the types of the variables; the only
\* fact it needs of the flow is that an identity is set before the maps are.
LEMMA TypeStep == TypeOK /\ [Next]_vars => TypeOK'
<1> SUFFICES ASSUME TypeOK, [Next]_vars PROVE TypeOK'
  OBVIOUS
<1> USE DEF TypeOK, Points, identity, directory, shutdown, Goto
<1>1. ASSUME NEW c \in Conns, Accept(c) PROVE TypeOK'
  BY <1>1 DEF Accept
<1>2. ASSUME NEW c \in Conns, RefuseHello(c) PROVE TypeOK'
  BY <1>2 DEF RefuseHello
<1>3. ASSUME NEW c \in Conns, NEW a \in Agents, NEW p \in Proxies,
             RegisterOrResume(c, a, p)
      PROVE TypeOK'
  BY <1>3 DEF RegisterOrResume
<1>4. ASSUME NEW c \in Conns, SetActive(c) PROVE TypeOK'
  BY <1>4 DEF SetActive, Replaced
<1>5. ASSUME NEW c \in Conns, NEW old \in Conns, CloseOld(c, old) PROVE TypeOK'
  BY <1>5 DEF CloseOld
<1>6. ASSUME NEW c \in Conns, SetActiveReturns(c) PROVE TypeOK'
  BY <1>6 DEF SetActiveReturns
<1>7. ASSUME NEW c \in Conns, SendAck(c) PROVE TypeOK'
  BY <1>7 DEF SendAck
<1>8. ASSUME NEW c \in Conns, TouchRefused(c) PROVE TypeOK'
  BY <1>8 DEF TouchRefused
<1>9. ASSUME NEW c \in Conns, ReadFails(c) PROVE TypeOK'
  BY <1>9 DEF ReadFails
<1>10. ASSUME NEW c \in Conns, RemoveActive(c) PROVE TypeOK'
  BY <1>10 DEF RemoveActive
<1>11. ASSUME NEW c \in Conns, CloseConn(c) PROVE TypeOK'
  BY <1>11 DEF CloseConn
<1>12. ASSUME NEW c \in Conns, PeerGone(c) PROVE TypeOK'
  BY <1>12 DEF PeerGone
<1>13. CASE Shutdown
  BY <1>13 DEF Shutdown, Snapshot, CloseListener, CloseSession, ShutdownReturns, Registered
<1>14. CASE UNCHANGED vars
  BY <1>14 DEF vars
<1> QED
  BY <1>1, <1>2, <1>3, <1>4, <1>5, <1>6, <1>7, <1>8, <1>9, <1>10, <1>11, <1>12,
     <1>13, <1>14 DEF Next, Handler, Environment, Stopped

\* Every reachable state of the session directory is well typed.
THEOREM TypeCorrect == Spec => []TypeOK
<1>1. Init => TypeOK
  BY DEF Init, TypeOK, Points
<1> QED
  BY <1>1, TypeStep, PTL DEF Spec

-------------------------------------------------------------------------------
\* The set that the union over the handlers' lists denotes.
LEMMA EvictedMember == \A x : x \in Evicted <=> \E c \in Conns : x \in evict[c]
  BY DEF Evicted

\* Who is in Evicted after a step.
LEMMA EvictedMemberNext == \A x : x \in Evicted' <=> \E c \in Conns : x \in evict'[c]
  BY DEF Evicted

\* A step keeps the maps free of stale entries: setActive files a session that
\* is registered from then on, and only removeActive ends a registration, taking
\* the session's entries with it.
LEMMA NoStaleEntryStep == TypeOK /\ NoStaleEntry /\ [Next]_vars => NoStaleEntry'
<1> SUFFICES ASSUME TypeOK, NoStaleEntry, [Next]_vars PROVE NoStaleEntry'
  OBVIOUS
<1> USE NoneAssumption DEF TypeOK, NoStaleEntry, Points, identity, directory, shutdown,
        Goto, Registered
<1>1. ASSUME NEW c \in Conns, Accept(c) PROVE NoStaleEntry'
  BY <1>1 DEF Accept
<1>2. ASSUME NEW c \in Conns, RefuseHello(c) PROVE NoStaleEntry'
  BY <1>2 DEF RefuseHello
<1>3. ASSUME NEW c \in Conns, NEW a \in Agents, NEW p \in Proxies,
             RegisterOrResume(c, a, p)
      PROVE NoStaleEntry'
  BY <1>3 DEF RegisterOrResume
<1>4. ASSUME NEW c \in Conns, SetActive(c) PROVE NoStaleEntry'
  BY <1>4 DEF SetActive
<1>5. ASSUME NEW c \in Conns, NEW old \in Conns, CloseOld(c, old) PROVE NoStaleEntry'
  BY <1>5 DEF CloseOld
<1>6. ASSUME NEW c \in Conns, SetActiveReturns(c) PROVE NoStaleEntry'
  BY <1>6 DEF SetActiveReturns
<1>7. ASSUME NEW c \in Conns, SendAck(c) PROVE NoStaleEntry'
  BY <1>7 DEF SendAck
<1>8. ASSUME NEW c \in Conns, TouchRefused(c) PROVE NoStaleEntry'
  BY <1>8 DEF TouchRefused
<1>9. ASSUME NEW c \in Conns, ReadFails(c) PROVE NoStaleEntry'
  BY <1>9 DEF ReadFails
<1>10. ASSUME NEW c \in Conns, RemoveActive(c) PROVE NoStaleEntry'
  BY <1>10 DEF RemoveActive
<1>11. ASSUME NEW c \in Conns, CloseConn(c) PROVE NoStaleEntry'
  BY <1>11 DEF CloseConn
<1>12. ASSUME NEW c \in Conns, PeerGone(c) PROVE NoStaleEntry'
  BY <1>12 DEF PeerGone
<1>13. CASE Shutdown
  BY <1>13 DEF Shutdown, Snapshot, CloseListener, CloseSession, ShutdownReturns
<1>14. CASE UNCHANGED vars
  BY <1>14 DEF vars
<1> QED
  BY <1>1, <1>2, <1>3, <1>4, <1>5, <1>6, <1>7, <1>8, <1>9, <1>10, <1>11, <1>12,
     <1>13, <1>14 DEF Next, Handler, Environment, Stopped

\* Evict lists are filled by setActive and are empty when it returns.
LEMMA EvictsStep ==
    TypeOK /\ EvictsWhileEvicting /\ [Next]_vars => EvictsWhileEvicting'
<1> SUFFICES ASSUME TypeOK, EvictsWhileEvicting, [Next]_vars PROVE EvictsWhileEvicting'
  OBVIOUS
<1> USE DEF TypeOK, EvictsWhileEvicting, Points, identity, directory, shutdown, Goto
<1>1. ASSUME NEW c \in Conns, Accept(c) PROVE EvictsWhileEvicting'
  BY <1>1 DEF Accept
<1>2. ASSUME NEW c \in Conns, RefuseHello(c) PROVE EvictsWhileEvicting'
  BY <1>2 DEF RefuseHello
<1>3. ASSUME NEW c \in Conns, NEW a \in Agents, NEW p \in Proxies,
             RegisterOrResume(c, a, p)
      PROVE EvictsWhileEvicting'
  BY <1>3 DEF RegisterOrResume
<1>4. ASSUME NEW c \in Conns, SetActive(c) PROVE EvictsWhileEvicting'
  BY <1>4 DEF SetActive
<1>5. ASSUME NEW c \in Conns, NEW old \in Conns, CloseOld(c, old) PROVE EvictsWhileEvicting'
  BY <1>5 DEF CloseOld
<1>6. ASSUME NEW c \in Conns, SetActiveReturns(c) PROVE EvictsWhileEvicting'
  BY <1>6 DEF SetActiveReturns
<1>7. ASSUME NEW c \in Conns, SendAck(c) PROVE EvictsWhileEvicting'
  BY <1>7 DEF SendAck
<1>8. ASSUME NEW c \in Conns, TouchRefused(c) PROVE EvictsWhileEvicting'
  BY <1>8 DEF TouchRefused
<1>9. ASSUME NEW c \in Conns, ReadFails(c) PROVE EvictsWhileEvicting'
  BY <1>9 DEF ReadFails
<1>10. ASSUME NEW c \in Conns, RemoveActive(c) PROVE EvictsWhileEvicting'
  BY <1>10 DEF RemoveActive
<1>11. ASSUME NEW c \in Conns, CloseConn(c) PROVE EvictsWhileEvicting'
  BY <1>11 DEF CloseConn
<1>12. ASSUME NEW c \in Conns, PeerGone(c) PROVE EvictsWhileEvicting'
  BY <1>12 DEF PeerGone
<1>13. CASE Shutdown
  BY <1>13 DEF Shutdown, Snapshot, CloseListener, CloseSession, ShutdownReturns
<1>14. CASE UNCHANGED vars
  BY <1>14 DEF vars
<1> QED
  BY <1>1, <1>2, <1>3, <1>4, <1>5, <1>6, <1>7, <1>8, <1>9, <1>10, <1>11, <1>12,
     <1>13, <1>14 DEF Next, Handler, Environment, Stopped

\* A step loses no session: setActive hands whatever it displaces to its own
\* evict list, removeActive touches no entry but its own, and a connection
\* leaves an evict list only by being closed.
LEMMA NeverLostStep ==
    TypeOK /\ EvictsWhileEvicting /\ NoStaleEntry /\ NeverLost /\ [Next]_vars => NeverLost'
<1> SUFFICES ASSUME TypeOK, EvictsWhileEvicting, NoStaleEntry, NeverLost, [Next]_vars,
                    NEW d \in Conns, d \in Registered', d \in open', d \notin Evicted'
             PROVE  activeByAgent'[agentOf'[d]] = d /\ activeByProxy'[proxyOf'[d]] = d
  BY DEF NeverLost, Registered
<1> DEFINE InService == activeByAgent'[agentOf'[d]] = d /\ activeByProxy'[proxyOf'[d]] = d
<1> USE NoneAssumption, EvictedMember, EvictedMemberNext
        DEF TypeOK, NeverLost, Points, identity, directory, shutdown, Goto, Registered
<1>1. ASSUME NEW c \in Conns, Accept(c) PROVE InService
  BY <1>1 DEF Accept
<1>2. ASSUME NEW c \in Conns, RefuseHello(c) PROVE InService
  BY <1>2 DEF RefuseHello
<1>3. ASSUME NEW c \in Conns, NEW a \in Agents, NEW p \in Proxies,
             RegisterOrResume(c, a, p)
      PROVE InService
  BY <1>3 DEF RegisterOrResume
<1>4. ASSUME NEW c \in Conns, SetActive(c) PROVE InService
  <2>1. evict[c] = {} /\ evict' = [evict EXCEPT ![c] = Replaced(c)]
    BY <1>4 DEF SetActive, EvictsWhileEvicting
  <2>2. CASE d = c
    BY <1>4, <2>2 DEF SetActive
  <2>3. CASE d # c
    <3>1. d \in Registered /\ d \in open
      BY <1>4, <2>3 DEF SetActive
    <3>2. d \notin Replaced(c) /\ d \notin Evicted
      BY <2>1 DEF Replaced
    <3> QED
      BY <1>4, <2>3, <3>1, <3>2 DEF SetActive, Replaced
  <2> QED
    BY <2>2, <2>3
<1>5. ASSUME NEW c \in Conns, NEW old \in Conns, CloseOld(c, old) PROVE InService
  BY <1>5 DEF CloseOld
<1>6. ASSUME NEW c \in Conns, SetActiveReturns(c) PROVE InService
  BY <1>6 DEF SetActiveReturns
<1>7. ASSUME NEW c \in Conns, SendAck(c) PROVE InService
  BY <1>7 DEF SendAck
<1>8. ASSUME NEW c \in Conns, TouchRefused(c) PROVE InService
  BY <1>8 DEF TouchRefused
<1>9. ASSUME NEW c \in Conns, ReadFails(c) PROVE InService
  BY <1>9 DEF ReadFails
<1>10. ASSUME NEW c \in Conns, RemoveActive(c) PROVE InService
  BY <1>10 DEF RemoveActive
<1>11. ASSUME NEW c \in Conns, CloseConn(c) PROVE InService
  BY <1>11 DEF CloseConn
<1>12. ASSUME NEW c \in Conns, PeerGone(c) PROVE InService
  BY <1>12 DEF PeerGone
<1>13. CASE Shutdown
  BY <1>13 DEF Shutdown, Snapshot, CloseListener, CloseSession, ShutdownReturns
<1>14. CASE UNCHANGED vars
  BY <1>14 DEF vars
<1> QED
  BY <1>1, <1>2, <1>3, <1>4, <1>5, <1>6, <1>7, <1>8, <1>9, <1>10, <1>11, <1>12,
     <1>13, <1>14 DEF Next, Handler, Environment, Stopped

\* The snapshot of activeByAgent is enough: by NeverLost it holds every session
\* that is open and not in a successor's hands.
LEMMA SnapshotStep ==
    /\ TypeOK /\ EvictsWhileEvicting /\ NoStaleEntry /\ NeverLost /\ SnapshotCovered
    /\ [Next]_vars
    => SnapshotCovered'
<1> SUFFICES ASSUME TypeOK, EvictsWhileEvicting, NoStaleEntry, NeverLost, SnapshotCovered,
                    [Next]_vars
             PROVE  SnapshotCovered'
  OBVIOUS
<1> USE NoneAssumption, EvictedMember, EvictedMemberNext
        DEF TypeOK, SnapshotCovered, Points, identity, directory, shutdown, Goto
<1>1. ASSUME NEW c \in Conns, Accept(c) PROVE SnapshotCovered'
  BY <1>1 DEF Accept
<1>2. ASSUME NEW c \in Conns, RefuseHello(c) PROVE SnapshotCovered'
  BY <1>2 DEF RefuseHello
<1>3. ASSUME NEW c \in Conns, NEW a \in Agents, NEW p \in Proxies,
             RegisterOrResume(c, a, p)
      PROVE SnapshotCovered'
  BY <1>3 DEF RegisterOrResume
<1>4. ASSUME NEW c \in Conns, SetActive(c) PROVE SnapshotCovered'
  BY <1>4 DEF SetActive, EvictsWhileEvicting
<1>5. ASSUME NEW c \in Conns, NEW old \in Conns, CloseOld(c, old) PROVE SnapshotCovered'
  BY <1>5 DEF CloseOld
<1>6. ASSUME NEW c \in Conns, SetActiveReturns(c) PROVE SnapshotCovered'
  BY <1>6 DEF SetActiveReturns
<1>7. ASSUME NEW c \in Conns, SendAck(c) PROVE SnapshotCovered'
  BY <1>7 DEF SendAck
<1>8. ASSUME NEW c \in Conns, TouchRefused(c) PROVE SnapshotCovered'
  BY <1>8 DEF TouchRefused
<1>9. ASSUME NEW c \in Conns, ReadFails(c) PROVE SnapshotCovered'
  BY <1>9 DEF ReadFails
<1>10. ASSUME NEW c \in Conns, RemoveActive(c) PROVE SnapshotCovered'
  BY <1>10 DEF RemoveActive
<1>11. ASSUME NEW c \in Conns, CloseConn(c) PROVE SnapshotCovered'
  BY <1>11 DEF CloseConn
<1>12. ASSUME NEW c \in Conns, PeerGone(c) PROVE SnapshotCovered'
  BY <1>12 DEF PeerGone
<1>13. CASE Shutdown
  <2>1. CASE Snapshot
    BY <2>1 DEF Snapshot, NeverLost, Registered
  <2>2. CASE CloseListener \/ ShutdownReturns
    BY <2>2 DEF CloseListener, ShutdownReturns
  <2>3. ASSUME NEW c \in Conns, CloseSession(c) PROVE SnapshotCovered'
    BY <2>3 DEF CloseSession
  <2> QED
    BY <1>13, <2>1, <2>2, <2>3 DEF Shutdown
<1>14. CASE UNCHANGED vars
  BY <1>14 DEF vars
<1> QED
  BY <1>1, <1>2, <1>3, <1>4, <1>5, <1>6, <1>7, <1>8, <1>9, <1>10, <1>11, <1>12,
     <1>13, <1>14 DEF Next, Handler, Environment, Stopped

\* The inductive invariant holds in every reachable state.
THEOREM Invariance == Spec => []IInv
<1>1. Init => IInv
  BY NoneAssumption DEF Init, IInv, TypeOK, Points, EvictsWhileEvicting, NoStaleEntry,
     NeverLost, SnapshotCovered, Registered
<1>2. IInv /\ [Next]_vars => IInv'
  BY TypeStep, EvictsStep, NoStaleEntryStep, NeverLostStep, SnapshotStep DEF IInv
<1> QED
  BY <1>1, <1>2, PTL DEF Spec

\* Map entries are live sessions under their own identity, in every state.
THEOREM EntriesAreLive == Spec => []NoStaleEntry
<1>1. IInv => NoStaleEntry
  BY DEF IInv
<1> QED
  BY <1>1, Invariance, PTL

\* A session that is not being closed is reachable through both maps.
THEOREM SessionsAreReachable == Spec => []NeverLost
<1>1. IInv => NeverLost
  BY DEF IInv
<1> QED
  BY <1>1, Invariance, PTL

\* At most one session of an identity stays: sessions that are not being closed
\* differ in their agents and in their proxies.
THEOREM IdentitiesAreExclusive == Spec => []OneSessionPerIdentity
<1>1. IInv => OneSessionPerIdentity
  BY DEF IInv, NeverLost, OneSessionPerIdentity
<1> QED
  BY <1>1, Invariance, PTL

\* Shutdown leaves no session of its snapshot open but those their successors
\* are closing.
THEOREM ShutdownIsComplete == Spec => []ShutdownClosesAll
<1>1. IInv => ShutdownClosesAll
  BY DEF IInv, SnapshotCovered, ShutdownClosesAll
<1> QED
  BY <1>1, Invariance, PTL

\* Nobody but a session's own handler takes the session out of the maps.
THEOREM OnlyOwnersUnregister == Spec => OnlyOwnerUnregisters
<1> DEFINE Owned ==
      \A a \in Agents, p \in Proxies :
          /\ activeByAgent[a] # None /\ activeByAgent'[a] = None =>
                pc[activeByAgent[a]] = "leaving" /\ pc'[activeByAgent[a]] = "closing"
          /\ activeByProxy[p] # None /\ activeByProxy'[p] = None =>
                pc[activeByProxy[p]] = "leaving" /\ pc'[activeByProxy[p]] = "closing"
<1>1. TypeOK /\ [Next]_vars => [Owned]_vars
  <2> SUFFICES ASSUME TypeOK, [Next]_vars PROVE Owned \/ UNCHANGED vars
    OBVIOUS
  <2>1. CASE UNCHANGED directory
    BY <2>1 DEF directory
  <2>2. ASSUME NEW c \in Conns, SetActive(c) PROVE Owned
    BY <2>2, NoneAssumption DEF SetActive, TypeOK
  <2>3. ASSUME NEW c \in Conns, RemoveActive(c) PROVE Owned
    BY <2>3 DEF RemoveActive, TypeOK, Goto
  <2> QED
    BY <2>1, <2>2, <2>3 DEF Next, Handler, Environment, Shutdown, Stopped, Accept,
       RefuseHello, RegisterOrResume, CloseOld, SetActiveReturns, SendAck, TouchRefused,
       ReadFails, CloseConn, PeerGone, Snapshot, CloseListener, CloseSession,
       ShutdownReturns
<1> QED
  BY <1>1, TypeCorrect, PTL DEF Spec, OnlyOwnerUnregisters
================================================================================
