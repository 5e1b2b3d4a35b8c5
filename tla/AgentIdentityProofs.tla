-------------------------- MODULE AgentIdentityProofs --------------------------
(* Which machine has which proxy ID, for any number of machines, agents,        *)
(* proxies and late registrations, and any course of kills and lost answers.    *)
EXTENDS AgentIdentity, TLAPS

\* The IDs i may be known on machine m: an agent under its name has the proxy, and
\* with an agent ID, it is that agent.
Owned(m, i) ==
    /\ i.proxy # None => \E a \in Agents : bound[a] = i.proxy /\ owner[a] = m
    /\ i.agent # None => i.proxy # None /\ bound[i.agent] = i.proxy

\* No two records have one proxy.
Exclusive == \A a, b \in Agents : bound[a] # None /\ bound[a] = bound[b] => a = b

AllOwned ==
    /\ \A m \in Machines : Owned(m, file[m]) /\ Owned(m, ids[m]) /\ Owned(m, answer[m])
    /\ \A r \in late : Owned(r.machine, r.ids)
    /\ \A m \in Machines : \A p \in given[m] : Owned(m, [agent |-> None, proxy |-> p])

\* Whoever has been told has something to tell the server and the file.
Informed ==
    \A m \in Machines :
        /\ At(m, "told") => answer[m].proxy # None
        /\ pc[m] \in {"saving", "serving"} => ids[m].proxy # None

\* A machine that is not excused has one record, and registers as new only while
\* it has none.
OneRecord == \A m \in Machines \ excused : \A a, b \in RecordsOf(m) : a = b
NewIsFirst ==
    \A m \in Machines \ excused :
        pc[m] \in {"idle", "asking"} /\ ids[m] = NoIDs => RecordsOf(m) = {}

Types ==
    /\ bound \in [Agents -> Proxies \cup {None}]
    /\ owner \in [Agents -> Machines \cup {None}]
    /\ pc \in [Machines -> Points]
    /\ file \in [Machines -> IDs] /\ ids \in [Machines -> IDs] /\ answer \in [Machines -> IDs]
    /\ late \subseteq [machine : Machines, ids : IDs]
    /\ given \in [Machines -> SUBSET Proxies]
    /\ excused \subseteq Machines

IInv == Types /\ Exclusive /\ AllOwned /\ Informed /\ OneRecord /\ NewIsFirst

\* Machines without files and a server without records satisfy it.
LEMMA Initially == Init => IInv
<1> SUFFICES ASSUME Init PROVE IInv
  OBVIOUS
<1> USE DEF Init, NoIDs
<1>1. Types
  BY DEF Types, IDs, Points
<1>2. Exclusive /\ AllOwned /\ Informed
  BY DEF Exclusive, AllOwned, Owned, Informed, At
<1>3. OneRecord /\ NewIsFirst
  BY DEF OneRecord, NewIsFirst, RecordsOf
<1> QED
  BY <1>1, <1>2, <1>3 DEF IInv

-------------------------------------------------------------------------------
\* What a registration does for a machine that sends IDs of its own.

\* Records are made and never changed.
Grows ==
    /\ bound' \in [Agents -> Proxies \cup {None}]
    /\ owner' \in [Agents -> Machines \cup {None}]
    /\ \A a \in Agents : bound[a] # None => bound'[a] = bound[a] /\ owner'[a] = owner[a]

\* A request that names a record of the machine is answered with that record.
LEMMA KnownIsResumed ==
  ASSUME IInv, NEW m \in Machines, NEW i \in IDs, Owned(m, i), i # NoIDs,
         NEW x \in Agents, NEW q \in Proxies, RegisterOrResume(m, i, x, q)
  PROVE  UNCHANGED store /\ bound[x] = q /\ owner[x] = m
<1>1. /\ bound \in [Agents -> Proxies \cup {None}]
      /\ owner \in [Agents -> Machines \cup {None}]
  BY DEF IInv, Types
<1>2. i.proxy # None /\ i.agent \in Agents \cup {None}
  BY DEF IDs, NoIDs, Owned
<1>3. PICK a \in Agents : bound[a] = i.proxy /\ owner[a] = m
  BY <1>2 DEF Owned
<1>4. FoundFor(i.agent, i.proxy) = {a}
  BY <1>2, <1>3, NoneAssumption DEF FoundFor, Owned, IInv, Exclusive
<1>5. x = a /\ q = bound[a] /\ UNCHANGED bound
  BY <1>4 DEF RegisterOrResume, Binds, Resume, Create
<1>6. owner' = owner
  BY <1>1, <1>3, <1>5 DEF RegisterOrResume
<1> QED
  BY <1>3, <1>5, <1>6 DEF store

\* A request without any ID gets IDs that nobody has.
LEMMA NewIsCreated ==
  ASSUME IInv, NEW m \in Machines,
         NEW x \in Agents, NEW q \in Proxies, RegisterOrResume(m, NoIDs, x, q)
  PROVE  /\ bound[x] = None /\ \A a \in Agents : bound[a] # q
         /\ bound' = [bound EXCEPT ![x] = q]
         /\ owner' = [owner EXCEPT ![x] = m]
  BY DEF RegisterOrResume, Binds, Resume, Create, FoundFor, NoIDs

\* In either case the answer is the machine's own, and nobody else's records or
\* names change.
LEMMA RegistrationKeeps ==
  ASSUME IInv, NEW m \in Machines, NEW i \in IDs, Owned(m, i),
         NEW x \in Agents, NEW q \in Proxies, RegisterOrResume(m, i, x, q)
  PROVE  /\ Grows /\ Exclusive'
         /\ bound'[x] = q /\ owner'[x] = m
         /\ i # NoIDs => UNCHANGED store
         /\ \A k \in Machines : RecordsOf(k)' \subseteq RecordsOf(k)
                                \cup {a \in {x} : k = m /\ i = NoIDs}
<1> USE NoneAssumption
<1>1. /\ bound \in [Agents -> Proxies \cup {None}]
      /\ owner \in [Agents -> Machines \cup {None}]
  BY DEF IInv, Types
<1>2. CASE i # NoIDs
  <2>1. UNCHANGED <<bound, owner>> /\ bound[x] = q /\ owner[x] = m
    BY <1>2, KnownIsResumed DEF store
  <2> QED
    BY <1>1, <1>2, <2>1 DEF Grows, Exclusive, RecordsOf, IInv, store
<1>3. CASE i = NoIDs
  <2>1. /\ bound[x] = None /\ \A a \in Agents : bound[a] # q
        /\ bound' = [bound EXCEPT ![x] = q]
        /\ owner' = [owner EXCEPT ![x] = m]
    BY <1>3, NewIsCreated DEF NoIDs
  <2>2. Exclusive'
    BY <1>1, <2>1 DEF IInv, Exclusive
  <2> QED
    BY <1>1, <1>3, <2>1, <2>2 DEF Grows, RecordsOf
<1> QED
  BY <1>2, <1>3

\* What was owned stays owned.
LEMMA OwnedStays ==
  ASSUME Types, Grows, NEW m \in Machines, NEW i \in IDs, Owned(m, i)
  PROVE  Owned(m, i)'
  BY NoneAssumption DEF Types, Grows, Owned, IDs

-------------------------------------------------------------------------------
\* The steps of a machine that leave the store alone: it is enough that its new
\* IDs are its own.
Moves(m) ==
    /\ UNCHANGED store
    /\ pc' \in [Machines -> Points]
    /\ \A k \in Machines \ {m} : pc'[k] = pc[k] /\ file'[k] = file[k] /\ ids'[k] = ids[k]
                              /\ answer'[k] = answer[k] /\ given'[k] = given[k]
    /\ file' \in [Machines -> IDs] /\ ids' \in [Machines -> IDs] /\ answer' \in [Machines -> IDs]
    /\ Owned(m, file'[m]) /\ Owned(m, ids'[m]) /\ Owned(m, answer'[m])
    /\ given' \in [Machines -> SUBSET Proxies]
    /\ \A p \in given'[m] : Owned(m, [agent |-> None, proxy |-> p])
    /\ late' \subseteq late \cup {[machine |-> m, ids |-> ids[m]]}
    /\ excused \subseteq excused' /\ excused' \subseteq Machines

\* What a step of one machine leaves of the invariant for the others.
LEMMA MovesKeeps ==
  ASSUME IInv, NEW m \in Machines, Moves(m),
         At(m, "told")' => answer'[m].proxy # None,
         pc'[m] \in {"saving", "serving"} => ids'[m].proxy # None,
         m \notin excused' /\ pc'[m] \in {"idle", "asking"} /\ ids'[m] = NoIDs
             => RecordsOf(m) = {}
  PROVE  IInv'
<1>1. UNCHANGED <<bound, owner>>
  BY DEF Moves, store
<1>2. Types'
  BY <1>1 DEF IInv, Types, Moves
<1>3. Exclusive'
  BY <1>1 DEF IInv, Exclusive
<1>4. AllOwned'
  <2>1. ASSUME NEW k \in Machines
        PROVE  Owned(k, file[k])' /\ Owned(k, ids[k])' /\ Owned(k, answer[k])'
    BY <1>1 DEF IInv, AllOwned, Owned, Moves
  <2>2. ASSUME NEW r \in late' PROVE Owned(r.machine, r.ids)'
    BY <1>1 DEF IInv, AllOwned, Owned, Moves
  <2>3. ASSUME NEW k \in Machines, NEW p \in given'[k]
        PROVE  Owned(k, [agent |-> None, proxy |-> p])'
    BY <1>1 DEF IInv, AllOwned, Owned, Moves
  <2> QED
    BY <2>1, <2>2, <2>3 DEF AllOwned
<1>5. Informed'
  BY DEF IInv, Informed, Moves, At
<1>6. \A k \in Machines : RecordsOf(k)' = RecordsOf(k)
  BY <1>1 DEF RecordsOf
<1>7. OneRecord' /\ NewIsFirst'
  BY <1>6 DEF IInv, OneRecord, NewIsFirst, Moves
<1> QED
  BY <1>2, <1>3, <1>4, <1>5, <1>7 DEF IInv

\* No IDs are nobody's.
LEMMA NothingIsOwned == \A m : NoIDs \in IDs /\ Owned(m, NoIDs)
  BY DEF NoIDs, IDs, Owned

\* An answer under way is the machine's own.
LEMMA ToldIsOwn ==
  ASSUME IInv, NEW m \in Machines, At(m, "told")
  PROVE  answer[m].proxy # None /\ answer[m] \in IDs /\ Owned(m, answer[m])
<1>1. answer[m] \in IDs
  BY DEF IInv, Types
<1>2. Owned(m, answer[m])
  BY DEF IInv, AllOwned
<1>3. answer[m].proxy # None
  BY DEF IInv, Informed
<1> QED
  BY <1>1, <1>2, <1>3

\* Steps that neither register nor give an ID to a machine.
LEMMA QuietStep ==
  ASSUME IInv, NEW m \in Machines,
         \/ DesktopStart(m) \/ SearchEnds(m) \/ PlainStart(m)
         \/ LoadState(m) \/ Register(m)
         \/ SaveBegins(m) \/ SaveEnds(m) \/ SaveFails(m) \/ ConnectionEnds(m) \/ Kill(m)
  PROVE  IInv'
<1> USE NothingIsOwned DEF IInv, Types, AllOwned, history, Goto, At, Points
<1>1. CASE DesktopStart(m)
  <2>1. Moves(m) /\ pc'[m] \in {"ready", "looking"}
    BY <1>1 DEF DesktopStart, Moves
  <2> QED
    BY <2>1, MovesKeeps
<1>2. CASE SearchEnds(m)
  <2>1. Moves(m) /\ pc'[m] = "ready"
    BY <1>2 DEF SearchEnds, Moves
  <2> QED
    BY <2>1, MovesKeeps
<1>5. CASE PlainStart(m)
  <2>1. Moves(m) /\ pc'[m] = "ready"
    BY <1>5 DEF PlainStart, Moves
  <2> QED
    BY <2>1, MovesKeeps
<1>6. CASE LoadState(m)
  <2>1. Moves(m) /\ pc'[m] = "idle" /\ ids'[m] = file[m]
    BY <1>6 DEF LoadState, Moves
  <2>2. m \notin excused' /\ ids'[m] = NoIDs => RecordsOf(m) = {}
    BY <1>6, <2>1 DEF LoadState
  <2> QED
    BY <2>1, <2>2, MovesKeeps
<1>7. CASE Register(m)
  <2>1. Moves(m) /\ pc'[m] = "asking" /\ UNCHANGED <<ids, excused>>
    BY <1>7 DEF Register, Moves
  <2>2. m \notin excused' /\ ids'[m] = NoIDs => RecordsOf(m) = {}
    BY <1>7, <2>1 DEF Register, NewIsFirst
  <2> QED
    BY <2>1, <2>2, MovesKeeps
<1>8. CASE SaveBegins(m)
  <2>1. answer[m].proxy # None /\ answer[m] \in IDs /\ Owned(m, answer[m])
    BY <1>8, ToldIsOwn DEF SaveBegins
  <2>2. answer[m].proxy \in Proxies /\ Owned(m, [agent |-> None, proxy |-> answer[m].proxy])
    BY <2>1 DEF IDs, Owned
  <2>3. given'[m] = given[m] \cup {answer[m].proxy} /\ given' \in [Machines -> SUBSET Proxies]
    BY <1>8, <2>2 DEF SaveBegins
  <2>4. Moves(m) /\ pc'[m] = "saving" /\ ids'[m] = answer[m]
    BY <1>8, <2>1, <2>2, <2>3 DEF SaveBegins, Taken, Moves
  <2> QED
    BY <2>1, <2>4, MovesKeeps
<1>9. CASE SaveEnds(m)
  <2>1. Moves(m) /\ pc'[m] = "serving" /\ ids' = ids
    BY <1>9 DEF SaveEnds, Moves
  <2> QED
    BY <1>9, <2>1, MovesKeeps DEF SaveEnds, Informed
<1>10. CASE SaveFails(m)
  <2>1. CASE At(m, "saving") /\ UNCHANGED <<ids, given>>
    <3>1. Moves(m) /\ pc'[m] = "serving" /\ ids' = ids
      BY <1>10, <2>1 DEF SaveFails, Taken, Moves
    <3> QED
      BY <2>1, <3>1, MovesKeeps DEF Informed
  <2>2. CASE /\ At(m, "told")
             /\ ids' = [ids EXCEPT ![m] = answer[m]]
             /\ given' = [given EXCEPT ![m] = @ \cup {answer[m].proxy}]
    <3>1. answer[m].proxy # None /\ answer[m] \in IDs /\ Owned(m, answer[m])
      BY <2>2, ToldIsOwn
    <3>2. answer[m].proxy \in Proxies /\ Owned(m, [agent |-> None, proxy |-> answer[m].proxy])
      BY <3>1 DEF IDs, Owned
    <3>3. given'[m] = given[m] \cup {answer[m].proxy} /\ given' \in [Machines -> SUBSET Proxies]
      BY <2>2, <3>2
    <3>4. Moves(m) /\ pc'[m] = "serving" /\ ids'[m] = answer[m]
      BY <1>10, <2>2, <3>1, <3>2, <3>3 DEF SaveFails, Taken, Moves
    <3> QED
      BY <3>1, <3>4, MovesKeeps
  <2> QED
    BY <1>10, <2>1, <2>2 DEF SaveFails
<1>11. CASE ConnectionEnds(m)
  <2>1. Moves(m) /\ pc'[m] = "idle" /\ ids' = ids /\ excused \subseteq excused'
    BY <1>11 DEF ConnectionEnds, Leaves, Taken, Moves
  <2>2. m \notin excused' /\ ids'[m] = NoIDs => RecordsOf(m) = {}
    <3> SUFFICES ASSUME m \notin excused', ids[m] = NoIDs PROVE RecordsOf(m) = {}
      BY <2>1
    <3>1. At(m, "asking")
      BY <1>11 DEF ConnectionEnds, Informed, NoIDs
    <3> QED
      BY <2>1, <3>1 DEF NewIsFirst
  <2> QED
    BY <2>1, <2>2, MovesKeeps
<1>12. CASE Kill(m)
  <2>1. Moves(m) /\ pc'[m] = "off"
    BY <1>12 DEF Kill, Leaves, Taken, Moves
  <2> QED
    BY <2>1, MovesKeeps
<1> QED
  BY <1>1, <1>2, <1>5, <1>6, <1>7, <1>8, <1>9, <1>10, <1>11, <1>12

-------------------------------------------------------------------------------
\* The two steps of the server.

\* Everything that is known stays owned while records are only added.
LEMMA KnowledgeStays ==
  ASSUME IInv, Grows, UNCHANGED <<file, ids, given>>,
         \A k \in Machines : answer'[k] = answer[k] \/ Owned(k, answer[k])',
         late' \subseteq late
  PROVE  AllOwned'
<1>1. \A k \in Machines, i \in IDs : Owned(k, i) => Owned(k, i)'
  BY OwnedStays DEF IInv
<1>2. ASSUME NEW k \in Machines
      PROVE  Owned(k, file[k])' /\ Owned(k, ids[k])' /\ Owned(k, answer[k])'
  <2>1. file[k] \in IDs /\ ids[k] \in IDs /\ answer[k] \in IDs
    BY DEF IInv, Types
  <2>2. Owned(k, file[k]) /\ Owned(k, ids[k]) /\ Owned(k, answer[k])
    BY DEF IInv, AllOwned
  <2>3. Owned(k, file[k])' /\ Owned(k, ids[k])'
    BY <1>1, <2>1, <2>2 DEF Owned
  <2>4. CASE answer'[k] = answer[k]
    BY <1>1, <2>1, <2>2, <2>3, <2>4 DEF Owned
  <2> QED
    BY <2>3, <2>4
<1>3. ASSUME NEW r \in late' PROVE Owned(r.machine, r.ids)'
  BY <1>1 DEF IInv, Types, AllOwned, Owned
<1>4. ASSUME NEW k \in Machines, NEW p \in given'[k] PROVE Owned(k, [agent |-> None, proxy |-> p])'
  <2>1. [agent |-> None, proxy |-> p] \in IDs /\ Owned(k, [agent |-> None, proxy |-> p])
    BY DEF IInv, Types, AllOwned, IDs
  <2> QED
    BY <1>1, <2>1 DEF Owned
<1> QED
  BY <1>2, <1>3, <1>4 DEF AllOwned

\* A registration whose answer the machine gets.
LEMMA RegistersStep == ASSUME IInv, NEW m \in Machines, Registers(m) PROVE IInv'
<1> DEFINE i == ids[m]
<1>1. PICK x \in Agents, q \in Proxies :
         /\ RegisterOrResume(m, i, x, q)
         /\ answer' = [answer EXCEPT ![m] = [agent |-> x, proxy |-> q]]
  BY DEF Registers
<1>2. i \in IDs /\ Owned(m, i)
  BY DEF IInv, Types, AllOwned
<1>3. /\ Grows /\ Exclusive'
      /\ bound'[x] = q /\ owner'[x] = m
      /\ i # NoIDs => UNCHANGED store
      /\ \A k \in Machines : RecordsOf(k)' \subseteq RecordsOf(k)
                             \cup {a \in {x} : k = m /\ i = NoIDs}
  BY <1>1, <1>2, RegistrationKeeps
<1>4. /\ At(m, "asking") /\ pc' = [pc EXCEPT ![m] = "told"]
      /\ UNCHANGED <<file, ids, late, given, excused>>
  BY DEF Registers, Goto, history
<1>5. Types'
  BY <1>1, <1>3, <1>4 DEF IInv, Types, Grows, IDs, Points
<1>6. \A k \in Machines : answer'[k] = answer[k] \/ Owned(k, answer[k])'
  BY <1>1, <1>3, NoneAssumption DEF IInv, Types, Owned
<1>7. AllOwned'
  BY <1>3, <1>4, <1>6, KnowledgeStays
<1>8. Informed'
  BY <1>1, <1>4, NoneAssumption DEF IInv, Types, Informed, At
<1>9. OneRecord'
  BY <1>3, <1>4 DEF IInv, OneRecord, NewIsFirst, At
<1>10. NewIsFirst'
  <2> SUFFICES ASSUME NEW k \in Machines \ excused, pc'[k] \in {"idle", "asking"}, ids[k] = NoIDs
               PROVE  RecordsOf(k)' = {}
    BY <1>4 DEF NewIsFirst
  <2>1. k # m
    BY <1>4 DEF IInv, Types
  <2> QED
    BY <1>3, <1>4, <2>1 DEF IInv, Types, NewIsFirst
<1> QED
  BY <1>3, <1>5, <1>7, <1>8, <1>9, <1>10 DEF IInv

\* A registration that the server carries out after the machine gave it up.
LEMMA RegistersLateStep == ASSUME IInv, NEW r \in late, RegistersLate(r) PROVE IInv'
<1> DEFINE i == r.ids
           m == r.machine
<1>1. i \in IDs /\ m \in Machines /\ Owned(m, i)
  BY DEF IInv, Types, AllOwned
<1>2. PICK x \in Agents, q \in Proxies : RegisterOrResume(m, i, x, q)
  BY DEF RegistersLate
<1>3. /\ Grows /\ Exclusive'
      /\ i # NoIDs => UNCHANGED store
      /\ \A k \in Machines : RecordsOf(k)' \subseteq RecordsOf(k)
                             \cup {a \in {x} : k = m /\ i = NoIDs}
  BY <1>1, <1>2, RegistrationKeeps
<1>4. /\ UNCHANGED <<file, pc, ids, answer, given>> /\ late' \subseteq late
      /\ excused' = excused \cup {k \in {m} : i = NoIDs}
  BY DEF RegistersLate
<1>5. Types'
  BY <1>1, <1>3, <1>4 DEF IInv, Types, Grows
<1>6. AllOwned'
  BY <1>3, <1>4, KnowledgeStays
<1>7. Informed'
  BY <1>4 DEF IInv, Informed, At
<1>8. \A k \in Machines \ excused' : RecordsOf(k)' \subseteq RecordsOf(k) /\ k \notin excused
  BY <1>3, <1>4
<1>9. OneRecord' /\ NewIsFirst'
  BY <1>4, <1>8 DEF IInv, OneRecord, NewIsFirst
<1> QED
  BY <1>3, <1>5, <1>6, <1>7, <1>9 DEF IInv

\* Every step keeps the invariant.
LEMMA StepKeepsIInv == IInv /\ [Next]_vars => IInv'
<1> SUFFICES ASSUME IInv, [Next]_vars PROVE IInv'
  OBVIOUS
<1>1. CASE Next
  BY <1>1, QuietStep, RegistersStep, RegistersLateStep DEF Next
<1>2. CASE UNCHANGED vars
  BY <1>2 DEF vars, store, IInv, Types, Exclusive, AllOwned, Owned, Informed, OneRecord,
              NewIsFirst, RecordsOf, At
<1> QED
  BY <1>1, <1>2

\* It always holds.
THEOREM Invariance == Spec => []IInv
  BY Initially, StepKeepsIInv, PTL DEF Spec

-------------------------------------------------------------------------------
\* Whatever the files and programs know is well typed, and an agent ID comes with
\* the proxy ID of its record.
THEOREM TypeCorrect == Spec => []TypeOK
<1>1. IInv => TypeOK
  BY DEF IInv, Types, TypeOK, AllOwned, Owned
<1> QED
  BY <1>1, Invariance, PTL

\* A machine that never registered as new while it had a record keeps its proxy ID
\* for good.
THEOREM ProxyAlwaysKept == Spec => []ProxyIsKept
<1>1. ASSUME IInv PROVE ProxyIsKept
  <2> SUFFICES ASSUME NEW m \in Machines \ excused, NEW p \in given[m], NEW q \in given[m]
               PROVE  p = q
    BY DEF ProxyIsKept
  <2>1. p # None /\ q # None
    BY <1>1, NoneAssumption DEF IInv, Types
  <2>2. PICK a \in Agents : bound[a] = p /\ owner[a] = m
    BY <1>1, <2>1 DEF IInv, AllOwned, Owned
  <2>3. PICK b \in Agents : bound[b] = q /\ owner[b] = m
    BY <1>1, <2>1 DEF IInv, AllOwned, Owned
  <2> QED
    BY <1>1, <2>1, <2>2, <2>3 DEF IInv, OneRecord, RecordsOf
<1> QED
  BY <1>1, Invariance, PTL

\* Agents ask for their own record, whatever is killed, torn or handled late, for any
\* number of machines: a request finds the record of its machine or, without IDs, none.
\* It is what the stores' theorems MemoryImplementsBindings and RedisImplementsBindings
\* assume of requests.
THEOREM AgentsAskForTheirOwn == Spec => []RequestsAreOwn
<1>1. ASSUME IInv PROVE RequestsAreOwn
  <2> SUFFICES ASSUME NEW r \in late \cup {[machine |-> m, ids |-> ids[m]] : m \in Machines}
               PROVE  /\ AsksForItsOwn(r.ids.agent, r.ids.proxy)
                      /\ FoundFor(r.ids.agent, r.ids.proxy) \subseteq RecordsOf(r.machine)
                      /\ r.ids # NoIDs => FoundFor(r.ids.agent, r.ids.proxy) # {}
    BY DEF RequestsAreOwn
  <2>1. r.machine \in Machines /\ r.ids \in IDs /\ Owned(r.machine, r.ids)
    BY <1>1 DEF IInv, Types, AllOwned
  <2>2. AsksForItsOwn(r.ids.agent, r.ids.proxy)
    BY <2>1 DEF Owned, AsksForItsOwn
  <2>3. CASE r.ids = NoIDs
    BY <2>3 DEF NoIDs, FoundFor, AsksForItsOwn
  <2>4. CASE r.ids # NoIDs
    <3>1. r.ids.proxy # None
      BY <2>1, <2>4 DEF IDs, NoIDs, Owned
    <3>2. PICK a \in Agents : bound[a] = r.ids.proxy /\ owner[a] = r.machine
      BY <2>1, <3>1 DEF Owned
    <3>3. FoundFor(r.ids.agent, r.ids.proxy) = {a}
      BY <1>1, <2>1, <3>1, <3>2, NoneAssumption DEF FoundFor, Owned, IInv, Exclusive, IDs
    <3> QED
      BY <2>2, <3>1, <3>2, <3>3 DEF RecordsOf
  <2> QED
    BY <2>2, <2>3, <2>4
<1> QED
  BY <1>1, Invariance, PTL
================================================================================
