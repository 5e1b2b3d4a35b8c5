----------------------------- MODULE AgentIdentity -----------------------------
(* How a machine comes by its proxy ID and keeps it: the agent program reads    *)
(* and writes tunnel-agent.state.json (cmd/tunnel-agent/state.go) and registers *)
(* with what it read (cmd/tunnel-agent/app_v2.go); the desktop program tries to *)
(* find a lost ID before it starts the agent (cmd/tunnel-desktop/main.go).      *)
(* Either may be killed at any point, a write truncates the file before it      *)
(* fills it, and a registration may be handled after the connection that        *)
(* carried it has gone.                                                         *)
(*                                                                             *)
(* A machine has one directory, so one state file.  Its agent name plays no     *)
(* part in who it is: no request is answered by name, and names are not unique. *)
EXTENDS AgentBindings, FiniteSets

CONSTANTS
    Machines,
    MaxLate            \* bound: registrations that outlive their connection

ASSUME LateAssumption == MaxLate \in Nat

VARIABLES
    owner,      \* history: the machine whose registration an agent's record served last
    file,       \* what can be read from the state file
    pc,         \* where the program on a machine is
    ids,        \* agentState in the agent's memory
    answer,     \* the server's register_ok
    late,       \* registrations whose connection has gone
    given,      \* history: proxy IDs that agents of a machine have been told
    excused     \* history: machines that had a record and registered as new all the
                \* same, knowing nothing of it

store == <<bound, owner>>
vars == <<store, file, pc, ids, answer, late, given, excused>>

NoIDs == [agent |-> None, proxy |-> None]

\* "looking": the desktop program asks for the list.  "ready": the agent process
\* is about to run.  "idle": the agent has read its file and is not connected.
\* "asking": it has sent its registration.  "told": register_ok is on its way.
\* "saving": the agent has truncated the file.  "serving": it is registered.
Points == {"off", "looking", "ready", "idle", "asking", "told", "saving", "serving"}

Init ==
    /\ bound = [a \in Agents |-> None]
    /\ owner = [a \in Agents |-> None]
    /\ file = [m \in Machines |-> NoIDs]
    /\ pc = [m \in Machines |-> "off"]
    /\ ids = [m \in Machines |-> NoIDs]
    /\ answer = [m \in Machines |-> NoIDs]
    /\ late = {}
    /\ given = [m \in Machines |-> {}]
    /\ excused = {}

At(m, point) == pc[m] = point
Goto(m, point) == pc' = [pc EXCEPT ![m] = point]
\* An answer is used once.
Taken(m) == answer' = [answer EXCEPT ![m] = NoIDs]
history == <<given, excused>>

\* RegisterOrResume for a request of m that has the IDs i; the answer is (x, q).
RegisterOrResume(m, i, x, q) ==
    /\ Binds(i.agent, i.proxy, x, q)
    /\ owner' = [owner EXCEPT ![x] = m]

\* The records that m's registrations have been answered with.
RecordsOf(m) == {a \in Agents : bound[a] # None /\ owner[a] = m}

-------------------------------------------------------------------------------
\* The desktop program starts an agent: ensureReusableProxyState looks for a
\* proxy ID in the file first.
DesktopStart(m) ==
    /\ At(m, "off")
    /\ Goto(m, IF file[m].proxy # None THEN "ready" ELSE "looking")
    /\ UNCHANGED <<store, file, ids, answer, late, history>>

\* The search by the agent's name never brings anything.  The window decodes
\* {"data": {"items": [...]}}, handleDemoAgents sends {"items": [...]} at the top
\* (http.go:261): Data.Items is empty, there is no match and nothing is written
\* (main.go:718-725 is never reached).  When the call fails, start goes on as well.
SearchEnds(m) ==
    /\ At(m, "looking")
    /\ Goto(m, "ready")
    /\ UNCHANGED <<store, file, ids, answer, late, history>>

\* The launcher, or a command line, starts an agent: nothing is looked up.
PlainStart(m) ==
    /\ At(m, "off")
    /\ Goto(m, "ready")
    /\ UNCHANGED <<store, file, ids, answer, late, history>>

-------------------------------------------------------------------------------
\* loadAgentState: a file that is missing, empty or broken off gives no IDs.
LoadState(m) ==
    /\ At(m, "ready")
    /\ ids' = [ids EXCEPT ![m] = file[m]]
    /\ Goto(m, "idle")
    /\ excused' = excused \cup {k \in {m} : file[m] = NoIDs /\ RecordsOf(m) # {}}
    /\ UNCHANGED <<store, file, answer, late, given>>

\* MUTANT: a connection begins without the IDs of the last one.
RegisterAfresh(m) ==
    /\ At(m, "idle")
    /\ ids' = [ids EXCEPT ![m] = NoIDs]
    /\ Goto(m, "asking")
    /\ UNCHANGED <<store, file, answer, late, history>>

\* runRelayClient connects and sends the IDs it has.
Register(m) ==
    /\ At(m, "idle")
    /\ Goto(m, "asking")
    /\ UNCHANGED <<store, file, ids, answer, late, history>>

\* The server's handler registers the agent and answers.
Registers(m) ==
    /\ At(m, "asking")
    /\ \E x \in Agents, q \in Proxies :
          /\ RegisterOrResume(m, ids[m], x, q)
          /\ answer' = [answer EXCEPT ![m] = [agent |-> x, proxy |-> q]]
    /\ Goto(m, "told")
    /\ UNCHANGED <<file, ids, late, history>>

\* The same for a connection that has gone: its answer reaches nobody.
RegistersLate(r) ==
    /\ \E x \in Agents, q \in Proxies :
          RegisterOrResume(r.machine, r.ids, x, q)
    /\ late' = late \ {r}
    /\ excused' = excused \cup {m \in {r.machine} : r.ids = NoIDs}
    /\ UNCHANGED <<file, pc, ids, answer, given>>

\* register_ok arrives: the IDs are taken over, and saveAgentState truncates.
SaveBegins(m) ==
    /\ At(m, "told")
    /\ ids' = [ids EXCEPT ![m] = answer[m]]
    /\ given' = [given EXCEPT ![m] = @ \cup {answer[m].proxy}]
    /\ file' = [file EXCEPT ![m] = NoIDs]
    /\ Goto(m, "saving")
    /\ Taken(m)
    /\ UNCHANGED <<store, late, excused>>

SaveEnds(m) ==
    /\ At(m, "saving")
    /\ file' = [file EXCEPT ![m] = ids[m]]
    /\ Goto(m, "serving")
    /\ UNCHANGED <<store, ids, answer, late, history>>

\* The file cannot be opened, or not be filled: that is only logged.
SaveFails(m) ==
    /\ \/ /\ At(m, "told")
          /\ ids' = [ids EXCEPT ![m] = answer[m]]
          /\ given' = [given EXCEPT ![m] = @ \cup {answer[m].proxy}]
       \/ At(m, "saving") /\ UNCHANGED <<ids, given>>
    /\ Goto(m, "serving")
    /\ Taken(m)
    /\ UNCHANGED <<store, file, late, excused>>

\* What becomes of a registration under way when its connection goes: it is lost
\* too, or the server has it and will still handle it.  Two of one machine with the
\* same IDs count as one.
Leaves(m) ==
    \/ UNCHANGED late
    \/ /\ At(m, "asking")
       /\ Cardinality(late) < MaxLate
       /\ late' = late \cup {[machine |-> m, ids |-> ids[m]]}

\* The connection ends, or the server answers with an error: runAgentApp tries
\* again with the IDs in memory.
ConnectionEnds(m) ==
    /\ pc[m] \in {"asking", "told", "serving"}
    /\ Leaves(m)
    /\ Goto(m, "idle")
    /\ Taken(m)
    /\ excused' = excused \cup {k \in {m} : At(m, "told") /\ ids[m] = NoIDs}
    /\ UNCHANGED <<store, file, ids, given>>

\* The program that is running on the machine is killed.
Kill(m) ==
    /\ ~At(m, "off")
    /\ Leaves(m)
    /\ Goto(m, "off")
    /\ ids' = [ids EXCEPT ![m] = NoIDs]
    /\ Taken(m)
    /\ UNCHANGED <<store, file, history>>

Next ==
    \/ \E m \in Machines :
          \/ DesktopStart(m) \/ SearchEnds(m) \/ PlainStart(m)
          \/ LoadState(m) \/ Register(m) \/ Registers(m)
          \/ SaveBegins(m) \/ SaveEnds(m) \/ SaveFails(m) \/ ConnectionEnds(m) \/ Kill(m)
    \/ \E r \in late : RegistersLate(r)

Spec == Init /\ [][Next]_vars

-------------------------------------------------------------------------------
IDs == [agent : Agents \cup {None}, proxy : Proxies \cup {None}]

\* An agent ID is never held without a proxy ID.
TypeOK ==
    /\ bound \in [Agents -> Proxies \cup {None}]
    /\ owner \in [Agents -> Machines \cup {None}]
    /\ pc \in [Machines -> Points]
    /\ file \in [Machines -> IDs] /\ ids \in [Machines -> IDs] /\ answer \in [Machines -> IDs]
    /\ late \subseteq [machine : Machines, ids : IDs]
    /\ given \in [Machines -> SUBSET Proxies]
    /\ excused \subseteq Machines
    /\ \A m \in Machines : \A i \in {file[m], ids[m], answer[m]} : i.agent # None => i.proxy # None

\* Whatever is killed, torn, lost or handled late, a registration that is sent or
\* still under way (app_v2.go:63-68) has an agent ID together with the proxy ID that
\* the server has for it, or none, and its proxy ID is its own machine's: the request
\* finds that machine's record and no other's, whoever has registered meanwhile.
\* The stores implement AgentBindings on this condition.
RequestsAreOwn ==
    \A r \in late \cup {[machine |-> m, ids |-> ids[m]] : m \in Machines} :
        /\ AsksForItsOwn(r.ids.agent, r.ids.proxy)
        /\ FoundFor(r.ids.agent, r.ids.proxy) \subseteq RecordsOf(r.machine)
        /\ r.ids # NoIDs => FoundFor(r.ids.agent, r.ids.proxy) # {}

\* A machine keeps its first proxy ID through kills in the middle of a write, lost
\* connections, answers and restarts, as long as it never registers as new while it
\* has a record.  It does so when its file was unreadable or could not be written,
\* when the answer to its first registration was lost, or when that registration was
\* handled late: the desktop window promises to reuse the ID in these cases as well
\* (main.go:494), but its search finds nothing, so that the ID is gone.
ProxyIsKept == \A m \in Machines \ excused : \A p, q \in given[m] : p = q
================================================================================
