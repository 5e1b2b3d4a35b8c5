---------------------------- MODULE SocksGateProofs ----------------------------
(* Who is let through the SOCKS entry, for every set of proxies and clients and *)
(* any course of saves, hours, sessions and handlers.                           *)
EXTENDS SocksGate, TLAPS

\* A connection whose proxy can be used now has been seen to be allowed.
AllowedIsNoted ==
    \A c \in Clients : client[c].pc \notin {"away", "over"} /\ Usable(client[c].proxy)
                          => c \in allowed

\* What the check will find in the loaded configuration implies that the proxy
\* could be used when it was loaded: the clock only moves on.
LoadedWasAllowed ==
    \A c \in Clients : At(c, "loaded") /\ Admits(client[c].cfg, clock) => c \in allowed

\* A connection past the check stays allowed while it goes on to its stream.
CheckedWasAllowed ==
    \A c \in Clients : client[c].pc \in {"checked"} \cup Admitted => c \in allowed

IInv == TypeOK /\ AllowedIsNoted /\ LoadedWasAllowed /\ CheckedWasAllowed

\* The step of the history variable, apart from what else changes.
Notes == allowed' = allowed \cup {c \in Clients : /\ client'[c].pc \notin {"away", "over"}
                                                 /\ Usable(client[c].proxy)'}

\* What is saved is a configuration.
LEMMA Normalized ==
  ASSUME NEW enabled \in BOOLEAN, NEW permanent \in BOOLEAN, NEW date \in Moments \cup {Never}
  PROVE  normalizeProxyConfig(enabled, permanent, date) \in Configs
  BY DEF normalizeProxyConfig, Configs

\* So is the default.
LEMMA DefaultIsConfig == defaultProxyConfig \in Configs
  BY DEF defaultProxyConfig, Configs

\* Nobody is connected.
LEMMA Initially == GateInit => IInv
<1> SUFFICES ASSUME GateInit PROVE IInv
  OBVIOUS
<1>1. (CHOOSE p \in Proxies : TRUE) \in Proxies /\ 0 \in Moments
  BY ConfigsAssumption DEF Moments
<1>2. TypeOK
  BY <1>1, DefaultIsConfig DEF GateInit, ConfigsInit, TypeOK, Points, Admitted
<1>3. \A c \in Clients : client[c].pc = "away"
  BY DEF GateInit
<1>4. AllowedIsNoted
  BY <1>3 DEF AllowedIsNoted
<1>5. LoadedWasAllowed
  BY <1>3 DEF LoadedWasAllowed, At
<1>6. CheckedWasAllowed
  BY <1>3 DEF CheckedWasAllowed, Admitted
<1> QED
  BY <1>2, <1>4, <1>5, <1>6 DEF IInv

\* The history variable notes what AllowedIsNoted asks for in every step.
LEMMA NotesEverything ==
  ASSUME Notes PROVE AllowedIsNoted'
  BY DEF Notes, AllowedIsNoted, Usable

\* A handler's step changes its own entry only, and stays within the types.
ClientType == [pc : Points, proxy : Proxies, right : BOOLEAN, cfg : Configs]
Keeps(c, d) == client'[d].proxy = client[d].proxy /\ client'[d].cfg = client[d].cfg
Passed == {"loaded", "checked"} \cup Admitted
Steps(c) ==
    /\ UNCHANGED <<config, clock, online>>
    /\ client' \in [Clients -> ClientType]
    /\ \A d \in Clients : client'[d].pc \in Passed => client'[d].right
    /\ \A d \in Clients : d # c => client'[d] = client[d]

\* A handler that goes on without looking at the store.
LEMMA GotoSteps ==
  ASSUME TypeOK, NEW c \in Clients, NEW point \in Points, Goto(c, point), Handles(c),
         point \in Passed => client[c].right
  PROVE  /\ Steps(c)
         /\ client'[c].pc = point
         /\ client'[c].proxy = client[c].proxy
  BY DEF TypeOK, Goto, Handles, Steps, ClientType, Passed

\* A client that connects.
LEMMA ConnectSteps ==
  ASSUME TypeOK, NEW c \in Clients, NEW p \in Proxies, NEW right \in BOOLEAN,
         Connect(c, p, right)
  PROVE  Steps(c) /\ client'[c].pc = "offered"
<1>1. /\ client' \in [Clients -> ClientType]
      /\ client'[c].pc = "offered"
      /\ \A d \in Clients : d # c => client'[d] = client[d]
  BY DEF TypeOK, Connect, ClientType, Points
<1> QED
  BY <1>1 DEF TypeOK, Connect, Handles, Steps, Passed, Admitted

\* A handler that loads a configuration.
LEMMA LoadSteps ==
  ASSUME TypeOK, NEW c \in Clients, LoadConfig(c)
  PROVE  /\ Steps(c)
         /\ client'[c].pc = "loaded" /\ client'[c].proxy = client[c].proxy
         /\ client'[c].cfg = config[client[c].proxy]
<1> DEFINE cfg == config[client[c].proxy]
<1>1. cfg \in Configs
  BY DEF TypeOK
<1> HIDE DEF cfg
<1>2. client' = [client EXCEPT ![c].pc = "loaded", ![c].cfg = cfg] /\ client[c].right
  BY DEF LoadConfig, cfg
<1>3. /\ client' \in [Clients -> ClientType]
      /\ client'[c].pc = "loaded" /\ client'[c].proxy = client[c].proxy
      /\ client'[c].cfg = cfg /\ client'[c].right = client[c].right
      /\ \A d \in Clients : d # c => client'[d] = client[d]
  BY <1>1, <1>2 DEF TypeOK, ClientType, Points
<1> QED
  BY <1>2, <1>3 DEF cfg, TypeOK, Steps, LoadConfig, Handles, Passed

\* Whatever a handler does: the entry of another client is left alone, and the
\* invariants about its own follow from where it arrives.
LEMMA HandlerKeeps ==
  ASSUME IInv, Notes, NEW c \in Clients, Steps(c),
         At(c, "loaded")' =>
             client'[c].proxy = client[c].proxy /\ client'[c].cfg = config[client[c].proxy]
             /\ At(c, "offered"),
         client'[c].pc \in {"checked"} \cup Admitted => c \in allowed
  PROVE  IInv'
<1>1. TypeOK'
  BY DEF IInv, TypeOK, Steps, Notes, ClientType, Passed, At
<1>2. AllowedIsNoted'
  BY NotesEverything
<1>3. LoadedWasAllowed'
  <2> SUFFICES ASSUME NEW d \in Clients, At(d, "loaded")', Admits(client'[d].cfg, clock')
               PROVE  d \in allowed'
    BY DEF LoadedWasAllowed
  <2>1. CASE d = c
    BY <2>1 DEF IInv, AllowedIsNoted, Usable, Steps, Notes, At
  <2>2. CASE d # c
    BY <2>2 DEF IInv, LoadedWasAllowed, Steps, Notes, At
  <2> QED
    BY <2>1, <2>2
<1>4. CheckedWasAllowed'
  BY DEF IInv, CheckedWasAllowed, Steps, Notes
<1> QED
  BY <1>1, <1>2, <1>3, <1>4 DEF IInv

\* Every step of a handler keeps the invariant.
LEMMA HandlerStep == ASSUME IInv, Notes, NEW c \in Clients, Handler(c) PROVE IInv'
<1> USE DEF IInv, At, Points, Passed, Admitted
<1>1. ASSUME NEW p \in Proxies, NEW right \in BOOLEAN, Connect(c, p, right) PROVE IInv'
  BY <1>1, ConnectSteps, HandlerKeeps
<1>2. CASE RefusePassword(c)
  BY <1>2, GotoSteps, HandlerKeeps DEF RefusePassword
<1>3. CASE LoadConfig(c)
  BY <1>3, LoadSteps, HandlerKeeps DEF LoadConfig
<1>4. CASE CheckConfig(c)
  <2>1. client[c].right /\ c \in allowed
    BY <1>4 DEF CheckConfig, TypeOK, LoadedWasAllowed
  <2> QED
    BY <1>4, <2>1, GotoSteps, HandlerKeeps DEF CheckConfig
<1>5. CASE CheckSession(c)
  <2>1. client[c].right /\ c \in allowed
    BY <1>5 DEF CheckSession, TypeOK, CheckedWasAllowed
  <2> QED
    BY <1>5, <2>1, GotoSteps, HandlerKeeps DEF CheckSession
<1>6. CASE ReadConnectRequest(c)
  <2>1. client[c].right /\ c \in allowed
    BY <1>6 DEF ReadConnectRequest, TypeOK, CheckedWasAllowed
  <2> QED
    BY <1>6, <2>1, GotoSteps, HandlerKeeps DEF ReadConnectRequest
<1>7. CASE OpenStream(c)
  <2>1. client[c].right /\ c \in allowed
    BY <1>7 DEF OpenStream, TypeOK, CheckedWasAllowed
  <2> QED
    BY <1>7, <2>1, GotoSteps, HandlerKeeps DEF OpenStream
<1>8. CASE HandlerReturns(c)
  BY <1>8, GotoSteps, HandlerKeeps DEF HandlerReturns
<1> QED
  BY <1>1, <1>2, <1>3, <1>4, <1>5, <1>6, <1>7, <1>8 DEF Handler

\* A step of the rest of the world leaves the handlers alone; the clock may move
\* on, and then a configuration that is good now was good before.
LEMMA WorldKeeps ==
  ASSUME IInv, Notes, UNCHANGED client, config' \in [Proxies -> Configs],
         online' \subseteq Proxies, clock' \in {clock, clock + 1}, clock' \in Moments
  PROVE  IInv'
<1>1. TypeOK'
  BY DEF IInv, TypeOK, Notes, At
<1>2. AllowedIsNoted'
  BY NotesEverything
<1>3. LoadedWasAllowed'
  <2> SUFFICES ASSUME NEW d \in Clients, At(d, "loaded"), Admits(client[d].cfg, clock')
               PROVE  d \in allowed
    BY DEF LoadedWasAllowed, Notes, At
  <2>1. Admits(client[d].cfg, clock)
    <3>1. clock \in Moments /\ client[d].cfg \in Configs
      BY DEF IInv, TypeOK
    <3>2. IsExpired(client[d].cfg, clock) => IsExpired(client[d].cfg, clock')
      BY <3>1, ConfigsAssumption DEF IsExpired, Configs, Moments, Never
    <3> QED
      BY <3>2 DEF Admits
  <2> QED
    BY <2>1 DEF IInv, LoadedWasAllowed
<1>4. CheckedWasAllowed'
  BY DEF IInv, CheckedWasAllowed, Notes
<1> QED
  BY <1>1, <1>2, <1>3, <1>4 DEF IInv

\* So do sessions that start and end, saves and the clock.
LEMMA WorldStep == ASSUME IInv, Notes, World PROVE IInv'
<1> USE DEF IInv, TypeOK
<1>1. ASSUME NEW p \in Proxies, SessionStarts(p) PROVE IInv'
  BY <1>1, WorldKeeps DEF SessionStarts
<1>2. ASSUME NEW p \in Proxies, SessionEnds(p) PROVE IInv'
  BY <1>2, WorldKeeps DEF SessionEnds
<1>3. ASSUME NEW p \in Proxies, NEW enabled \in BOOLEAN, NEW permanent \in BOOLEAN,
             NEW date \in Moments \cup {Never},
             SaveProxyConfig(p, enabled, permanent, date), UNCHANGED <<clock, online, client>>
      PROVE  IInv'
  <2>1. config' \in [Proxies -> Configs]
    BY <1>3, Normalized DEF SaveProxyConfig, saveProxyConfig
  <2> QED
    BY <1>3, <2>1, WorldKeeps DEF SaveProxyConfig
<1>4. ASSUME TimePasses PROVE IInv'
  <2>1. clock + 1 \in Moments
    BY <1>4, ConfigsAssumption DEF TimePasses, Moments
  <2> QED
    BY <1>4, <2>1, WorldKeeps DEF TimePasses
<1> QED
  BY <1>1, <1>2, <1>3, <1>4 DEF World

\* Every step keeps the invariant.
LEMMA StepKeepsIInv == IInv /\ [GateNext]_vars => IInv'
<1> SUFFICES ASSUME IInv, [GateNext]_vars PROVE IInv'
  OBVIOUS
<1>1. CASE GateNext
  <2>1. Notes
    BY <1>1 DEF GateNext, Notes
  <2> QED
    BY <1>1, <2>1, HandlerStep, WorldStep DEF GateNext
<1>2. CASE UNCHANGED vars
  BY <1>2 DEF vars, IInv, TypeOK, AllowedIsNoted, LoadedWasAllowed, CheckedWasAllowed,
              Usable, At
<1> QED
  BY <1>1, <1>2

\* The configurations, the clock and the handlers are well typed, and nobody gets
\* past the password without it.
THEOREM TypeCorrect == GateSpec => []TypeOK
<1>1. IInv => TypeOK
  BY DEF IInv
<1> QED
  BY Initially, StepKeepsIInv, <1>1, PTL DEF GateSpec

\* Whoever is let in had a proxy that could be used at some moment since the
\* connection began, whatever is saved and however late the clock is read.
THEOREM BarredAlwaysStayOut == GateSpec => []BarredStayOut
<1>1. IInv => BarredStayOut
  BY DEF IInv, CheckedWasAllowed, BarredStayOut
<1> QED
  BY Initially, StepKeepsIInv, <1>1, PTL DEF GateSpec
================================================================================
