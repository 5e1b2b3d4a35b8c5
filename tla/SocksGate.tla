------------------------------- MODULE SocksGate -------------------------------
(* Who is let through the SOCKS entry (internal/server/socks_entry.go).  The    *)
(* handler of a connection reads the password, loads the proxy's configuration, *)
(* looks at the clock, looks for a session, and looks for one again before it   *)
(* opens a stream; the administrator, the clock and the agents do not wait for  *)
(* it.  Which session a stream is opened in, and how its data flows, is the     *)
(* subject of RelaySessions and StreamRelay: here a proxy has one or has none.  *)
EXTENDS ProxyConfigs

CONSTANTS Clients      \* connections to the SOCKS entry

VARIABLES clock,       \* the server's time
          online,      \* proxies with an agent's session
          client,      \* the connections and the state of their handlers
          allowed      \* history: connections whose proxy could be used, at some
                       \* moment since they began

vars == <<config, clock, online, client, allowed>>

Points == {"away", "offered", "loaded", "checked", "accepted", "requested", "open", "over"}
\* The handler has answered that the password is accepted.
Admitted == {"accepted", "requested", "open"}

At(c, point) == client[c].pc = point
Usable(p) == Admits(config[p], clock)

\* GetSessionByProxyID, as far as it tells whether there is a session.
GetSessionByProxyID(p) == p \in online

GateInit ==
    /\ ConfigsInit
    /\ clock = 0
    /\ online = {}
    /\ client = [c \in Clients |-> [pc |-> "away", proxy |-> CHOOSE p \in Proxies : TRUE,
                                    right |-> FALSE, cfg |-> defaultProxyConfig]]
    /\ allowed = {}

Goto(c, point) == client' = [client EXCEPT ![c].pc = point]
Handles(c) == UNCHANGED <<config, clock, online>>

-------------------------------------------------------------------------------
\* handleConn and handshake, up to the password: the connection is tracked, and
\* offers a proxy ID with the shared token or with another word.
Connect(c, p, right) ==
    /\ At(c, "away")
    /\ client' = [client EXCEPT ![c] =
                    [pc |-> "offered", proxy |-> p, right |-> right, cfg |-> @.cfg]]
    /\ Handles(c)

RefusePassword(c) ==
    /\ At(c, "offered")
    /\ ~client[c].right
    /\ Goto(c, "over")
    /\ Handles(c)

LoadConfig(c) ==
    /\ At(c, "offered")
    /\ client[c].right
    /\ client' = [client EXCEPT ![c].pc = "loaded", ![c].cfg = config[client[c].proxy]]
    /\ Handles(c)

\* MUTANT: the date is shown to the administrator and never looked at here.
CheckConfigEnabled(c) ==
    /\ At(c, "loaded")
    /\ client[c].cfg.enabled
    /\ Goto(c, "checked")
    /\ Handles(c)

\* The clock is read after the configuration.
CheckConfig(c) ==
    /\ At(c, "loaded")
    /\ Admits(client[c].cfg, clock)
    /\ Goto(c, "checked")
    /\ Handles(c)

CheckSession(c) ==
    /\ At(c, "checked")
    /\ GetSessionByProxyID(client[c].proxy)
    /\ Goto(c, "accepted")
    /\ Handles(c)

\* readConnectRequest: any CONNECT will do.
ReadConnectRequest(c) ==
    /\ At(c, "accepted")
    /\ Goto(c, "requested")
    /\ Handles(c)

\* The session is looked up again, and the reply comes after OpenStream.
OpenStream(c) ==
    /\ At(c, "requested")
    /\ GetSessionByProxyID(client[c].proxy)
    /\ Goto(c, "open")
    /\ Handles(c)

\* Any check, load, read, write or open that fails, the client that leaves, and
\* the stream that ends: handleConn returns and closes the connection.
HandlerReturns(c) ==
    /\ client[c].pc \notin {"away", "over"}
    /\ Goto(c, "over")
    /\ Handles(c)

-------------------------------------------------------------------------------
\* The sessions of agents come and go.
SessionStarts(p) ==
    /\ online' = online \cup {p}
    /\ UNCHANGED <<config, clock, client>>

SessionEnds(p) ==
    /\ online' = online \ {p}
    /\ UNCHANGED <<config, clock, client>>

TimePasses ==
    /\ clock < LastMoment
    /\ clock' = clock + 1
    /\ UNCHANGED <<config, online, client>>

Handler(c) ==
    \/ \E p \in Proxies, right \in BOOLEAN : Connect(c, p, right)
    \/ RefusePassword(c) \/ LoadConfig(c) \/ CheckConfig(c) \/ CheckSession(c)
    \/ ReadConnectRequest(c) \/ OpenStream(c) \/ HandlerReturns(c)

World ==
    \/ \E p \in Proxies : SessionStarts(p) \/ SessionEnds(p)
    \/ /\ \E p \in Proxies, enabled, permanent \in BOOLEAN, date \in Moments \cup {Never} :
             SaveProxyConfig(p, enabled, permanent, date)
       /\ UNCHANGED <<clock, online, client>>
    \/ TimePasses

GateNext ==
    /\ (\E c \in Clients : Handler(c)) \/ World
    /\ allowed' = allowed \cup {c \in Clients : /\ client'[c].pc \notin {"away", "over"}
                                                /\ Usable(client[c].proxy)'}

GateSpec == GateInit /\ [][GateNext]_vars

-------------------------------------------------------------------------------
TypeOK ==
    /\ config \in [Proxies -> Configs]
    /\ clock \in Moments
    /\ online \subseteq Proxies
    /\ client \in [Clients -> [pc : Points, proxy : Proxies, right : BOOLEAN, cfg : Configs]]
    /\ allowed \subseteq Clients
    /\ \A c \in Clients : client[c].pc \in {"loaded", "checked"} \cup Admitted => client[c].right

\* Nobody is let in whose proxy was disabled or out of date at every moment since
\* the connection began: the configuration is loaded at one moment, compared with
\* the clock at another, and may be saved in between (socks_entry.go:248-264).
BarredStayOut == \A c \in Clients : client[c].pc \in Admitted => c \in allowed
================================================================================
