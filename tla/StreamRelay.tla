------------------------------ MODULE StreamRelay ------------------------------
(* One agent session, from setActive on, and the streams relayed over it:      *)
(* the SOCKS handlers and                                                      *)
(* their pumps (internal/server/socks_entry.go), the RelaySession and its read *)
(* loop (internal/server/relay.go), the agent's reader, main loop and pumps    *)
(* (cmd/tunnel-agent/app_v2.go), and the connection between the two programs.  *)
(*                                                                             *)
(* A stream is named once (randomHex makes its ID).  A chunk is the number of  *)
(* its place in its direction.  The connection is two FIFO queues that take    *)
(* whatever is written.  Time is left out: a timeout may fire whenever its     *)
(* select waits.                                                               *)
EXTENDS Naturals, Sequences

CONSTANTS Streams,
          DataCap,      \* capacity of DataCh: 32 in the code
          MaxDown,      \* bound: chunks a target sends on a stream
          MaxUp,        \* bound: chunks a client sends on a stream
          MaxFaults,    \* bound: ends of the session that come from outside
          None          \* no stream

ASSUME CapAssumption == DataCap \in Nat \ {0} /\ {MaxDown, MaxUp, MaxFaults} \subseteq Nat
ASSUME NoneAssumption == None \notin Streams

VARIABLES
    \* the SOCKS side
    handler,        \* where SocksEntryServer.handleConn of a stream is
    client,         \* the client's end of the SOCKS connection
    upPump, downPump,
    upRead,         \* chunks the up pump has read from the client
    received,       \* chunks written to the client
    held,           \* the chunk the down pump is writing, 0 for none
    \* the session
    streams,        \* RelaySession.streams
    openCh, dataCh,
    reason,         \* closeOnce: "" until run, then the reason sent on DoneCh
    reader,         \* the read loop of RelayServer.handleConn
    closer,         \* another session's setActive, or Shutdown, calling Close
    sweep,          \* CloseAllStreams: the IDs that the two may still have to close
    routable,       \* GetSessionByProxyID finds this session
    panicked,       \* a send on a closed channel ended the server
    \* the connection
    serverOpen, agentOpen, linkUp,
    faults,         \* history: how many of the outside ends have happened
    toAgent, toServer,
    \* the agent
    agent,          \* the main loop of runRelayClient
    agentReader,
    agentStreams,   \* the map of runRelayClient
    target,         \* the target connection of a stream
    localPump,      \* pumpLocalToRelay
    downRead,       \* chunks it has read from the target
    written         \* chunks the agent has written to the target

socksVars == <<handler, client, upPump, downPump, upRead, received, held>>
streamVars == <<streams, openCh, dataCh, reason>>
sessionVars == <<reader, closer, sweep, routable, panicked>>
linkVars == <<serverOpen, agentOpen, linkUp, faults>>
wireVars == <<toAgent, toServer>>
agentVars == <<agent, agentReader, agentStreams, target, localPump, downRead, written>>
vars == <<socksVars, streamVars, sessionVars, linkVars, wireVars, agentVars>>

-------------------------------------------------------------------------------
HandlerPoints == {"idle", "routed", "opening", "waiting", "opened", "pumping",
                  "closing", "notifying", "done", "refused", "timedout"}
Finished == {"done", "refused", "timedout"}   \* handleConn has closed the client

Messages == [type : {"registered", "error", "open", "ok", "fail", "data", "close"},
             stream : Streams \cup {None}, chunk : Nat]
Msg(type, s, n) == [type |-> type, stream |-> s, chunk |-> n]

Reasons == {"", "client closed", "local connection closed", "server stream blocked",
            "agent disconnected", "session closed"}

ServerCanSend == serverOpen /\ linkUp
AgentCanSend == agentOpen /\ linkUp

\* A message sent to an end that has closed its side disappears.
SendToAgent(m) == toAgent' = IF agentOpen THEN Append(toAgent, m) ELSE toAgent
SendToServer(m) == toServer' = IF serverOpen THEN Append(toServer, m) ELSE toServer

\* CloseStreamWithReason: nothing for an unknown stream, otherwise closeOnce.
\* The reason, the closed channels and the removal become visible at once: the
\* lookups of the other goroutines come before or after.
CloseWithReason(s, why) ==
    IF s \in streams
    THEN /\ reason' = [reason EXCEPT ![s] = why]
         /\ streams' = streams \ {s}
    ELSE UNCHANGED <<reason, streams>>

Init ==
    /\ handler = [s \in Streams |-> "idle"]
    /\ client = [s \in Streams |-> "open"]
    /\ upPump = [s \in Streams |-> "none"]
    /\ downPump = [s \in Streams |-> "none"]
    /\ upRead = [s \in Streams |-> 0]
    /\ received = [s \in Streams |-> <<>>]
    /\ held = [s \in Streams |-> 0]
    /\ streams = {}
    /\ openCh = [s \in Streams |-> <<>>]
    /\ dataCh = [s \in Streams |-> <<>>]
    /\ reason = [s \in Streams |-> ""]
    /\ reader = [at |-> "acking", stream |-> None, chunk |-> 0]
    /\ closer = "none"
    /\ sweep = [k \in {"reader", "closer"} |-> {}]
    /\ routable = TRUE
    /\ panicked = FALSE
    /\ serverOpen = TRUE
    /\ agentOpen = TRUE
    /\ linkUp = TRUE
    /\ faults = 0
    /\ toAgent = <<>>
    /\ toServer = <<>>
    /\ agent = "greeting"
    /\ agentReader = [at |-> "none", stream |-> None]
    /\ agentStreams = {}
    /\ target = [s \in Streams |-> "none"]
    /\ localPump = [s \in Streams |-> "none"]
    /\ downRead = [s \in Streams |-> 0]
    /\ written = [s \in Streams |-> <<>>]

-------------------------------------------------------------------------------
\* Where the goroutines of the server are, while there is a server.
HandlerAt(s, point) == ~panicked /\ handler[s] = point
UpPumpRuns(s) == ~panicked /\ upPump[s] = "running"
DownPumpAt(s, point) == ~panicked /\ downPump[s] = point
ReaderIs(point) == ~panicked /\ reader.at = point
CloserIs(point) == ~panicked /\ closer = point

-------------------------------------------------------------------------------
(* SocksEntryServer.handleConn, OpenStream and CloseStream *)

\* The handshake and the CONNECT request are behind; GetSessionByProxyID
\* answers with this session.  The session may end before it is used.
Route(s) ==
    /\ HandlerAt(s, "idle")
    /\ routable
    /\ handler' = [handler EXCEPT ![s] = "routed"]
    /\ UNCHANGED <<client, upPump, downPump, upRead, received, held,
                   streamVars, sessionVars, linkVars, wireVars, agentVars>>

RegisterStream(s) ==
    /\ HandlerAt(s, "routed")
    /\ handler' = [handler EXCEPT ![s] = "opening"]
    /\ streams' = streams \cup {s}
    /\ UNCHANGED <<client, upPump, downPump, upRead, received, held, openCh, dataCh, reason,
                   sessionVars, linkVars, wireVars, agentVars>>

SendOpen(s) ==
    /\ HandlerAt(s, "opening")
    /\ IF ServerCanSend
       THEN /\ handler' = [handler EXCEPT ![s] = "waiting"]
            /\ SendToAgent(Msg("open", s, 0))
            /\ UNCHANGED streams
       ELSE /\ handler' = [handler EXCEPT ![s] = "refused"]
            /\ streams' = streams \ {s}
            /\ UNCHANGED toAgent
    /\ UNCHANGED <<client, upPump, downPump, upRead, received, held, openCh, dataCh, reason,
                   sessionVars, linkVars, toServer, agentVars>>

\* OpenStream returns.  An error reply and closing the client follow at once.
OpenResolved(s) ==
    /\ HandlerAt(s, "waiting")
    /\ openCh[s] # <<>>
    /\ openCh' = [openCh EXCEPT ![s] = Tail(@)]
    /\ IF Head(openCh[s]) = "ok"
       THEN handler' = [handler EXCEPT ![s] = "opened"] /\ UNCHANGED streams
       ELSE handler' = [handler EXCEPT ![s] = "refused"] /\ streams' = streams \ {s}
    /\ UNCHANGED <<client, upPump, downPump, upRead, received, held, dataCh, reason,
                   sessionVars, linkVars, wireVars, agentVars>>

\* Mutant: the timeout leaves the stream in the map.
OpenTimesOutLeaks(s) ==
    /\ HandlerAt(s, "waiting")
    /\ handler' = [handler EXCEPT ![s] = "timedout"]
    /\ UNCHANGED <<client, upPump, downPump, upRead, received, held,
                   streamVars, sessionVars, linkVars, wireVars, agentVars>>

\* After 10 s.  The agent is not told, and the channels stay open.
OpenTimesOut(s) ==
    /\ HandlerAt(s, "waiting")
    /\ handler' = [handler EXCEPT ![s] = "timedout"]
    /\ streams' = streams \ {s}
    /\ UNCHANGED <<client, upPump, downPump, upRead, received, held, openCh, dataCh, reason,
                   sessionVars, linkVars, wireVars, agentVars>>

\* The success reply fails only if the client has gone.
ReplyOpened(s) ==
    /\ HandlerAt(s, "opened")
    /\ \/ /\ handler' = [handler EXCEPT ![s] = "pumping"]
          /\ upPump' = [upPump EXCEPT ![s] = "running"]
          /\ downPump' = [downPump EXCEPT ![s] = "running"]
       \/ /\ client[s] = "gone"
          /\ handler' = [handler EXCEPT ![s] = "closing"]
          /\ UNCHANGED <<upPump, downPump>>
    /\ UNCHANGED <<client, upRead, received, held,
                   streamVars, sessionVars, linkVars, wireVars, agentVars>>

\* <-errCh: one pump has ended.
PumpEnded(s) ==
    /\ HandlerAt(s, "pumping")
    /\ upPump[s] = "ended" \/ downPump[s] = "ended"
    /\ handler' = [handler EXCEPT ![s] = "closing"]
    /\ UNCHANGED <<client, upPump, downPump, upRead, received, held,
                   streamVars, sessionVars, linkVars, wireVars, agentVars>>

\* The deferred CloseStream, first half.
CloseStream(s) ==
    /\ HandlerAt(s, "closing")
    /\ handler' = [handler EXCEPT ![s] = "notifying"]
    /\ CloseWithReason(s, "client closed")
    /\ UNCHANGED <<client, upPump, downPump, upRead, received, held, openCh, dataCh,
                   sessionVars, linkVars, wireVars, agentVars>>

\* Mutant: the agent is told only of a stream that was not closed before.
NotifyAgentOfOwnClose(s) ==
    /\ HandlerAt(s, "notifying")
    /\ handler' = [handler EXCEPT ![s] = "done"]
    /\ IF ServerCanSend /\ reason[s] = "client closed"
       THEN SendToAgent(Msg("close", s, 0)) ELSE UNCHANGED toAgent
    /\ UNCHANGED <<client, upPump, downPump, upRead, received, held,
                   streamVars, sessionVars, linkVars, toServer, agentVars>>

\* Mutant: the agent is not told at all.
NotifyNobody(s) ==
    /\ HandlerAt(s, "notifying")
    /\ handler' = [handler EXCEPT ![s] = "done"]
    /\ UNCHANGED <<client, upPump, downPump, upRead, received, held,
                   streamVars, sessionVars, linkVars, wireVars, agentVars>>

\* Second half: stream_close to the agent, then the client is closed.
NotifyAgent(s) ==
    /\ HandlerAt(s, "notifying")
    /\ handler' = [handler EXCEPT ![s] = "done"]
    /\ IF ServerCanSend THEN SendToAgent(Msg("close", s, 0)) ELSE UNCHANGED toAgent
    /\ UNCHANGED <<client, upPump, downPump, upRead, received, held,
                   streamVars, sessionVars, linkVars, toServer, agentVars>>

-------------------------------------------------------------------------------
(* The two pumps of handleConn.  They may outlive it. *)

\* Mutant: the pump sends what its buffer held before the read.
PumpUpStaleBuffer(s) ==
    /\ UpPumpRuns(s)
    /\ client[s] = "open" /\ handler[s] \notin Finished
    /\ upRead[s] < MaxUp
    /\ upRead' = [upRead EXCEPT ![s] = @ + 1]
    /\ IF ServerCanSend
       THEN SendToAgent(Msg("data", s, upRead[s])) /\ UNCHANGED upPump
       ELSE upPump' = [upPump EXCEPT ![s] = "ended"] /\ UNCHANGED toAgent
    /\ UNCHANGED <<handler, client, downPump, received, held,
                   streamVars, sessionVars, linkVars, toServer, agentVars>>

\* The client sends a chunk and the up pump passes it on: one Read, one Send.
PumpUp(s) ==
    /\ UpPumpRuns(s)
    /\ client[s] = "open" /\ handler[s] \notin Finished
    /\ upRead[s] < MaxUp
    /\ upRead' = [upRead EXCEPT ![s] = @ + 1]
    /\ IF ServerCanSend
       THEN SendToAgent(Msg("data", s, upRead[s] + 1)) /\ UNCHANGED upPump
       ELSE upPump' = [upPump EXCEPT ![s] = "ended"] /\ UNCHANGED toAgent
    /\ UNCHANGED <<handler, client, downPump, received, held,
                   streamVars, sessionVars, linkVars, toServer, agentVars>>

\* Read fails: EOF, reset, or handleConn has closed the connection.
UpPumpEnds(s) ==
    /\ UpPumpRuns(s)
    /\ client[s] # "open" \/ handler[s] \in Finished
    /\ upPump' = [upPump EXCEPT ![s] = "ended"]
    /\ UNCHANGED <<handler, client, downPump, upRead, received, held,
                   streamVars, sessionVars, linkVars, wireVars, agentVars>>

TakeChunk(s) ==
    /\ DownPumpAt(s, "running")
    /\ dataCh[s] # <<>>
    /\ downPump' = [downPump EXCEPT ![s] = "writing"]
    /\ held' = [held EXCEPT ![s] = Head(dataCh[s])]
    /\ dataCh' = [dataCh EXCEPT ![s] = Tail(@)]
    /\ UNCHANGED <<handler, client, upPump, upRead, received, streams, openCh, reason,
                   sessionVars, linkVars, wireVars, agentVars>>

\* A client that does not read keeps the pump in this write.
WriteChunk(s) ==
    /\ DownPumpAt(s, "writing")
    /\ client[s] # "gone" /\ handler[s] \notin Finished
    /\ downPump' = [downPump EXCEPT ![s] = "running"]
    /\ held' = [held EXCEPT ![s] = 0]
    /\ received' = [received EXCEPT ![s] = Append(@, held[s])]
    /\ UNCHANGED <<handler, client, upPump, upRead,
                   streamVars, sessionVars, linkVars, wireVars, agentVars>>

WriteFails(s) ==
    /\ DownPumpAt(s, "writing")
    /\ client[s] = "gone" \/ handler[s] \in Finished
    /\ downPump' = [downPump EXCEPT ![s] = "ended"]
    /\ held' = [held EXCEPT ![s] = 0]
    /\ UNCHANGED <<handler, client, upPump, upRead, received,
                   streamVars, sessionVars, linkVars, wireVars, agentVars>>

\* The select takes DoneCh, or DataCh when it is closed and drained.  When both
\* are ready it takes either, so that chunks may be left behind.
DownPumpEnds(s) ==
    /\ DownPumpAt(s, "running")
    /\ reason[s] # ""
    /\ downPump' = [downPump EXCEPT ![s] = "ended"]
    /\ UNCHANGED <<handler, client, upPump, upRead, received, held,
                   streamVars, sessionVars, linkVars, wireVars, agentVars>>

\* A client may end its sending or go at any time; before the reply and after
\* its connection is closed nobody looks.
Watched(s) == ~panicked /\ handler[s] \in {"opened", "pumping", "closing", "notifying"}

ClientShutsSending(s) ==
    /\ client[s] = "open" /\ Watched(s)
    /\ client' = [client EXCEPT ![s] = "eof"]
    /\ UNCHANGED <<handler, upPump, downPump, upRead, received, held,
                   streamVars, sessionVars, linkVars, wireVars, agentVars>>

ClientGone(s) ==
    /\ client[s] # "gone" /\ Watched(s)
    /\ client' = [client EXCEPT ![s] = "gone"]
    /\ UNCHANGED <<handler, upPump, downPump, upRead, received, held,
                   streamVars, sessionVars, linkVars, wireVars, agentVars>>

-------------------------------------------------------------------------------
(* The session: RelayServer.handleConn from setActive on, and RelaySession.Close *)

ReaderAt(at) == [at |-> at, stream |-> None, chunk |-> 0]

\* The session is routable before register_ok is sent.
SendAck ==
    /\ ReaderIs("acking")
    /\ IF ServerCanSend
       THEN reader' = ReaderAt("reading") /\ SendToAgent(Msg("registered", None, 0))
       ELSE reader' = ReaderAt("leaving") /\ UNCHANGED toAgent
    /\ UNCHANGED <<closer, sweep, routable, panicked,
                   socksVars, streamVars, linkVars, toServer, agentVars>>

\* stream_ok, with OK true or false: ResolveOpen looks the stream up.
ReadAnswer(m) ==
    /\ m.type \in {"ok", "fail"}
    /\ reader' = IF m.stream \in streams
                 THEN [at |-> m.type, stream |-> m.stream, chunk |-> 0] ELSE reader
    /\ UNCHANGED <<streams, reason>>

\* stream_data: PushData looks the stream up.
ReadData(m) ==
    /\ m.type = "data"
    /\ reader' = IF m.stream \in streams
                 THEN [at |-> "pushing", stream |-> m.stream, chunk |-> m.chunk] ELSE reader
    /\ UNCHANGED <<streams, reason>>

\* Mutant: the agent's message is replaced by one nobody knows.
ReadCloseUnknownReason(m) ==
    /\ m.type = "close"
    /\ CloseWithReason(m.stream, "closed")
    /\ UNCHANGED reader

ReadClose(m) ==
    /\ m.type = "close"
    /\ CloseWithReason(m.stream, "local connection closed")
    /\ UNCHANGED reader

Read ==
    /\ ReaderIs("reading")
    /\ ServerCanSend /\ toServer # <<>>
    /\ toServer' = Tail(toServer)
    /\ LET m == Head(toServer) IN ReadAnswer(m) \/ ReadData(m) \/ ReadClose(m)
    /\ UNCHANGED <<closer, sweep, routable, panicked, openCh, dataCh,
                   socksVars, linkVars, toAgent, agentVars>>

\* ResolveOpen's send on OpenCh, which has room for one answer.
ResolveOpen ==
    /\ ReaderIs("ok") \/ ReaderIs("fail")
    /\ openCh[reader.stream] = <<>>
    /\ openCh' = [openCh EXCEPT ![reader.stream] = <<reader.at>>]
    /\ reader' = ReaderAt("reading")
    /\ UNCHANGED <<closer, sweep, routable, panicked, streams, dataCh, reason,
                   socksVars, linkVars, wireVars, agentVars>>

\* PushData's send on DataCh.  On a channel that was closed since the lookup, or
\* while the send was blocked, it panics; nothing recovers, and the process and
\* its connections are gone.
PushData ==
    LET s == reader.stream IN
    /\ ReaderIs("pushing")
    /\ \/ /\ reason[s] # ""
          /\ panicked' = TRUE
          /\ serverOpen' = FALSE
          /\ UNCHANGED <<dataCh, reader>>
       \/ /\ reason[s] = "" /\ Len(dataCh[s]) < DataCap
          /\ dataCh' = [dataCh EXCEPT ![s] = Append(@, reader.chunk)]
          /\ reader' = ReaderAt("reading")
          /\ UNCHANGED <<panicked, serverOpen>>
    /\ UNCHANGED <<closer, sweep, routable, streams, openCh, reason, agentOpen, linkUp, faults,
                   socksVars, wireVars, agentVars>>

\* Mutant: the chunk that finds no room is dropped, the stream goes on.
PushDropsChunk ==
    /\ ReaderIs("pushing")
    /\ reason[reader.stream] = "" /\ Len(dataCh[reader.stream]) = DataCap
    /\ reader' = ReaderAt("reading")
    /\ UNCHANGED <<closer, sweep, routable, panicked, streamVars,
                   socksVars, linkVars, wireVars, agentVars>>

\* After 5 s on a full channel.
PushTimesOut ==
    /\ ReaderIs("pushing")
    /\ reason[reader.stream] = "" /\ Len(dataCh[reader.stream]) = DataCap
    /\ CloseWithReason(reader.stream, "server stream blocked")
    /\ reader' = ReaderAt("reading")
    /\ UNCHANGED <<closer, sweep, routable, panicked, openCh, dataCh,
                   socksVars, linkVars, wireVars, agentVars>>

\* Decode fails on a closed connection, on a reset one, and at the end of what a
\* departed agent has sent.
ReadFails ==
    /\ ReaderIs("reading")
    /\ ~ServerCanSend \/ (~agentOpen /\ toServer = <<>>)
    /\ reader' = ReaderAt("leaving")
    /\ UNCHANGED <<closer, sweep, routable, panicked,
                   socksVars, streamVars, linkVars, wireVars, agentVars>>

\* What ends a session from outside is counted.
Fault == faults < MaxFaults /\ faults' = faults + 1

\* A ping was not accepted, for Touch failed or knows no such agent: the agent is told,
\* and the loop is left.
TouchRefused ==
    /\ Fault
    /\ ReaderIs("reading") /\ ServerCanSend
    /\ reader' = ReaderAt("leaving")
    /\ SendToAgent(Msg("error", None, 0))
    /\ UNCHANGED <<closer, sweep, routable, panicked, serverOpen, agentOpen, linkUp,
                   socksVars, streamVars, toServer, agentVars>>

\* Mutant: the streams of the session are not closed.
RemoveActiveKeepsStreams ==
    /\ ReaderIs("leaving")
    /\ reader' = ReaderAt("sweeping")
    /\ routable' = FALSE
    /\ UNCHANGED <<closer, sweep, panicked, socksVars, streamVars, linkVars, wireVars,
                   agentVars>>

\* removeActive: off the maps, then CloseAllStreams over a snapshot of the IDs.
RemoveActive ==
    /\ ReaderIs("leaving")
    /\ reader' = ReaderAt("sweeping")
    /\ routable' = FALSE
    /\ sweep' = [sweep EXCEPT !["reader"] = streams]
    /\ UNCHANGED <<closer, panicked, socksVars, streamVars, linkVars, wireVars, agentVars>>

\* The deferred conn.Close of handleConn.
HandleConnReturns ==
    /\ ReaderIs("sweeping")
    /\ sweep["reader"] = {}
    /\ reader' = ReaderAt("exited")
    /\ serverOpen' = FALSE
    /\ UNCHANGED <<closer, sweep, routable, panicked, agentOpen, linkUp, faults,
                   socksVars, streamVars, wireVars, agentVars>>

\* A successor's setActive takes over the maps; Shutdown leaves them alone.
CloseRequested ==
    /\ Fault
    /\ CloserIs("none")
    /\ closer' = "called"
    /\ routable' \in {routable, FALSE}
    /\ UNCHANGED <<reader, sweep, panicked, serverOpen, agentOpen, linkUp,
                   socksVars, streamVars, wireVars, agentVars>>

CloseAllStreams ==
    /\ CloserIs("called")
    /\ closer' = "sweeping"
    /\ sweep' = [sweep EXCEPT !["closer"] = streams]
    /\ UNCHANGED <<reader, routable, panicked,
                   socksVars, streamVars, linkVars, wireVars, agentVars>>

CloseReturns ==
    /\ CloserIs("sweeping")
    /\ sweep["closer"] = {}
    /\ closer' = "returned"
    /\ serverOpen' = FALSE
    /\ UNCHANGED <<reader, sweep, routable, panicked, agentOpen, linkUp, faults,
                   socksVars, streamVars, wireVars, agentVars>>

\* One turn of the loop of CloseAllStreams.
SweepStream(k, s) ==
    /\ ~panicked
    /\ s \in sweep[k]
    /\ sweep' = [sweep EXCEPT ![k] = @ \ {s}]
    /\ CloseWithReason(s, IF k = "reader" THEN "agent disconnected" ELSE "session closed")
    /\ UNCHANGED <<reader, closer, routable, panicked, openCh, dataCh,
                   socksVars, linkVars, wireVars, agentVars>>

\* The network fails, or the reset of a closed peer arrives.
LinkBreaks ==
    /\ Fault
    /\ linkUp
    /\ linkUp' = FALSE
    /\ toAgent' = <<>> /\ toServer' = <<>>
    /\ UNCHANGED <<serverOpen, agentOpen, socksVars, streamVars, sessionVars, agentVars>>

-------------------------------------------------------------------------------
(* The agent: runRelayClient and pumpLocalToRelay *)

\* closeRelayStreams and the deferred conn.Close.
AgentLeaves ==
    /\ agent' = "left"
    /\ target' = [s \in Streams |-> IF s \in agentStreams THEN "closed" ELSE target[s]]
    /\ agentStreams' = {}
    /\ agentOpen' = FALSE

\* The first message must be register_ok.
ReceiveAck ==
    /\ agent = "greeting"
    /\ AgentCanSend /\ toAgent # <<>>
    /\ toAgent' = Tail(toAgent)
    /\ IF Head(toAgent).type = "registered"
       THEN /\ agent' = "running"
            /\ agentReader' = [at |-> "reading", stream |-> None]
            /\ UNCHANGED <<target, agentStreams, agentOpen>>
       ELSE AgentLeaves /\ UNCHANGED agentReader
    /\ UNCHANGED <<localPump, downRead, written, serverOpen, linkUp, faults,
                   socksVars, streamVars, sessionVars, toServer>>

AgentReads(type, s) ==
    /\ agentReader.at = "reading"
    /\ AgentCanSend /\ toAgent # <<>>
    /\ Head(toAgent).type = type /\ Head(toAgent).stream = s
    /\ toAgent' = Tail(toAgent)

\* stream_open: the reader dials, up to 15 s, and reads nothing meanwhile.
AgentReadsOpen(s) ==
    /\ AgentReads("open", s)
    /\ agentReader' = [at |-> "dialing", stream |-> s]
    /\ UNCHANGED <<agent, agentStreams, target, localPump, downRead, written,
                   socksVars, streamVars, sessionVars, linkVars, toServer>>

DialFails(s) ==
    /\ agentReader = [at |-> "dialing", stream |-> s]
    /\ agentReader' = [at |-> "reading", stream |-> None]
    /\ IF AgentCanSend THEN SendToServer(Msg("fail", s, 0)) ELSE UNCHANGED toServer
    /\ UNCHANGED <<agent, agentStreams, target, localPump, downRead, written,
                   socksVars, streamVars, sessionVars, linkVars, toAgent>>

\* Mutant: the pump starts before the open is answered.
DialSucceedsPumping(s) ==
    /\ agentReader = [at |-> "dialing", stream |-> s]
    /\ agentReader' = [at |-> "acking", stream |-> s]
    /\ agentStreams' = agentStreams \cup {s}
    /\ target' = [target EXCEPT ![s] = "open"]
    /\ localPump' = [localPump EXCEPT ![s] = "running"]
    /\ UNCHANGED <<agent, downRead, written,
                   socksVars, streamVars, sessionVars, linkVars, wireVars>>

DialSucceeds(s) ==
    /\ agentReader = [at |-> "dialing", stream |-> s]
    /\ agentReader' = [at |-> "acking", stream |-> s]
    /\ agentStreams' = agentStreams \cup {s}
    /\ target' = [target EXCEPT ![s] = "open"]
    /\ UNCHANGED <<agent, localPump, downRead, written,
                   socksVars, streamVars, sessionVars, linkVars, wireVars>>

\* Mutant: the open is answered twice.
AnswerOpenTwice(s) ==
    /\ agentReader = [at |-> "acking", stream |-> s]
    /\ IF AgentCanSend
       THEN /\ toServer' = toServer \o <<Msg("ok", s, 0), Msg("ok", s, 0)>>
            /\ localPump' = [localPump EXCEPT ![s] = "running"]
            /\ agentReader' = [at |-> "reading", stream |-> None]
            /\ UNCHANGED target
       ELSE /\ target' = [target EXCEPT ![s] = "closed"]
            /\ agentReader' = [at |-> "ended", stream |-> None]
            /\ UNCHANGED <<toServer, localPump>>
    /\ UNCHANGED <<agent, agentStreams, downRead, written,
                   socksVars, streamVars, sessionVars, linkVars, toAgent>>

\* Mutant: a failed answer leaves the target open.
AnswerOpenLeaksTarget(s) ==
    /\ agentReader = [at |-> "acking", stream |-> s]
    /\ IF AgentCanSend
       THEN /\ SendToServer(Msg("ok", s, 0))
            /\ localPump' = [localPump EXCEPT ![s] = "running"]
            /\ agentReader' = [at |-> "reading", stream |-> None]
       ELSE /\ agentReader' = [at |-> "ended", stream |-> None]
            /\ UNCHANGED <<toServer, localPump>>
    /\ UNCHANGED <<agent, agentStreams, target, downRead, written,
                   socksVars, streamVars, sessionVars, linkVars, toAgent>>

\* stream_ok, then the pump starts; or the target is closed and the reader ends.
AnswerOpen(s) ==
    /\ agentReader = [at |-> "acking", stream |-> s]
    /\ IF AgentCanSend
       THEN /\ SendToServer(Msg("ok", s, 0))
            /\ localPump' = [localPump EXCEPT ![s] = "running"]
            /\ agentReader' = [at |-> "reading", stream |-> None]
            /\ UNCHANGED target
       ELSE /\ target' = [target EXCEPT ![s] = "closed"]
            /\ agentReader' = [at |-> "ended", stream |-> None]
            /\ UNCHANGED <<toServer, localPump>>
    /\ UNCHANGED <<agent, agentStreams, downRead, written,
                   socksVars, streamVars, sessionVars, linkVars, toAgent>>

\* stream_data: written to the target of a known stream.  A failing write closes it.
\* The write has no deadline: the step is made when the target takes the chunk, and
\* until then the reader takes nothing else.
AgentReadsData(s) ==
    /\ AgentReads("data", s)
    /\ \/ /\ s \in agentStreams /\ target[s] # "closed"
          /\ written' = [written EXCEPT ![s] = Append(@, Head(toAgent).chunk)]
          /\ UNCHANGED target
       \/ /\ s \in agentStreams /\ target[s] # "open"
          /\ target' = [target EXCEPT ![s] = "closed"]
          /\ UNCHANGED written
       \/ /\ s \notin agentStreams
          /\ UNCHANGED <<target, written>>
    /\ UNCHANGED <<agent, agentReader, agentStreams, localPump, downRead,
                   socksVars, streamVars, sessionVars, linkVars, toServer>>

AgentReadsClose(s) ==
    /\ AgentReads("close", s)
    /\ IF s \in agentStreams
       THEN agentStreams' = agentStreams \ {s} /\ target' = [target EXCEPT ![s] = "closed"]
       ELSE UNCHANGED <<agentStreams, target>>
    /\ UNCHANGED <<agent, agentReader, localPump, downRead, written,
                   socksVars, streamVars, sessionVars, linkVars, toServer>>

\* The server refused a ping.
AgentReadsError ==
    /\ AgentReads("error", None)
    /\ agentReader' = [at |-> "ended", stream |-> None]
    /\ UNCHANGED <<agent, agentStreams, target, localPump, downRead, written,
                   socksVars, streamVars, sessionVars, linkVars, toServer>>

AgentReadFails ==
    /\ agentReader.at = "reading"
    /\ ~AgentCanSend \/ (~serverOpen /\ toAgent = <<>>)
    /\ agentReader' = [at |-> "ended", stream |-> None]
    /\ UNCHANGED <<agent, agentStreams, target, localPump, downRead, written,
                   socksVars, streamVars, sessionVars, linkVars, wireVars>>

\* The main loop hears of the reader's end, or fails to send a ping, or never
\* got an answer to its registration.
AgentMainReturns ==
    /\ \/ agent = "running" /\ (agentReader.at = "ended" \/ ~linkUp)
       \/ agent = "greeting" /\ (~linkUp \/ (~serverOpen /\ toAgent = <<>>))
    /\ AgentLeaves
    /\ UNCHANGED <<agentReader, localPump, downRead, written, serverOpen, linkUp, faults,
                   socksVars, streamVars, sessionVars, wireVars>>

\* The target sends a chunk: one Read of the pump, one Send.
PumpDown(s) ==
    /\ localPump[s] = "running"
    /\ target[s] = "open"
    /\ downRead[s] < MaxDown
    /\ downRead' = [downRead EXCEPT ![s] = @ + 1]
    /\ IF AgentCanSend
       THEN SendToServer(Msg("data", s, downRead[s] + 1))
            /\ UNCHANGED <<agentStreams, target, localPump>>
       ELSE /\ localPump' = [localPump EXCEPT ![s] = "ended"]
            /\ target' = [target EXCEPT ![s] = "closed"]
            /\ agentStreams' = agentStreams \ {s}
            /\ UNCHANGED toServer
    /\ UNCHANGED <<agent, agentReader, written,
                   socksVars, streamVars, sessionVars, linkVars, toAgent>>

TargetShutsSending(s) ==
    /\ target[s] = "open"
    /\ target' = [target EXCEPT ![s] = "eof"]
    /\ UNCHANGED <<agent, agentReader, agentStreams, localPump, downRead, written,
                   socksVars, streamVars, sessionVars, linkVars, wireVars>>

\* Read fails on EOF or on a target that the agent closed: stream_close, then
\* the deferred Close and cleanup.
LocalPumpEnds(s) ==
    /\ localPump[s] = "running"
    /\ target[s] \in {"eof", "closed"}
    /\ localPump' = [localPump EXCEPT ![s] = "ended"]
    /\ IF AgentCanSend THEN SendToServer(Msg("close", s, 0)) ELSE UNCHANGED toServer
    /\ target' = [target EXCEPT ![s] = "closed"]
    /\ agentStreams' = agentStreams \ {s}
    /\ UNCHANGED <<agent, agentReader, downRead, written,
                   socksVars, streamVars, sessionVars, linkVars, toAgent>>

-------------------------------------------------------------------------------
HandlerStep(s) ==
    \/ RegisterStream(s) \/ SendOpen(s) \/ OpenResolved(s) \/ OpenTimesOut(s)
    \/ ReplyOpened(s) \/ PumpEnded(s) \/ CloseStream(s) \/ NotifyAgent(s)

DownPumpStep(s) == TakeChunk(s) \/ WriteFails(s) \/ DownPumpEnds(s)

ReaderStep ==
    \/ SendAck \/ Read \/ ResolveOpen \/ PushData \/ PushTimesOut \/ ReadFails
    \/ RemoveActive \/ (\E s \in Streams : SweepStream("reader", s)) \/ HandleConnReturns

CloserStep ==
    CloseAllStreams \/ (\E s \in Streams : SweepStream("closer", s)) \/ CloseReturns

AgentMainStep == ReceiveAck \/ AgentMainReturns

AgentReaderStep ==
    \/ AgentReadFails \/ AgentReadsError
    \/ \E s \in Streams :
          \/ AgentReadsOpen(s) \/ DialFails(s) \/ DialSucceeds(s) \/ AnswerOpen(s)
          \/ AgentReadsData(s) \/ AgentReadsClose(s)

\* The reader is in the write to a target, which alone decides when it returns.
Writing ==
    /\ agentReader.at = "reading" /\ AgentCanSend /\ toAgent # <<>>
    /\ LET m == Head(toAgent) IN
       m.type = "data" /\ m.stream \in agentStreams /\ target[m.stream] # "closed"

\* What clients, targets, other sessions, the store and the network may do.
Environment ==
    \/ CloseRequested \/ TouchRefused \/ LinkBreaks
    \/ \E s \in Streams :
          \/ Route(s) \/ PumpUp(s) \/ ClientShutsSending(s) \/ ClientGone(s)
          \/ PumpDown(s) \/ TargetShutsSending(s)

\* The process is dead, or no handler is at work.
Stopped ==
    /\ panicked \/ (\A s \in Streams : handler[s] \in Finished \cup {"idle"})
    /\ UNCHANGED vars

Next ==
    \/ ReaderStep \/ CloserStep \/ AgentMainStep \/ AgentReaderStep \/ Environment
    \/ \E s \in Streams : HandlerStep(s) \/ UpPumpEnds(s) \/ DownPumpStep(s)
                          \/ WriteChunk(s) \/ LocalPumpEnds(s)
    \/ Stopped

Spec == Init /\ [][Next]_vars

\* Every goroutine that can run does, timers fire and dials come back.  The code sets
\* no deadline for a write: neither a client nor a target owes it anything.
Fairness ==
    /\ WF_vars(ReaderStep)
    /\ WF_vars(CloserStep)
    /\ WF_vars(AgentMainStep)
    /\ WF_vars(~Writing /\ AgentReaderStep)
    /\ \A s \in Streams :
          /\ WF_vars(HandlerStep(s))
          /\ WF_vars(UpPumpEnds(s))
          /\ WF_vars(DownPumpStep(s))
          /\ WF_vars(LocalPumpEnds(s))

FairSpec == Spec /\ Fairness

\* Clients and targets that take what is sent to them, or go.
ClientsRead == \A s \in Streams : WF_vars(WriteChunk(s))
TargetsRead == \A s \in Streams : WF_vars(AgentReadsData(s))

-------------------------------------------------------------------------------
(* Properties *)

TypeOK ==
    /\ handler \in [Streams -> HandlerPoints]
    /\ client \in [Streams -> {"open", "eof", "gone"}]
    /\ upPump \in [Streams -> {"none", "running", "ended"}]
    /\ downPump \in [Streams -> {"none", "running", "writing", "ended"}]
    /\ upRead \in [Streams -> Nat]
    /\ received \in [Streams -> Seq(Nat)]
    /\ held \in [Streams -> Nat]
    /\ streams \subseteq Streams
    /\ openCh \in [Streams -> Seq({"ok", "fail"})]
    /\ dataCh \in [Streams -> Seq(Nat)]
    /\ reason \in [Streams -> Reasons]
    /\ \/ reader \in [at : {"acking", "reading", "leaving", "sweeping", "exited"},
                      stream : {None}, chunk : {0}]
       \/ reader \in [at : {"ok", "fail", "pushing"}, stream : Streams, chunk : Nat]
    /\ closer \in {"none", "called", "sweeping", "returned"}
    /\ sweep \in [{"reader", "closer"} -> SUBSET Streams]
    /\ {routable, panicked, serverOpen, agentOpen, linkUp} \subseteq BOOLEAN
    /\ toAgent \in Seq(Messages) /\ toServer \in Seq(Messages)
    /\ agent \in {"greeting", "running", "left"}
    /\ \/ agentReader \in [at : {"none", "reading", "ended"}, stream : {None}]
       \/ agentReader \in [at : {"dialing", "acking"}, stream : Streams]
    /\ faults \in Nat
    /\ agentStreams \subseteq Streams
    /\ target \in [Streams -> {"none", "open", "eof", "closed"}]
    /\ localPump \in [Streams -> {"none", "running", "ended"}]
    /\ downRead \in [Streams -> Nat]
    /\ written \in [Streams -> Seq(Nat)]

\* The read loop never waits on OpenCh: it has room for the one answer that an
\* open gets.  A second one would stop every stream of the session, and its
\* heartbeats, for good: ResolveOpen's send (relay.go:334-339) has no timeout.
ResolveNeverBlocks == reader.at \in {"ok", "fail"} => openCh[reader.stream] = <<>>

\* Data is queued for a stream only after its answer: the agent's pump starts
\* behind stream_ok, so that OpenStream never returns an error, or times out
\* silently, on a stream whose chunks are already there (app_v2.go:127-146).
DataAfterAnswer ==
    \A s \in Streams :
        dataCh[s] # <<>> /\ handler[s] = "waiting" => openCh[s] = <<"ok">>

\* No entry of RelaySession.streams outlives the handler that made it, on any
\* path: StreamCount and CloseAllStreams see only streams in use (289-313).
NoLeakedEntry == \A s \in streams : handler[s] \notin Finished \cup {"idle", "routed"}

\* While the connection is sound, an agent keeps the target of a stream that
\* the session has dropped only until a stream_close reaches it; the exception
\* is an open that timed out, or will because its answer found the stream
\* closed: of that the agent is not told (relay.go:309-311).
InFlight(q, type, s) == \E i \in DOMAIN q : q[i].type = type /\ q[i].stream = s
OrphansAreTimeouts ==
    \A s \in agentStreams \ streams :
        ServerCanSend /\ AgentCanSend =>
            \/ handler[s] \in {"waiting", "opened", "pumping", "closing", "notifying", "timedout"}
            \/ InFlight(toAgent, "close", s)

\* The two directions of a stream implement StreamPromise.  Down: chunks read
\* from the target, written to the client, until the down pump ends.  Up: chunks
\* read from the client, written to the target, until the target is closed.
Down == INSTANCE StreamPromise WITH
    sent <- downRead, got <- received, over <- {s \in Streams : downPump[s] = "ended"}
Up == INSTANCE StreamPromise WITH
    sent <- upRead, got <- written, over <- {s \in Streams : target[s] = "closed"}

\* Whatever the timeouts, the closes and the blocked pushes do, a client gets
\* an unbroken beginning of what its target sent (socks_entry.go:157-178,
\* relay.go:341-353, app_v2.go:192-227).
DownPromise == Down!Spec
\* The same for what the client sends (socks_entry.go:136-155, app_v2.go:147-160).
UpPromise == Up!Spec

\* If clients read, the end of the session ends every handler that used it, also one
\* that was routed to it before and registers its stream after CloseAllStreams.
Over(s) == handler[s] \in Finished \cup {"idle"}
HandlersEndWithSession ==
    ClientsRead => \A s \in Streams : []<>(reader.at = "exited" /\ ~routable => Over(s) \/ panicked)

\* A handler that has returned leaves no pump behind, whatever its client does.  If
\* it ended through CloseStream, it also frees the agent's side of the stream, where
\* a target that takes nothing could keep the agent from reading stream_close.
NothingOutlivesHandler ==
    \A s \in Streams :
        /\ []<>(handler[s] \in Finished =>
                   (upPump[s] # "running" /\ downPump[s] \in {"none", "ended"}) \/ panicked)
        /\ TargetsRead => []<>(handler[s] = "done" => target[s] \in {"none", "closed"})

\* When the agent gives up its connection, it closes the target of every stream, also
\* of the one whose dial comes back afterwards, and of the one that takes nothing.
TargetsEndWithAgent ==
    \A s \in Streams : []<>(agent = "left" => target[s] \in {"none", "closed"})

\* A blocked push closes its own stream only ("server stream blocked",
\* relay.go:351): a push does not end the process.
NoPanic == ~panicked

\* When the target ends the stream, the client listens and the connection is
\* sound, the client gets all of what the target sent.
CleanEndDelivers ==
    \A s \in Streams :
        /\ handler[s] = "done" /\ reason[s] = "local connection closed"
        /\ client[s] = "open" /\ ServerCanSend
        => Len(received[s]) = downRead[s]
================================================================================
