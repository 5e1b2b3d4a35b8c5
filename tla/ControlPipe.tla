------------------------------ MODULE ControlPipe ------------------------------
(* Who waits for whom on the control connection of one agent.  Each side has    *)
(* one read loop, several goroutines that write behind one mutex, and no        *)
(* deadline: the read loop of RelayServer.handleConn answers pings              *)
(* (internal/server/relay.go), the reader of runRelayClient dials, answers      *)
(* opens and writes to targets (cmd/tunnel-agent/app_v2.go), SOCKS handlers and *)
(* local pumps send what their peers send (internal/server/socks_entry.go).     *)
(*                                                                             *)
(* What StreamRelay tells of chunks, reasons and channels is left out; what it  *)
(* leaves out is told here: the connection takes Cap chunks each way and then   *)
(* nothing, not even a control message, until the other side reads.             *)
EXTENDS Naturals, Sequences

CONSTANTS Streams,
          Reachable,  \* those whose target can be reached
          Cap,        \* chunks that fit into the connection, each way
          None        \* no stream

ASSUME PipeAssumption ==
    Cap \in Nat \ {0} /\ None \notin Streams /\ Reachable \subseteq Streams

VARIABLES
    wire,        \* what is under way in each direction
    connected,   \* nobody has closed the connection
    sending,     \* the message that a goroutine is held up with in Send
    readLoop,    \* the loop of handleConn
    handler,     \* SocksEntryServer.handleConn, once per stream
    upload,      \* its goroutine that reads the client
    download,    \* its goroutine that writes to the client
    done,        \* streams that CloseStreamWithReason has ended: DoneCh is closed
    main,        \* the loop of runRelayClient
    reader,      \* its reading goroutine
    pump         \* pumpLocalToRelay of a stream

connection == <<wire, connected, sending>>
pumps == <<upload, download>>
server == <<readLoop, handler, pumps, done>>
agent == <<main, reader, pump>>
vars == <<connection, server, agent>>

Msg(type, s) == [type |-> type, stream |-> s]
Nothing == Msg("nothing", None)
Messages == [type : {"ping", "pong", "error", "open", "ok", "fail", "data", "close"},
             stream : Streams \cup {None}]

\* The goroutines that send, named by what they run and for which stream.
ReadLoop == <<"readLoop", None>>
Handler(s) == <<"handler", s>>
Upload(s) == <<"upload", s>>
Main == <<"main", None>>
Reader == <<"reader", None>>
Pump(s) == <<"pump", s>>
ServerSenders ==
    {ReadLoop} \cup {Handler(s) : s \in Streams} \cup {Upload(s) : s \in Streams}
AgentSenders == {Main, Reader} \cup {Pump(s) : s \in Streams}
Senders == ServerSenders \cup AgentSenders

Free(g) == sending[g] = Nothing

Directions == {"toServer", "toAgent"}
Out(g) == IF g \in ServerSenders THEN "toAgent" ELSE "toServer"

IsData(m) == m.type = "data"
Full(w) == Len(SelectSeq(w, IsData)) >= Cap

At(at, s) == [at |-> at, stream |-> s]

Init ==
    /\ wire = [d \in Directions |-> <<>>]
    /\ connected = TRUE
    /\ sending = [g \in Senders |-> Nothing]
    /\ readLoop = At("reading", None)
    /\ handler = [s \in Streams |-> "idle"]
    /\ upload = [s \in Streams |-> "none"]
    /\ download = [s \in Streams |-> "none"]
    /\ done = {}
    /\ main = "running"
    /\ reader = At("reading", None)
    /\ pump = [s \in Streams |-> "none"]

-------------------------------------------------------------------------------
(* Send and send: take the mutex, encode, release it.  One mutex guards one      *)
(* direction, so that the one who holds it and all who wait for it wait for the  *)
(* same: room in that direction.  With room, Send is one step.                   *)

SendAfter(w, g, m) ==
    /\ Free(g)
    /\ IF connected /\ ~Full(w[Out(g)])
       THEN wire' = [w EXCEPT ![Out(g)] = Append(@, m)] /\ UNCHANGED sending
       ELSE wire' = w /\ sending' = [sending EXCEPT ![g] = m]

Send(g, m) == SendAfter(wire, g, m) /\ UNCHANGED connected

\* MUTANT: a write has a deadline, after which its message is dropped.
WriteTimesOut(g) ==
    /\ ~Free(g) /\ connected
    /\ sending' = [sending EXCEPT ![g] = Nothing]
    /\ UNCHANGED <<wire, connected, server, agent>>

Write(g) ==
    /\ ~Free(g)
    /\ connected /\ ~Full(wire[Out(g)])
    /\ wire' = [wire EXCEPT ![Out(g)] = Append(@, sending[g])]
    /\ sending' = [sending EXCEPT ![g] = Nothing]
    /\ UNCHANGED <<connected, server, agent>>

\* MUTANT: a ping that fails is only logged.
WriteFailsUnnoticed(g) ==
    /\ ~Free(g) /\ ~connected
    /\ sending' = [sending EXCEPT ![g] = Nothing]
    /\ UNCHANGED <<wire, connected, server, agent>>

\* Streams that end where a send of theirs fails: a pump returns, and a stream_ok
\* that fails closes its target.
Abandoned(g) ==
    {s \in Streams : \/ g = Pump(s) /\ sending[g].type = "data"
                     \/ g = Reader /\ reader = At("starting", s)}

\* Encode fails on a closed connection.  The main loop of the agent returns for it,
\* its reader when it was to say stream_ok, and the upload of a stream.  The others
\* see it when they read on, or are about to end.
WriteFails(g) ==
    /\ ~Free(g) /\ ~connected
    /\ sending' = [sending EXCEPT ![g] = Nothing]
    /\ main' = IF g = Main THEN "returning" ELSE main
    /\ reader' = IF g = Reader /\ reader.at = "starting" THEN At("ended", None) ELSE reader
    /\ pump' = [s \in Streams |-> IF s \in Abandoned(g) THEN "ended" ELSE pump[s]]
    /\ upload' = [s \in Streams |-> IF g = Upload(s) THEN "ended" ELSE upload[s]]
    /\ UNCHANGED <<wire, connected, readLoop, handler, download, done>>

\* What is under way in a connection that ends is lost (StreamRelay also has the
\* case that it is still read).
Disconnect == connected' = FALSE /\ wire' = [d \in Directions |-> <<>>]

\* A stream that is answered and not yet ended is in the session's map.
Open(s) == handler[s] = "open" /\ s \notin done

\* CloseStreamWithReason closes DoneCh: a download that waits in its select ends.
\* Nobody else hears of it.
EndStreams(ended) ==
    /\ done' = done \cup {s \in Streams \cap ended : Open(s)}
    /\ download' = [s \in Streams |-> IF s \in ended /\ download[s] = "selecting"
                                      THEN "ended" ELSE download[s]]

\* The network resets the connection, or the session is closed with its streams,
\* because it is replaced or shut down.
ConnectionEnds ==
    /\ connected /\ Disconnect
    /\ EndStreams({}) \/ EndStreams(Streams)
    /\ UNCHANGED <<sending, readLoop, handler, upload, agent>>

-------------------------------------------------------------------------------
(* The server: SOCKS handlers, each with its upload and its download *)

SetHandler(s, at) == handler' = [handler EXCEPT ![s] = at]

OpenStream(s) ==
    /\ handler[s] = "idle"
    /\ SetHandler(s, "waiting")
    /\ Send(Handler(s), Msg("open", s))
    /\ UNCHANGED <<readLoop, pumps, done, agent>>

\* Send of the open failed, or no answer in 10 s: no CloseStream is deferred yet.
OpenFails(s) ==
    /\ handler[s] = "waiting"
    /\ Free(Handler(s))
    /\ SetHandler(s, "over")
    /\ UNCHANGED <<connection, readLoop, pumps, done, agent>>

\* The upload runs until conn.Read fails: also while the handler is in CloseStream,
\* for conn.Close is deferred to run after it.
ClientSends(s) ==
    /\ upload[s] = "reading" /\ handler[s] # "over"
    /\ Send(Upload(s), Msg("data", s))
    /\ UNCHANGED <<server, agent>>

\* The client leaves, or the handler has closed its connection.
ClientLeaves(s) ==
    /\ upload[s] = "reading" /\ Free(Upload(s))
    /\ upload' = [upload EXCEPT ![s] = "ended"]
    /\ UNCHANGED <<connection, readLoop, handler, download, done, agent>>

\* conn.Write returns when the client reads, whenever it likes, or is gone.  The
\* download comes back to its select, and ends when DoneCh has been closed.
ClientTakes(s) ==
    /\ download[s] = "writing"
    /\ \/ s \notin done /\ download' = [download EXCEPT ![s] = "selecting"]
       \/ download' = [download EXCEPT ![s] = "ended"]
    /\ UNCHANGED <<connection, readLoop, handler, upload, done, agent>>

\* A pump has reported to errCh: the deferred CloseStream tells the agent.
CloseStream(s) ==
    /\ handler[s] = "open"
    /\ upload[s] = "ended" \/ download[s] = "ended"
    /\ SetHandler(s, "closing")
    /\ EndStreams({s})
    /\ Send(Handler(s), Msg("close", s))
    /\ UNCHANGED <<readLoop, upload, agent>>

\* The deferred conn.Close: a pump that is in a call on the client ends.
HandlerReturns(s) ==
    /\ handler[s] = "closing" /\ Free(Handler(s))
    /\ SetHandler(s, "over")
    /\ upload' = IF Free(Upload(s)) THEN [upload EXCEPT ![s] = "ended"] ELSE upload
    /\ download' = IF download[s] = "writing" THEN [download EXCEPT ![s] = "ended"] ELSE download
    /\ UNCHANGED <<connection, readLoop, done, agent>>

-------------------------------------------------------------------------------
(* The server: the read loop *)

\* What comes first in the direction, and what is left after it is read.
Next1(d, type) == wire[d] # <<>> /\ Head(wire[d]).type = type
Rest(d) == [wire EXCEPT ![d] = Tail(@)]
Take(d) == wire' = Rest(d) /\ UNCHANGED sending

\* The loop comes back to Decode and finds a message of the type.
Decodes(type) ==
    /\ readLoop.at = "reading" /\ Free(ReadLoop)
    /\ Next1("toServer", type)
    /\ UNCHANGED <<connected, agent>>

AnswerPing ==
    /\ Decodes("ping")
    /\ SendAfter(Rest("toServer"), ReadLoop, Msg("pong", None))
    /\ UNCHANGED server

\* Touch fails or knows no record: an error, and the loop is left.
RefusePing ==
    /\ Decodes("ping")
    /\ SendAfter(Rest("toServer"), ReadLoop, Msg("error", None))
    /\ readLoop' = At("leaving", None)
    /\ UNCHANGED <<handler, pumps, done>>

\* ResolveOpen does not wait: OpenCh has room for the one answer.
ResolveOpen ==
    /\ Decodes("ok") \/ Decodes("fail")
    /\ Take("toServer")
    /\ LET m == Head(wire["toServer"]) IN
       IF handler[m.stream] # "waiting" THEN UNCHANGED <<handler, pumps>>
       ELSE IF m.type = "fail" THEN SetHandler(m.stream, "over") /\ UNCHANGED pumps
       ELSE /\ SetHandler(m.stream, "open")
            /\ upload' = [upload EXCEPT ![m.stream] = "reading"]
            /\ download' = [download EXCEPT ![m.stream] = "selecting"]
    /\ UNCHANGED <<readLoop, done>>

\* A chunk for DataCh: the download has something to write.
Push(s) == download' = [download EXCEPT ![s] = "writing"] /\ UNCHANGED done

\* PushData: the stream is not in the map, or DataCh has room, or a download that is
\* held up in a write has let it fill up.  How many chunks it holds: StreamRelay.
ReadData ==
    /\ Decodes("data")
    /\ Take("toServer")
    /\ LET s == Head(wire["toServer"]).stream IN
       \/ ~Open(s) /\ UNCHANGED <<readLoop, download, done>>
       \/ Open(s) /\ download[s] # "ended" /\ Push(s) /\ UNCHANGED readLoop
       \/ /\ Open(s) /\ download[s] # "selecting"
          /\ readLoop' = At("pushing", s) /\ UNCHANGED <<download, done>>
    /\ UNCHANGED <<handler, upload>>

\* MUTANT: the push of an open stream has no timeout.
PushDataWaits ==
    /\ readLoop.at = "pushing"
    /\ readLoop' = At("reading", None)
    /\ LET s == readLoop.stream IN
       \/ ~Open(s) /\ UNCHANGED <<download, done>>
       \/ Open(s) /\ download[s] = "selecting" /\ Push(s)
    /\ UNCHANGED <<connection, handler, upload, agent>>

\* It has room again, or 5 s are over and the stream is closed, or somebody else has
\* closed it.  (What a close in the middle of a push may do: StreamRelay.)
PushData ==
    /\ readLoop.at = "pushing"
    /\ readLoop' = At("reading", None)
    /\ LET s == readLoop.stream IN
       \/ ~Open(s) /\ UNCHANGED <<download, done>>
       \/ Open(s) /\ download[s] # "ended" /\ Push(s)
       \/ Open(s) /\ EndStreams({s})
    /\ UNCHANGED <<connection, handler, upload, agent>>

ReadClose ==
    /\ Decodes("close")
    /\ Take("toServer")
    /\ EndStreams({Head(wire["toServer"]).stream})
    /\ UNCHANGED <<readLoop, handler, upload>>

\* Decode failed, or the loop was left: removeActive closes the streams, and
\* conn.Close ends the connection.
HandleConnReturns ==
    /\ Free(ReadLoop)
    /\ readLoop.at = "leaving" \/ (readLoop.at = "reading" /\ ~connected)
    /\ readLoop' = At("ended", None)
    /\ EndStreams(Streams)
    /\ Disconnect
    /\ UNCHANGED <<sending, handler, upload, agent>>

-------------------------------------------------------------------------------
(* The agent: its main loop *)

InWire(d, type) == \E i \in DOMAIN wire[d] : wire[d][i].type = type

\* The targets of streams in the map are closed and leave it.
CloseTargets(closed) ==
    pump' = [s \in Streams |-> CASE s \in closed /\ pump[s] = "running" -> "closed"
                                 [] s \in closed /\ pump[s] = "leaving" -> "ending"
                                 [] OTHER -> pump[s]]

\* The ticker fires.  The bound: one ping under way is as good as several.
Tick ==
    /\ main = "running"
    /\ ~InWire("toServer", "ping") /\ ~InWire("toAgent", "pong") /\ Free(ReadLoop)
    /\ Send(Main, Msg("ping", None))
    /\ UNCHANGED <<server, agent>>

\* readErrCh has an error, or a ping failed: closeRelayStreams closes the targets,
\* conn.Close the connection.
RunReturns ==
    /\ Free(Main)
    /\ main = "returning" \/ (main = "running" /\ reader.at = "ended")
    /\ main' = "ended"
    /\ Disconnect
    /\ CloseTargets(Streams)
    /\ UNCHANGED <<sending, server, reader>>

-------------------------------------------------------------------------------
(* The agent: its reader *)

\* The reader comes back to Decode and finds a message of the type.
Receives(type) ==
    /\ reader.at = "reading" /\ Free(Reader)
    /\ Next1("toAgent", type)
    /\ Take("toAgent")
    /\ UNCHANGED <<connected, server, main>>

ReceivePong == Receives("pong") /\ UNCHANGED <<reader, pump>>

ReceiveError == Receives("error") /\ reader' = At("ended", None) /\ UNCHANGED pump

\* The dial is made by the reader itself: meanwhile nothing is read.
ReceiveOpen ==
    /\ Receives("open")
    /\ reader' = At("dialing", Head(wire["toAgent"]).stream)
    /\ UNCHANGED pump

\* So is the write to the target of a stream in the map.
ReceiveData ==
    /\ Receives("data")
    /\ LET s == Head(wire["toAgent"]).stream IN
       reader' = IF pump[s] \in {"running", "leaving"} THEN At("delivering", s) ELSE reader
    /\ UNCHANGED pump

ReceiveClose ==
    /\ Receives("close")
    /\ CloseTargets({Head(wire["toAgent"]).stream})
    /\ UNCHANGED reader

\* DialTimeout returns within 15 s.
DialEnds ==
    /\ reader.at = "dialing"
    /\ \/ /\ reader.stream \in Reachable
          /\ Send(Reader, Msg("ok", reader.stream))
          /\ reader' = At("starting", reader.stream)
       \/ Send(Reader, Msg("fail", reader.stream)) /\ reader' = At("reading", None)
    /\ UNCHANGED <<server, main, pump>>

\* stream_ok is written: the pump starts.  The target is in the map since before
\* the send: a main loop that has returned has closed it.
PumpStarts ==
    /\ reader.at = "starting" /\ Free(Reader)
    /\ pump' = [pump EXCEPT ![reader.stream] = IF main = "ended" THEN "closed" ELSE "running"]
    /\ reader' = At("reading", None)
    /\ UNCHANGED <<connection, server, main>>

\* The target takes the data, whenever it likes, or its connection has been closed
\* here.
Delivered ==
    /\ reader.at = "delivering"
    /\ reader' = At("reading", None)
    /\ UNCHANGED <<connection, server, main, pump>>

ReaderFails ==
    /\ reader.at = "reading" /\ Free(Reader)
    /\ ~connected
    /\ reader' = At("ended", None)
    /\ UNCHANGED <<connection, server, main, pump>>

-------------------------------------------------------------------------------
(* The agent: pumpLocalToRelay, and the targets *)

TargetSends(s) ==
    /\ pump[s] = "running"
    /\ Send(Pump(s), Msg("data", s))
    /\ UNCHANGED <<server, agent>>

\* The target ends, or has been closed here: the pump says so, then it closes the
\* target and takes the stream out of the map.
PumpLeaves(s) ==
    /\ pump[s] \in {"running", "closed"}
    /\ pump' = [pump EXCEPT ![s] = IF pump[s] = "running" THEN "leaving" ELSE "ending"]
    /\ Send(Pump(s), Msg("close", s))
    /\ UNCHANGED <<server, main, reader>>

PumpEnds(s) ==
    /\ pump[s] \in {"leaving", "ending"} /\ Free(Pump(s))
    /\ pump' = [pump EXCEPT ![s] = "ended"]
    /\ UNCHANGED <<connection, server, main, reader>>

-------------------------------------------------------------------------------
\* Everybody who runs for the connection itself has returned.
ConnectionOver ==
    /\ readLoop.at = "ended" /\ reader.at = "ended" /\ main = "ended"
    /\ \A s \in Streams : pump[s] \in {"none", "ended"}
    /\ \A g \in Senders : Free(g)

\* And so has everybody who runs for a client.
Finished ==
    /\ ConnectionOver
    /\ \A s \in Streams :
         /\ handler[s] \in {"idle", "over"}
         /\ upload[s] \in {"none", "ended"} /\ download[s] \in {"none", "ended"}

ReadLoopSteps ==
    \/ AnswerPing \/ RefusePing \/ ResolveOpen \/ ReadData \/ PushData \/ ReadClose
    \/ HandleConnReturns
\* What the reader does by itself: not the write to a target that takes nothing.
ReaderSteps ==
    \/ ReceivePong \/ ReceiveError \/ ReceiveOpen \/ ReceiveData \/ ReceiveClose
    \/ DialEnds \/ PumpStarts \/ ReaderFails
    \/ Delivered /\ pump[reader.stream] \in {"closed", "ended"}
MainSteps == Tick \/ RunReturns

Next ==
    \/ \E g \in Senders : Write(g) \/ WriteFails(g)
    \/ ReadLoopSteps \/ ReaderSteps \/ MainSteps
    \/ ConnectionEnds \/ Delivered
    \/ \E s \in Streams :
         \/ OpenStream(s) \/ OpenFails(s) \/ CloseStream(s) \/ HandlerReturns(s)
         \/ ClientSends(s) \/ ClientLeaves(s)
         \/ ClientTakes(s)
         \/ PumpLeaves(s) \/ PumpEnds(s) \/ TargetSends(s)
    \/ Finished /\ UNCHANGED vars

Spec == Init /\ [][Next]_vars

\* The scheduler, the network and the timeouts of the code.  A sync.Mutex hands
\* itself to a waiter that has starved for a millisecond: the two loops get their
\* turn in Send whenever there is room again and again.  Clients, targets and the
\* end of the connection owe nothing: a client that neither reads nor leaves holds
\* its download up in conn.Write, until the handler has closed its connection.
Fairness ==
    /\ \A g \in Senders : WF_vars(Write(g) \/ WriteFails(g))
    /\ SF_vars(Write(ReadLoop)) /\ SF_vars(Write(Reader))
    /\ WF_vars(ReadLoopSteps) /\ WF_vars(ReaderSteps) /\ WF_vars(MainSteps)
    /\ \A s \in Streams :
         /\ WF_vars(OpenFails(s) \/ CloseStream(s) \/ HandlerReturns(s))
         /\ WF_vars(handler[s] = "over" /\ ClientLeaves(s))
         /\ WF_vars(PumpEnds(s) \/ (pump[s] = "closed" /\ PumpLeaves(s)))

FairSpec == Spec /\ Fairness

-------------------------------------------------------------------------------
(* Properties *)

\* The values the variables take.
TypeOK ==
    /\ wire \in [Directions -> Seq(Messages)]
    /\ connected \in BOOLEAN
    /\ sending \in [Senders -> Messages \cup {Nothing}]
    /\ readLoop \in [at : {"reading", "pushing", "leaving", "ended"}, stream : Streams \cup {None}]
    /\ handler \in [Streams -> {"idle", "waiting", "open", "closing", "over"}]
    /\ upload \in [Streams -> {"none", "reading", "ended"}]
    /\ download \in [Streams -> {"none", "selecting", "writing", "ended"}]
    /\ done \subseteq Streams
    /\ main \in {"running", "returning", "ended"}
    /\ reader \in [at : {"reading", "dialing", "delivering", "starting", "ended"},
                   stream : Streams \cup {None}]
    /\ pump \in [Streams -> {"none", "running", "leaving", "closed", "ending", "ended"}]

\* Both readers are held up in Send, and neither connection takes more: each waits
\* for the other to read.
MutualWait ==
    /\ connected
    /\ ~Free(ReadLoop) /\ ~Free(Reader)
    /\ \A d \in Directions : Full(wire[d])

\* Each direction has room again and again, if targets take what is written to
\* them, unless both readers wait for each other: a chain of goroutines that wait
\* (pump, read loop, handler, reader, target) has no other circle.
RoomAgain ==
    WF_vars(Delivered) => \A d \in Directions : []<>(~Full(wire[d]) \/ MutualWait)

\* Clients read what is written to them, or leave.
ClientsRead == \A s \in Streams : WF_vars(ClientTakes(s))

\* Whatever ends the connection, whoever is held up in Send, and whatever targets
\* and clients do, both loops, the agent's reader and its pumps return, and nobody
\* stays in Send.  The handlers return as well, if clients read: one that does not,
\* and does not leave, keeps its handler for as long as it likes.
EndFreesEverybody ==
    /\ []<>(connected \/ ConnectionOver)
    /\ ClientsRead => []<>(connected \/ Finished)

\* The mutual wait resolves itself never: it lasts as long as the connection.
StandsStill == [][MutualWait => MutualWait' \/ ~connected']_vars
================================================================================
