--------------------------- MODULE StreamRelayProofs ---------------------------
(* What StreamRelay keeps for any number of streams, chunks and faults, and    *)
(* for any capacity of DataCh.                                                 *)
(*                                                                             *)
(* Every safety property rests on one invariant, SessionInv.  Its parts follow *)
(* an open on its way: OneOpen (the open or its one answer is in one place     *)
(* only), TruthfulAnswer (the answer says what the agent did), DataBehind (the *)
(* chunks come behind the answer), CloseFollows (a handler that returned has   *)
(* told the agent).  The two directions then have an invariant of their own,   *)
(* DownInv and UpInv: the chunks between the two ends are the next ones, in    *)
(* order and without gap, wherever they wait.                                  *)
EXTENDS StreamRelay, SequenceTheorems, TLAPS

-------------------------------------------------------------------------------
(* Types *)

\* The types by group: a step that leaves a group alone keeps its types.
SocksTypes ==
    /\ handler \in [Streams -> HandlerPoints]
    /\ client \in [Streams -> {"open", "eof", "gone"}]
    /\ upPump \in [Streams -> {"none", "running", "ended"}]
    /\ downPump \in [Streams -> {"none", "running", "writing", "ended"}]
    /\ upRead \in [Streams -> Nat]
    /\ received \in [Streams -> Seq(Nat)]
    /\ held \in [Streams -> Nat]
StreamTypes ==
    /\ streams \subseteq Streams
    /\ openCh \in [Streams -> Seq({"ok", "fail"})]
    /\ dataCh \in [Streams -> Seq(Nat)]
    /\ reason \in [Streams -> Reasons]
ReaderType ==
    \/ reader \in [at : {"acking", "reading", "leaving", "sweeping", "exited"},
                   stream : {None}, chunk : {0}]
    \/ reader \in [at : {"ok", "fail", "pushing"}, stream : Streams, chunk : Nat]
SessionTypes ==
    /\ ReaderType
    /\ closer \in {"none", "called", "sweeping", "returned"}
    /\ sweep \in [{"reader", "closer"} -> SUBSET Streams]
    /\ {routable, panicked} \subseteq BOOLEAN
LinkTypes == {serverOpen, agentOpen, linkUp} \subseteq BOOLEAN /\ faults \in Nat
WireTypes == toAgent \in Seq(Messages) /\ toServer \in Seq(Messages)
AgentTypes ==
    /\ agent \in {"greeting", "running", "left"}
    /\ \/ agentReader \in [at : {"none", "reading", "ended"}, stream : {None}]
       \/ agentReader \in [at : {"dialing", "acking"}, stream : Streams]
    /\ agentStreams \subseteq Streams
    /\ target \in [Streams -> {"none", "open", "eof", "closed"}]
    /\ localPump \in [Streams -> {"none", "running", "ended"}]
    /\ downRead \in [Streams -> Nat]
    /\ written \in [Streams -> Seq(Nat)]
Types == SocksTypes /\ StreamTypes /\ SessionTypes /\ LinkTypes /\ WireTypes /\ AgentTypes

\* The groups together are TypeOK.
LEMMA TypesAreTypeOK == TypeOK <=> Types
  BY DEF TypeOK, Types, SocksTypes, StreamTypes, SessionTypes, ReaderType, LinkTypes, WireTypes,
       AgentTypes

\* What is left alone keeps its types.
LEMMA Untouched ==
    ASSUME Types
    PROVE  /\ UNCHANGED socksVars => SocksTypes'
           /\ UNCHANGED streamVars => StreamTypes'
           /\ UNCHANGED sessionVars => SessionTypes'
           /\ UNCHANGED linkVars => LinkTypes'
           /\ UNCHANGED wireVars => WireTypes'
           /\ UNCHANGED agentVars => AgentTypes'
  <1>1. UNCHANGED socksVars => SocksTypes' BY DEF Types, SocksTypes, socksVars
  <1>2. UNCHANGED streamVars => StreamTypes' BY DEF Types, StreamTypes, streamVars
  <1>3. UNCHANGED sessionVars => SessionTypes' BY DEF Types, SessionTypes, ReaderType, sessionVars
  <1>4. UNCHANGED linkVars => LinkTypes' BY DEF Types, LinkTypes, linkVars
  <1>5. UNCHANGED wireVars => WireTypes' BY DEF Types, WireTypes, wireVars
  <1>6. UNCHANGED agentVars => AgentTypes' BY DEF Types, AgentTypes, agentVars
  <1> QED BY <1>1, <1>2, <1>3, <1>4, <1>5, <1>6

\* A message is one of Messages.
LEMMA MsgType ==
    ASSUME NEW type \in {"registered", "error", "open", "ok", "fail", "data", "close"},
           NEW s \in Streams \cup {None}, NEW n \in Nat
    PROVE  Msg(type, s, n) \in Messages
  BY DEF Msg, Messages

\* A message that is sent, or one that is taken.
LEMMA SendType ==
    ASSUME Types, NEW m \in Messages
    PROVE  /\ SendToAgent(m) => toAgent' \in Seq(Messages)
           /\ SendToServer(m) => toServer' \in Seq(Messages)
  <1>1. toAgent \in Seq(Messages) /\ toServer \in Seq(Messages) BY DEF Types, WireTypes
  <1>2. Append(toAgent, m) \in Seq(Messages) /\ Append(toServer, m) \in Seq(Messages)
    BY <1>1, AppendProperties
  <1> QED BY <1>1, <1>2 DEF SendToAgent, SendToServer

\* What is taken from a queue, and what is left of it.
LEMMA TakeType ==
    ASSUME NEW q \in Seq(Messages), q # <<>>
    PROVE  /\ Tail(q) \in Seq(Messages)
           /\ Head(q) \in Messages
           /\ Head(q).stream \in Streams \cup {None}
           /\ Head(q).chunk \in Nat
  <1>1. Tail(q) \in Seq(Messages) /\ Head(q) \in Messages BY HeadTailProperties
  <1> QED BY <1>1 DEF Messages

\* CloseStreamWithReason
LEMMA CloseType ==
    ASSUME Types, NEW s, NEW why \in Reasons, CloseWithReason(s, why)
    PROVE  streams' \subseteq Streams /\ reason' \in [Streams -> Reasons]
  BY DEF Types, StreamTypes, CloseWithReason

\* The types hold at the start.
LEMMA InitType == Init => Types
  <1> SUFFICES ASSUME Init PROVE Types OBVIOUS
  <1>e. <<>> \in Seq(Nat) /\ <<>> \in Seq({"ok", "fail"}) /\ <<>> \in Seq(Messages) OBVIOUS
  <1>1. SocksTypes BY <1>e DEF Init, SocksTypes, HandlerPoints
  <1>2. StreamTypes BY <1>e DEF Init, StreamTypes, Reasons
  <1>3. SessionTypes BY DEF Init, SessionTypes, ReaderType
  <1>4. LinkTypes BY DEF Init, LinkTypes
  <1>5. WireTypes BY <1>e DEF Init, WireTypes
  <1>6. AgentTypes BY <1>e DEF Init, AgentTypes
  <1> QED BY <1>1, <1>2, <1>3, <1>4, <1>5, <1>6 DEF Types

\* The handler of a stream.
LEMMA HandlerType ==
    ASSUME Types, NEW s \in Streams, Route(s) \/ HandlerStep(s)
    PROVE  Types'
  <1> USE Untouched DEF Types
  <1>1. CASE Route(s)
    <2>1. SocksTypes' BY <1>1 DEF Route, SocksTypes, HandlerPoints
    <2> QED BY <1>1, <2>1 DEF Route
  <1>2. CASE RegisterStream(s)
    <2>1. SocksTypes' BY <1>2 DEF RegisterStream, SocksTypes, HandlerPoints
    <2>2. StreamTypes' BY <1>2 DEF RegisterStream, StreamTypes
    <2> QED BY <1>2, <2>1, <2>2 DEF RegisterStream
  <1>3. CASE SendOpen(s)
    <2>1. SocksTypes' BY <1>3 DEF SendOpen, SocksTypes, HandlerPoints
    <2>2. StreamTypes' BY <1>3 DEF SendOpen, StreamTypes
    <2>3. WireTypes' BY <1>3, MsgType, SendType DEF SendOpen, WireTypes
    <2> QED BY <1>3, <2>1, <2>2, <2>3 DEF SendOpen
  <1>4. CASE OpenResolved(s)
    <2>1. SocksTypes' BY <1>4 DEF OpenResolved, SocksTypes, HandlerPoints
    <2>2. Tail(openCh[s]) \in Seq({"ok", "fail"})
      BY <1>4, HeadTailProperties DEF OpenResolved, StreamTypes
    <2>3. StreamTypes' BY <1>4, <2>2 DEF OpenResolved, StreamTypes
    <2> QED BY <1>4, <2>1, <2>3 DEF OpenResolved
  <1>5. CASE OpenTimesOut(s)
    <2>1. SocksTypes' BY <1>5 DEF OpenTimesOut, SocksTypes, HandlerPoints
    <2>2. StreamTypes' BY <1>5 DEF OpenTimesOut, StreamTypes
    <2> QED BY <1>5, <2>1, <2>2 DEF OpenTimesOut
  <1>6. CASE ReplyOpened(s)
    <2>1. SocksTypes' BY <1>6 DEF ReplyOpened, SocksTypes, HandlerPoints
    <2> QED BY <1>6, <2>1 DEF ReplyOpened
  <1>7. CASE PumpEnded(s)
    <2>1. SocksTypes' BY <1>7 DEF PumpEnded, SocksTypes, HandlerPoints
    <2> QED BY <1>7, <2>1 DEF PumpEnded
  <1>8. CASE CloseStream(s)
    <2>1. SocksTypes' BY <1>8 DEF CloseStream, SocksTypes, HandlerPoints
    <2>2. streams' \subseteq Streams /\ reason' \in [Streams -> Reasons]
      BY <1>8, CloseType DEF CloseStream, Reasons
    <2>3. StreamTypes' BY <1>8, <2>2 DEF CloseStream, StreamTypes
    <2> QED BY <1>8, <2>1, <2>3 DEF CloseStream
  <1>9. CASE NotifyAgent(s)
    <2>1. SocksTypes' BY <1>9 DEF NotifyAgent, SocksTypes, HandlerPoints
    <2>2. WireTypes' BY <1>9, MsgType, SendType DEF NotifyAgent, WireTypes
    <2> QED BY <1>9, <2>1, <2>2 DEF NotifyAgent
  <1> QED BY <1>1, <1>2, <1>3, <1>4, <1>5, <1>6, <1>7, <1>8, <1>9 DEF HandlerStep

\* The pumps of a stream, its client and its target.
LEMMA PumpType ==
    ASSUME Types, NEW s \in Streams,
           \/ PumpUp(s) \/ UpPumpEnds(s) \/ DownPumpStep(s) \/ WriteChunk(s)
           \/ ClientShutsSending(s) \/ ClientGone(s)
           \/ PumpDown(s) \/ TargetShutsSending(s) \/ LocalPumpEnds(s)
    PROVE  Types'
  <1> USE Untouched DEF Types
  <1>1. CASE PumpUp(s)
    <2>1. upRead[s] + 1 \in Nat BY DEF SocksTypes
    <2>2. upRead' \in [Streams -> Nat] BY <1>1, <2>1 DEF PumpUp, SocksTypes
    <2>3. upPump' \in [Streams -> {"none", "running", "ended"}]
      BY <1>1 DEF PumpUp, SocksTypes
    <2>4. SocksTypes' BY <1>1, <2>2, <2>3 DEF PumpUp, SocksTypes
    <2>5. WireTypes' BY <1>1, <2>1, MsgType, SendType DEF PumpUp, WireTypes
    <2> QED BY <1>1, <2>4, <2>5 DEF PumpUp
  <1>2. CASE UpPumpEnds(s)
    <2>1. SocksTypes' BY <1>2 DEF UpPumpEnds, SocksTypes
    <2> QED BY <1>2, <2>1 DEF UpPumpEnds
  <1>3. CASE TakeChunk(s)
    <2>1. Head(dataCh[s]) \in Nat /\ Tail(dataCh[s]) \in Seq(Nat)
      BY <1>3, HeadTailProperties DEF TakeChunk, StreamTypes
    <2>2. SocksTypes' BY <1>3, <2>1 DEF TakeChunk, SocksTypes
    <2>3. StreamTypes' BY <1>3, <2>1 DEF TakeChunk, StreamTypes
    <2> QED BY <1>3, <2>2, <2>3 DEF TakeChunk
  <1>4. CASE WriteFails(s)
    <2>1. SocksTypes' BY <1>4 DEF WriteFails, SocksTypes
    <2> QED BY <1>4, <2>1 DEF WriteFails
  <1>5. CASE DownPumpEnds(s)
    <2>1. SocksTypes' BY <1>5 DEF DownPumpEnds, SocksTypes
    <2> QED BY <1>5, <2>1 DEF DownPumpEnds
  <1>6. CASE WriteChunk(s)
    <2>1. Append(received[s], held[s]) \in Seq(Nat) BY AppendProperties DEF SocksTypes
    <2>2. SocksTypes' BY <1>6, <2>1 DEF WriteChunk, SocksTypes
    <2> QED BY <1>6, <2>2 DEF WriteChunk
  <1>7. CASE ClientShutsSending(s)
    <2>1. SocksTypes' BY <1>7 DEF ClientShutsSending, SocksTypes
    <2> QED BY <1>7, <2>1 DEF ClientShutsSending
  <1>8. CASE ClientGone(s)
    <2>1. SocksTypes' BY <1>8 DEF ClientGone, SocksTypes
    <2> QED BY <1>8, <2>1 DEF ClientGone
  <1>9. CASE PumpDown(s)
    <2>1. downRead[s] + 1 \in Nat BY DEF AgentTypes
    <2>2. downRead' \in [Streams -> Nat] BY <1>9, <2>1 DEF PumpDown, AgentTypes
    <2>3. /\ agentStreams' \subseteq Streams
          /\ target' \in [Streams -> {"none", "open", "eof", "closed"}]
          /\ localPump' \in [Streams -> {"none", "running", "ended"}]
      BY <1>9 DEF PumpDown, AgentTypes
    <2>4. AgentTypes' BY <1>9, <2>2, <2>3 DEF PumpDown, AgentTypes
    <2>5. WireTypes' BY <1>9, <2>1, MsgType, SendType DEF PumpDown, WireTypes
    <2> QED BY <1>9, <2>4, <2>5 DEF PumpDown
  <1>10. CASE TargetShutsSending(s)
    <2>1. AgentTypes' BY <1>10 DEF TargetShutsSending, AgentTypes
    <2> QED BY <1>10, <2>1 DEF TargetShutsSending
  <1>11. CASE LocalPumpEnds(s)
    <2>1. WireTypes' BY <1>11, MsgType, SendType DEF LocalPumpEnds, WireTypes
    <2>2. AgentTypes' BY <1>11 DEF LocalPumpEnds, AgentTypes
    <2> QED BY <1>11, <2>1, <2>2 DEF LocalPumpEnds
  <1> QED
    BY <1>1, <1>2, <1>3, <1>4, <1>5, <1>6, <1>7, <1>8, <1>9, <1>10, <1>11 DEF DownPumpStep

\* The read loop.
LEMMA ReadLoopType ==
    ASSUME Types, ReaderStep
    PROVE  Types'
  <1> USE Untouched DEF Types
  <1>1. CASE SendAck
    <2>1. SessionTypes' BY <1>1 DEF SendAck, SessionTypes, ReaderType, ReaderAt
    <2>2. WireTypes' BY <1>1, MsgType, SendType DEF SendAck, WireTypes
    <2> QED BY <1>1, <2>1, <2>2 DEF SendAck
  <1>2. CASE Read
    <2> DEFINE m == Head(toServer)
    <2>1. m \in Messages /\ Tail(toServer) \in Seq(Messages) /\ m.chunk \in Nat
      BY <1>2, TakeType DEF Read, WireTypes
    <2>2. WireTypes' BY <1>2, <2>1 DEF Read, WireTypes
    <2>4. StreamTypes'
      <3>1. CASE ReadClose(m)
        <4>1. streams' \subseteq Streams /\ reason' \in [Streams -> Reasons]
          BY <3>1, CloseType DEF ReadClose, Reasons
        <4> QED BY <1>2, <4>1 DEF Read, StreamTypes
      <3>2. CASE ~ReadClose(m)
        <4>1. UNCHANGED streamVars BY <1>2, <3>2 DEF Read, ReadAnswer, ReadData, streamVars
        <4> QED BY <4>1
      <3> QED BY <3>1, <3>2
    <2>5. ReaderType'
      <3>1. CASE ReadAnswer(m)
        <4>1. m.stream \in streams => m.stream \in Streams BY DEF StreamTypes
        <4> QED BY <3>1, <4>1 DEF ReadAnswer, ReaderType, SessionTypes
      <3>2. CASE ReadData(m)
        <4>1. m.stream \in streams => m.stream \in Streams BY DEF StreamTypes
        <4> QED BY <3>2, <4>1, <2>1 DEF ReadData, ReaderType, SessionTypes
      <3>3. CASE ReadClose(m) BY <3>3 DEF ReadClose, ReaderType, SessionTypes
      <3> QED BY <1>2, <3>1, <3>2, <3>3 DEF Read
    <2>6. SessionTypes' BY <1>2, <2>5 DEF Read, SessionTypes
    <2> QED BY <1>2, <2>2, <2>4, <2>6 DEF Read
  <1>3. CASE ResolveOpen
    <2>1. reader.at \in {"ok", "fail"} BY <1>3 DEF ResolveOpen, ReaderIs
    <2>2. <<reader.at>> \in Seq({"ok", "fail"}) BY <2>1
    <2>3. StreamTypes' BY <1>3, <2>2 DEF ResolveOpen, StreamTypes
    <2>4. SessionTypes' BY <1>3 DEF ResolveOpen, SessionTypes, ReaderType, ReaderAt
    <2> QED BY <1>3, <2>3, <2>4 DEF ResolveOpen
  <1>4. CASE PushData
    <2>1. reader.stream \in Streams /\ reader.chunk \in Nat
      BY <1>4 DEF PushData, ReaderIs, SessionTypes, ReaderType
    <2>2. Append(dataCh[reader.stream], reader.chunk) \in Seq(Nat)
      BY <2>1, AppendProperties DEF StreamTypes
    <2>3. StreamTypes' BY <1>4, <2>1, <2>2 DEF PushData, StreamTypes
    <2>6. reader' = reader \/ reader' = ReaderAt("reading") BY <1>4 DEF PushData
    <2>8. ReaderType' BY <2>6 DEF SessionTypes, ReaderType, ReaderAt
    <2>7. panicked' \in BOOLEAN BY <1>4 DEF PushData, SessionTypes
    <2>4. SessionTypes' BY <1>4, <2>8, <2>7 DEF PushData, SessionTypes
    <2>5. LinkTypes' BY <1>4 DEF PushData, LinkTypes
    <2> QED BY <1>4, <2>3, <2>4, <2>5 DEF PushData
  <1>5. CASE PushTimesOut
    <2>1. streams' \subseteq Streams /\ reason' \in [Streams -> Reasons]
      BY <1>5, CloseType DEF PushTimesOut, Reasons
    <2>2. StreamTypes' BY <1>5, <2>1 DEF PushTimesOut, StreamTypes
    <2>3. SessionTypes' BY <1>5 DEF PushTimesOut, SessionTypes, ReaderType, ReaderAt
    <2> QED BY <1>5, <2>2, <2>3 DEF PushTimesOut
  <1>6. CASE ReadFails
    <2>1. SessionTypes' BY <1>6 DEF ReadFails, SessionTypes, ReaderType, ReaderAt
    <2> QED BY <1>6, <2>1 DEF ReadFails
  <1>7. CASE RemoveActive
    <2>1. SessionTypes' BY <1>7 DEF RemoveActive, SessionTypes, ReaderType, ReaderAt, StreamTypes
    <2> QED BY <1>7, <2>1 DEF RemoveActive
  <1>8. ASSUME NEW s \in Streams, SweepStream("reader", s) PROVE Types'
    <2>1. streams' \subseteq Streams /\ reason' \in [Streams -> Reasons]
      BY <1>8, CloseType DEF SweepStream, Reasons
    <2>2. StreamTypes' BY <1>8, <2>1 DEF SweepStream, StreamTypes
    <2>3. SessionTypes' BY <1>8 DEF SweepStream, SessionTypes, ReaderType
    <2> QED BY <1>8, <2>2, <2>3 DEF SweepStream
  <1>9. CASE HandleConnReturns
    <2>1. SessionTypes' BY <1>9 DEF HandleConnReturns, SessionTypes, ReaderType, ReaderAt
    <2>2. LinkTypes' BY <1>9 DEF HandleConnReturns, LinkTypes
    <2> QED BY <1>9, <2>1, <2>2 DEF HandleConnReturns
  <1> QED BY <1>1, <1>2, <1>3, <1>4, <1>5, <1>6, <1>7, <1>8, <1>9 DEF ReaderStep

\* Who closes the session.
LEMMA CloserType ==
    ASSUME Types, CloserStep \/ CloseRequested \/ TouchRefused \/ LinkBreaks
    PROVE  Types'
  <1> USE Untouched DEF Types
  <1>1. CASE CloseAllStreams
    <2>1. SessionTypes' BY <1>1 DEF CloseAllStreams, SessionTypes, ReaderType, StreamTypes
    <2> QED BY <1>1, <2>1 DEF CloseAllStreams
  <1>2. ASSUME NEW s \in Streams, SweepStream("closer", s) PROVE Types'
    <2>1. streams' \subseteq Streams /\ reason' \in [Streams -> Reasons]
      BY <1>2, CloseType DEF SweepStream, Reasons
    <2>2. StreamTypes' BY <1>2, <2>1 DEF SweepStream, StreamTypes
    <2>3. SessionTypes' BY <1>2 DEF SweepStream, SessionTypes, ReaderType
    <2> QED BY <1>2, <2>2, <2>3 DEF SweepStream
  <1>3. CASE CloseReturns
    <2>1. SessionTypes' BY <1>3 DEF CloseReturns, SessionTypes, ReaderType
    <2>2. LinkTypes' BY <1>3 DEF CloseReturns, LinkTypes
    <2> QED BY <1>3, <2>1, <2>2 DEF CloseReturns
  <1>4. CASE CloseRequested
    <2>1. SessionTypes' BY <1>4 DEF CloseRequested, SessionTypes, ReaderType
    <2>2. LinkTypes' BY <1>4 DEF CloseRequested, Fault, LinkTypes
    <2> QED BY <1>4, <2>1, <2>2 DEF CloseRequested
  <1>5. CASE TouchRefused
    <2>1. SessionTypes' BY <1>5 DEF TouchRefused, SessionTypes, ReaderType, ReaderAt
    <2>2. LinkTypes' BY <1>5 DEF TouchRefused, Fault, LinkTypes
    <2>3. WireTypes' BY <1>5, MsgType, SendType DEF TouchRefused, WireTypes
    <2> QED BY <1>5, <2>1, <2>2, <2>3 DEF TouchRefused
  <1>6. CASE LinkBreaks
    <2>1. WireTypes' BY <1>6 DEF LinkBreaks, WireTypes
    <2>2. faults' \in Nat BY <1>6 DEF LinkBreaks, Fault, LinkTypes
    <2>4. serverOpen' \in BOOLEAN /\ agentOpen' \in BOOLEAN
      BY <1>6 DEF LinkBreaks, LinkTypes
    <2>5. linkUp' \in BOOLEAN BY <1>6 DEF LinkBreaks
    <2>3. LinkTypes' BY <2>2, <2>4, <2>5 DEF LinkTypes
    <2> QED BY <1>6, <2>1, <2>3 DEF LinkBreaks
  <1> QED BY <1>1, <1>2, <1>3, <1>4, <1>5, <1>6 DEF CloserStep

\* The agent's main loop and its reader.
LEMMA AgentType ==
    ASSUME Types, AgentMainStep \/ AgentReaderStep
    PROVE  Types'
  <1> USE Untouched DEF Types
  <1>1. AgentLeaves => /\ target' \in [Streams -> {"none", "open", "eof", "closed"}]
                       /\ agentStreams' \subseteq Streams /\ agentOpen' \in BOOLEAN
                       /\ agent' = "left"
    BY DEF AgentLeaves, AgentTypes
  <1>2. toAgent # <<>> => Tail(toAgent) \in Seq(Messages) /\ Head(toAgent).chunk \in Nat
    BY TakeType DEF WireTypes
  <1>3. CASE ReceiveAck
    <2>1. AgentTypes' BY <1>1, <1>3 DEF ReceiveAck, AgentTypes
    <2>2. LinkTypes' BY <1>1, <1>3 DEF ReceiveAck, LinkTypes
    <2>3. WireTypes' BY <1>2, <1>3 DEF ReceiveAck, WireTypes
    <2> QED BY <1>3, <2>1, <2>2, <2>3 DEF ReceiveAck
  <1>4. CASE AgentMainReturns
    <2>1. AgentTypes' BY <1>1, <1>4 DEF AgentMainReturns, AgentTypes
    <2>2. LinkTypes' BY <1>1, <1>4 DEF AgentMainReturns, LinkTypes
    <2> QED BY <1>4, <2>1, <2>2 DEF AgentMainReturns
  <1>5. CASE AgentReadFails
    <2>1. AgentTypes' BY <1>5 DEF AgentReadFails, AgentTypes
    <2> QED BY <1>5, <2>1 DEF AgentReadFails
  <1>12. CASE AgentReadsError
    <2>1. AgentTypes' BY <1>12 DEF AgentReadsError, AgentTypes
    <2>2. WireTypes' BY <1>2, <1>12 DEF AgentReadsError, AgentReads, WireTypes
    <2> QED BY <1>12, <2>1, <2>2 DEF AgentReadsError
  <1>6. ASSUME NEW s \in Streams, AgentReadsOpen(s) PROVE Types'
    <2>1. AgentTypes' BY <1>6 DEF AgentReadsOpen, AgentTypes
    <2>2. WireTypes' BY <1>2, <1>6 DEF AgentReadsOpen, AgentReads, WireTypes
    <2> QED BY <1>6, <2>1, <2>2 DEF AgentReadsOpen
  <1>7. ASSUME NEW s \in Streams, DialFails(s) PROVE Types'
    <2>1. AgentTypes' BY <1>7 DEF DialFails, AgentTypes
    <2>2. WireTypes' BY <1>7, MsgType, SendType DEF DialFails, WireTypes
    <2> QED BY <1>7, <2>1, <2>2 DEF DialFails
  <1>8. ASSUME NEW s \in Streams, DialSucceeds(s) PROVE Types'
    <2>1. AgentTypes' BY <1>8 DEF DialSucceeds, AgentTypes
    <2> QED BY <1>8, <2>1 DEF DialSucceeds
  <1>9. ASSUME NEW s \in Streams, AnswerOpen(s) PROVE Types'
    <2>1. AgentTypes' BY <1>9 DEF AnswerOpen, AgentTypes
    <2>2. WireTypes' BY <1>9, MsgType, SendType DEF AnswerOpen, WireTypes
    <2> QED BY <1>9, <2>1, <2>2 DEF AnswerOpen
  <1>10. ASSUME NEW s \in Streams, AgentReadsData(s) PROVE Types'
    <2>1. Head(toAgent).chunk \in Nat BY <1>2, <1>10 DEF AgentReadsData, AgentReads
    <2>2. Append(written[s], Head(toAgent).chunk) \in Seq(Nat)
      BY <2>1, AppendProperties DEF AgentTypes
    <2>3. AgentTypes' BY <1>10, <2>2 DEF AgentReadsData, AgentTypes
    <2>4. WireTypes' BY <1>2, <1>10 DEF AgentReadsData, AgentReads, WireTypes
    <2> QED BY <1>10, <2>3, <2>4 DEF AgentReadsData
  <1>11. ASSUME NEW s \in Streams, AgentReadsClose(s) PROVE Types'
    <2>1. AgentTypes' BY <1>11 DEF AgentReadsClose, AgentTypes
    <2>2. WireTypes' BY <1>2, <1>11 DEF AgentReadsClose, AgentReads, WireTypes
    <2> QED BY <1>11, <2>1, <2>2 DEF AgentReadsClose
  <1> QED BY <1>3, <1>4, <1>5, <1>6, <1>7, <1>8, <1>9, <1>10, <1>11, <1>12
          DEF AgentMainStep, AgentReaderStep

\* Every step keeps the types.
LEMMA StepType == Types /\ [Next]_vars => Types'
  <1> SUFFICES ASSUME Types, [Next]_vars PROVE Types' OBVIOUS
  <1>1. CASE Stopped \/ UNCHANGED vars
    <2>1. UNCHANGED <<socksVars, streamVars, sessionVars, linkVars, wireVars, agentVars>>
      BY <1>1 DEF Stopped, vars
    <2> QED BY <2>1, Untouched DEF Types
  <1> QED BY <1>1, HandlerType, PumpType, ReadLoopType, CloserType, AgentType DEF Next, Environment

\* Every variable of the relay keeps its type, whatever the handlers, the pumps,
\* the session and the agent do (socks_entry.go, relay.go, app_v2.go).
THEOREM TypeCorrect == Spec => []TypeOK
  BY InitType, StepType, TypesAreTypeOK, PTL DEF Spec

-------------------------------------------------------------------------------
(* Queues: messages in flight, and the line of the chunks of a stream *)

\* At most one message of these types for a stream is in the queue.
Single(q, types, s) ==
    \A i, j \in DOMAIN q :
        /\ q[i].type \in types /\ q[i].stream = s
        /\ q[j].type \in types /\ q[j].stream = s
        => i = j

\* Nothing is in an empty queue.
LEMMA EmptyQueue == \A type, s : ~InFlight(<<>>, type, s)
  BY DEF InFlight

\* A queue with one more message.
LEMMA AppendFacts ==
    ASSUME NEW q \in Seq(Messages), NEW m \in Messages
    PROVE  /\ Append(q, m) \in Seq(Messages)
           /\ Len(Append(q, m)) = Len(q) + 1
           /\ DOMAIN Append(q, m) = 1 .. Len(q) + 1
           /\ DOMAIN q = 1 .. Len(q)
           /\ Len(q) \in Nat
           /\ \A i \in 1 .. Len(q) : Append(q, m)[i] = q[i]
           /\ Append(q, m)[Len(q) + 1] = m
  BY AppendProperties, LenProperties

\* A queue without its first message.
LEMMA TailFacts ==
    ASSUME NEW q \in Seq(Messages), q # <<>>
    PROVE  /\ Tail(q) \in Seq(Messages)
           /\ Len(q) \in Nat /\ Len(q) > 0
           /\ Len(Tail(q)) = Len(q) - 1
           /\ DOMAIN Tail(q) = 1 .. Len(q) - 1
           /\ DOMAIN q = 1 .. Len(q)
           /\ \A i \in 1 .. Len(q) - 1 : Tail(q)[i] = q[i + 1]
           /\ Head(q) = q[1]
  BY HeadTailProperties, LenProperties, EmptySeq

\* What is in flight after an append.
LEMMA AppendInFlight ==
    ASSUME NEW q \in Seq(Messages), NEW m \in Messages, NEW type, NEW s
    PROVE  InFlight(Append(q, m), type, s)
               <=> InFlight(q, type, s) \/ (m.type = type /\ m.stream = s)
  BY AppendFacts DEF InFlight

\* What was in flight before the head was taken.
LEMMA TailInFlight ==
    ASSUME NEW q \in Seq(Messages), q # <<>>, NEW type, NEW s
    PROVE  InFlight(q, type, s)
               <=> InFlight(Tail(q), type, s) \/ (Head(q).type = type /\ Head(q).stream = s)
  <1>1. ASSUME NEW i \in 1 .. Len(q), i # 1
        PROVE  i - 1 \in 1 .. Len(q) - 1 /\ Tail(q)[i - 1] = q[i]
    <2>1. i - 1 \in 1 .. Len(q) - 1 /\ (i - 1) + 1 = i BY <1>1, TailFacts
    <2> QED BY <2>1, TailFacts
  <1>2. \A i \in 1 .. Len(q) - 1 : i + 1 \in 1 .. Len(q) /\ Tail(q)[i] = q[i + 1]
    BY TailFacts
  <1>3. InFlight(q, type, s)
          => InFlight(Tail(q), type, s) \/ (Head(q).type = type /\ Head(q).stream = s)
    <2> SUFFICES ASSUME NEW i \in 1 .. Len(q), q[i].type = type, q[i].stream = s
                 PROVE  InFlight(Tail(q), type, s) \/ (Head(q).type = type /\ Head(q).stream = s)
      BY TailFacts DEF InFlight
    <2>1. CASE i = 1 BY <2>1, TailFacts
    <2>2. CASE i # 1 BY <2>2, <1>1, TailFacts DEF InFlight
    <2> QED BY <2>1, <2>2
  <1>4. InFlight(Tail(q), type, s) \/ (Head(q).type = type /\ Head(q).stream = s)
          => InFlight(q, type, s)
    BY <1>2, TailFacts DEF InFlight
  <1> QED BY <1>3, <1>4

\* An append keeps a kind of message single if none of it was there.
LEMMA AppendSingle ==
    ASSUME NEW q \in Seq(Messages), NEW m \in Messages, NEW types, NEW s,
           Single(q, types, s),
           m.type \in types /\ m.stream = s => \A type \in types : ~InFlight(q, type, s)
    PROVE  Single(Append(q, m), types, s)
  <1> USE AppendFacts
  <1>1. CASE m.type \in types /\ m.stream = s
    <2>1. \A i \in 1 .. Len(q) : ~(q[i].type \in types /\ q[i].stream = s)
      BY <1>1 DEF InFlight
    <2> QED BY <2>1 DEF Single
  <1>2. CASE ~(m.type \in types /\ m.stream = s)
    BY <1>2 DEF Single
  <1> QED BY <1>1, <1>2

\* Taking the head keeps a kind single, and takes it away if the head is of it.
LEMMA TailSingle ==
    ASSUME NEW q \in Seq(Messages), q # <<>>, NEW types, NEW s, Single(q, types, s)
    PROVE  /\ Single(Tail(q), types, s)
           /\ Head(q).type \in types /\ Head(q).stream = s
                => \A type \in types : ~InFlight(Tail(q), type, s)
  <1> USE TailFacts
  <1>1. \A i \in 1 .. Len(q) - 1 : i + 1 \in 1 .. Len(q) /\ Tail(q)[i] = q[i + 1] /\ i + 1 # 1
    OBVIOUS
  <1>2. Single(Tail(q), types, s) BY <1>1 DEF Single
  <1>3. ASSUME Head(q).type \in types, Head(q).stream = s, NEW type \in types,
               InFlight(Tail(q), type, s)
        PROVE FALSE
    BY <1>1, <1>3 DEF Single, InFlight
  <1> QED BY <1>2, <1>3

\* An empty queue holds nothing twice.
LEMMA EmptySingle == \A types, s : Single(<<>>, types, s)
  BY DEF Single

\* A chunk of the stream.
IsData(m, s) == m.type = "data" /\ m.stream = s
\* The data of a stream in the queue is base + 1, base + 2, ... in this order.
InLine(q, s, base, last) ==
    /\ \A i \in DOMAIN q : IsData(q[i], s) => q[i].chunk \in base + 1 .. last
    /\ \A i, j \in DOMAIN q : IsData(q[i], s) /\ IsData(q[j], s) /\ i < j => q[i].chunk < q[j].chunk
    /\ \A i \in DOMAIN q : IsData(q[i], s) /\ q[i].chunk # base + 1 =>
         \E j \in DOMAIN q : IsData(q[j], s) /\ q[j].chunk = q[i].chunk - 1
\* ... and goes on to the last one.
Complete(q, s, base, last) ==
    last = base \/ \E i \in DOMAIN q : IsData(q[i], s) /\ q[i].chunk = last

\* The line of a stream does not care for other messages that follow.
LEMMA AppendOther ==
    ASSUME NEW q \in Seq(Messages), NEW m \in Messages, NEW s, NEW base \in Nat, NEW last \in Nat,
           ~IsData(m, s)
    PROVE  /\ InLine(q, s, base, last) => InLine(Append(q, m), s, base, last)
           /\ Complete(q, s, base, last) => Complete(Append(q, m), s, base, last)
  <1> USE AppendFacts
  <1>1. InLine(q, s, base, last) => InLine(Append(q, m), s, base, last)
    <2> SUFFICES ASSUME InLine(q, s, base, last) PROVE InLine(Append(q, m), s, base, last)
      OBVIOUS
    <2> DEFINE r == Append(q, m)
    <2>0. \A i \in DOMAIN r : IsData(r[i], s) => i \in DOMAIN q /\ r[i] = q[i]
      OBVIOUS
    <2>9. \A i \in DOMAIN q : i \in DOMAIN r /\ r[i] = q[i]
      OBVIOUS
    <2> HIDE DEF r
    <2>1. \A i \in DOMAIN r : IsData(r[i], s) => r[i].chunk \in base + 1 .. last
      BY <2>0 DEF InLine
    <2>2. \A i, j \in DOMAIN r :
           IsData(r[i], s) /\ IsData(r[j], s) /\ i < j => r[i].chunk < r[j].chunk
      BY <2>0 DEF InLine
    <2>3. \A i \in DOMAIN r : IsData(r[i], s) /\ r[i].chunk # base + 1 =>
             \E j \in DOMAIN r : IsData(r[j], s) /\ r[j].chunk = r[i].chunk - 1
      BY <2>0, <2>9 DEF InLine
    <2> QED BY <2>1, <2>2, <2>3 DEF InLine, r
  <1>2. Complete(q, s, base, last) => Complete(Append(q, m), s, base, last)
    BY DEF Complete
  <1> QED BY <1>1, <1>2

\* The next chunk continues the line.
LEMMA AppendNext ==
    ASSUME NEW q \in Seq(Messages), NEW m \in Messages, NEW s, NEW base \in Nat, NEW last \in Nat,
           InLine(q, s, base, last), Complete(q, s, base, last),
           IsData(m, s), m.chunk = last + 1, base <= last
    PROVE  /\ InLine(Append(q, m), s, base, last + 1)
           /\ Complete(Append(q, m), s, base, last + 1)
  <1> DEFINE r == Append(q, m)
             e == Len(q) + 1
  <1>0. /\ \A i \in DOMAIN r : i # e => i \in DOMAIN q /\ r[i] = q[i] /\ i < e
        /\ \A i \in DOMAIN q : i \in DOMAIN r /\ r[i] = q[i] /\ i # e
        /\ e \in DOMAIN r /\ r[e] = m
        /\ \A i \in DOMAIN r : i \in Nat /\ i <= e
    BY AppendFacts
  <1> HIDE DEF r, e
  <1>5. \A i \in DOMAIN q : IsData(q[i], s) =>
         q[i].chunk \in Nat /\ q[i].chunk <= last /\ base < q[i].chunk
    BY DEF InLine
  <1>1. \A i \in DOMAIN r : IsData(r[i], s) => r[i].chunk \in base + 1 .. last + 1
    BY <1>0, <1>5
  <1>2. \A i, j \in DOMAIN r :
         IsData(r[i], s) /\ IsData(r[j], s) /\ i < j => r[i].chunk < r[j].chunk
    <2> SUFFICES ASSUME NEW i \in DOMAIN r, NEW j \in DOMAIN r, IsData(r[i], s), IsData(r[j], s),
                        i < j
                 PROVE r[i].chunk < r[j].chunk
      OBVIOUS
    <2>1. CASE j = e BY <2>1, <1>0, <1>5
    <2>2. CASE j # e
      <3>1. i # e BY <2>2, <1>0
      <3> QED BY <3>1, <2>2, <1>0 DEF InLine
    <2> QED BY <2>1, <2>2
  <1>3. \A i \in DOMAIN r : IsData(r[i], s) /\ r[i].chunk # base + 1 =>
             \E j \in DOMAIN r : IsData(r[j], s) /\ r[j].chunk = r[i].chunk - 1
    <2> SUFFICES ASSUME NEW i \in DOMAIN r, IsData(r[i], s), r[i].chunk # base + 1
                 PROVE \E j \in DOMAIN r : IsData(r[j], s) /\ r[j].chunk = r[i].chunk - 1
      OBVIOUS
    <2>1. CASE i = e
      <3>1. PICK j \in DOMAIN q : IsData(q[j], s) /\ q[j].chunk = last BY <2>1, <1>0 DEF Complete
      <3> QED BY <3>1, <2>1, <1>0
    <2>2. CASE i # e
      <3>1. PICK j \in DOMAIN q : IsData(q[j], s) /\ q[j].chunk = q[i].chunk - 1
        BY <2>2, <1>0 DEF InLine
      <3> QED BY <3>1, <2>2, <1>0
    <2> QED BY <2>1, <2>2
  <1> QED BY <1>0, <1>1, <1>2, <1>3 DEF InLine, Complete, r

\* More has been read than is on the wire: the connection is going down.
LEMMA LooseEnd ==
    ASSUME NEW q \in Seq(Messages), NEW s, NEW base \in Nat, NEW last \in Nat,
           InLine(q, s, base, last)
    PROVE  InLine(q, s, base, last + 1)
  <1>1. \A i \in DOMAIN q : IsData(q[i], s) => q[i].chunk \in base + 1 .. last + 1
    BY DEF InLine
  <1> QED BY <1>1 DEF InLine

\* The line of a stream does not care for other messages that leave.
LEMMA TailOther ==
    ASSUME NEW q \in Seq(Messages), q # <<>>, NEW s, NEW base \in Nat, NEW last \in Nat,
           ~IsData(Head(q), s)
    PROVE  /\ InLine(q, s, base, last) => InLine(Tail(q), s, base, last)
           /\ Complete(q, s, base, last) => Complete(Tail(q), s, base, last)
  <1> DEFINE r == Tail(q)
  <1>0. /\ \A i \in DOMAIN r : i + 1 \in DOMAIN q /\ r[i] = q[i + 1] /\ i \in Nat
        /\ \A i \in DOMAIN q : IsData(q[i], s) => i - 1 \in DOMAIN r /\ r[i - 1] = q[i]
    BY TailFacts
  <1> HIDE DEF r
  <1>1. InLine(q, s, base, last) => InLine(r, s, base, last)
    <2> SUFFICES ASSUME InLine(q, s, base, last) PROVE InLine(r, s, base, last) OBVIOUS
    <2>1. \A i \in DOMAIN r : IsData(r[i], s) => r[i].chunk \in base + 1 .. last
      BY <1>0 DEF InLine
    <2>2. \A i, j \in DOMAIN r :
           IsData(r[i], s) /\ IsData(r[j], s) /\ i < j => r[i].chunk < r[j].chunk
      <3> SUFFICES ASSUME NEW i \in DOMAIN r, NEW j \in DOMAIN r,
                          IsData(r[i], s), IsData(r[j], s), i < j
                   PROVE r[i].chunk < r[j].chunk
        OBVIOUS
      <3>1. i + 1 < j + 1 BY <1>0
      <3> QED BY <3>1, <1>0 DEF InLine
    <2>3. \A i \in DOMAIN r : IsData(r[i], s) /\ r[i].chunk # base + 1 =>
             \E j \in DOMAIN r : IsData(r[j], s) /\ r[j].chunk = r[i].chunk - 1
      <3> SUFFICES ASSUME NEW i \in DOMAIN r, IsData(r[i], s), r[i].chunk # base + 1
                   PROVE \E j \in DOMAIN r : IsData(r[j], s) /\ r[j].chunk = r[i].chunk - 1
        OBVIOUS
      <3>1. PICK j \in DOMAIN q : IsData(q[j], s) /\ q[j].chunk = q[i + 1].chunk - 1
        BY <1>0 DEF InLine
      <3> QED BY <3>1, <1>0
    <2> QED BY <2>1, <2>2, <2>3 DEF InLine
  <1>2. Complete(q, s, base, last) => Complete(r, s, base, last)
    BY <1>0 DEF Complete
  <1> QED BY <1>1, <1>2 DEF r

\* The head of the line is the next chunk, and the rest is a line behind it.
LEMMA TailNext ==
    ASSUME NEW q \in Seq(Messages), q # <<>>, NEW s, NEW base \in Nat, NEW last \in Nat,
           IsData(Head(q), s), InLine(q, s, base, last)
    PROVE  /\ Head(q).chunk = base + 1
           /\ base + 1 <= last
           /\ InLine(Tail(q), s, base + 1, last)
           /\ Complete(q, s, base, last) => Complete(Tail(q), s, base + 1, last)
  <1> DEFINE r == Tail(q)
  <1>0. /\ \A i \in DOMAIN r : i + 1 \in DOMAIN q /\ r[i] = q[i + 1] /\ i \in Nat /\ 1 < i + 1
        /\ \A i \in DOMAIN q : i # 1 => i - 1 \in DOMAIN r /\ r[i - 1] = q[i] /\ 1 < i
        /\ 1 \in DOMAIN q /\ Head(q) = q[1]
    BY TailFacts
  <1> HIDE DEF r
  <1>5. \A i \in DOMAIN q : IsData(q[i], s) =>
         q[i].chunk \in Nat /\ q[i].chunk <= last /\ base < q[i].chunk
    BY DEF InLine
  <1>1. Head(q).chunk = base + 1
    <2>1. ASSUME Head(q).chunk # base + 1 PROVE FALSE
      <3>1. PICK j \in DOMAIN q : IsData(q[j], s) /\ q[j].chunk = q[1].chunk - 1
        BY <2>1, <1>0 DEF InLine
      <3>2. j # 1 BY <3>1, <1>0, <1>5
      <3>3. q[1].chunk < q[j].chunk BY <3>1, <3>2, <1>0 DEF InLine
      <3> QED BY <3>1, <3>3, <1>0, <1>5
    <2> QED BY <2>1
  <1>2. base + 1 <= last BY <1>0, <1>1, <1>5
  <1>3. \A i \in DOMAIN r : IsData(r[i], s) =>
         r[i].chunk \in Nat /\ r[i].chunk <= last /\ base + 1 < r[i].chunk
    <2> SUFFICES ASSUME NEW i \in DOMAIN r, IsData(r[i], s)
                 PROVE r[i].chunk \in Nat /\ r[i].chunk <= last /\ base + 1 < r[i].chunk
      OBVIOUS
    <2>1. q[1].chunk < q[i + 1].chunk BY <1>0 DEF InLine
    <2> QED BY <2>1, <1>0, <1>1, <1>5
  <1>4. \A i, j \in DOMAIN r :
         IsData(r[i], s) /\ IsData(r[j], s) /\ i < j => r[i].chunk < r[j].chunk
    BY <1>0 DEF InLine
  <1>6. \A i \in DOMAIN r : IsData(r[i], s) /\ r[i].chunk # base + 1 + 1 =>
             \E j \in DOMAIN r : IsData(r[j], s) /\ r[j].chunk = r[i].chunk - 1
      <3> SUFFICES ASSUME NEW i \in DOMAIN r, IsData(r[i], s), r[i].chunk # base + 1 + 1
                   PROVE \E j \in DOMAIN r : IsData(r[j], s) /\ r[j].chunk = r[i].chunk - 1
        OBVIOUS
      <3>0. r[i].chunk \in Nat /\ base + 1 < r[i].chunk BY <1>3
      <3>1. PICK j \in DOMAIN q : IsData(q[j], s) /\ q[j].chunk = q[i + 1].chunk - 1
        BY <1>0, <3>0 DEF InLine
      <3>2. j # 1 BY <3>0, <3>1, <1>0, <1>1
      <3> QED BY <3>1, <3>2, <1>0
  <1>7. InLine(r, s, base + 1, last)
    <2>1. \A i \in DOMAIN r : IsData(r[i], s) => r[i].chunk \in (base + 1) + 1 .. last
      BY <1>3
    <2> QED BY <1>4, <1>6, <2>1 DEF InLine
  <1>8. Complete(q, s, base, last) => Complete(r, s, base + 1, last)
    <2> SUFFICES ASSUME Complete(q, s, base, last), last # base + 1
                 PROVE  \E i \in DOMAIN r : IsData(r[i], s) /\ r[i].chunk = last
      BY DEF Complete
    <2>1. PICK i \in DOMAIN q : IsData(q[i], s) /\ q[i].chunk = last
      BY <1>2 DEF Complete
    <2> QED BY <2>1, <1>0, <1>1
  <1> QED BY <1>1, <1>2, <1>7, <1>8 DEF r

\* An empty queue is a line that has reached its end.
LEMMA EmptyLine ==
    ASSUME NEW s, NEW base \in Nat, NEW last \in Nat
    PROVE  InLine(<<>>, s, base, last) /\ (last = base => Complete(<<>>, s, base, last))
  BY DEF InLine, Complete

\* What is on the wire after a message is sent, taken, or lost.
LEMMA SentToAgent ==
    ASSUME Types, NEW m \in Messages, SendToAgent(m)
    PROVE  /\ \A type, t : InFlight(toAgent', type, t)
                  <=> InFlight(toAgent, type, t) \/ (agentOpen /\ m.type = type /\ m.stream = t)
           /\ \A types, t :
                  /\ Single(toAgent, types, t)
                  /\ m.type \in types /\ m.stream = t
                       => \A type \in types : ~InFlight(toAgent, type, t)
                  => Single(toAgent', types, t)
  <1>1. toAgent \in Seq(Messages) BY DEF Types, WireTypes
  <1>2. CASE agentOpen
    <2>1. toAgent' = Append(toAgent, m) BY <1>2 DEF SendToAgent
    <2> QED BY <1>1, <1>2, <2>1, AppendInFlight, AppendSingle
  <1>3. CASE ~agentOpen
    <2>1. toAgent' = toAgent BY <1>3 DEF SendToAgent
    <2> QED BY <1>3, <2>1
  <1> QED BY <1>2, <1>3

\* The same for the other direction.
LEMMA SentToServer ==
    ASSUME Types, NEW m \in Messages, SendToServer(m)
    PROVE  /\ \A type, t : InFlight(toServer', type, t)
                  <=> InFlight(toServer, type, t) \/ (serverOpen /\ m.type = type /\ m.stream = t)
           /\ \A types, t :
                  /\ Single(toServer, types, t)
                  /\ m.type \in types /\ m.stream = t
                       => \A type \in types : ~InFlight(toServer, type, t)
                  => Single(toServer', types, t)
  <1>1. toServer \in Seq(Messages) BY DEF Types, WireTypes
  <1>2. CASE serverOpen
    <2>1. toServer' = Append(toServer, m) BY <1>2 DEF SendToServer
    <2> QED BY <1>1, <1>2, <2>1, AppendInFlight, AppendSingle
  <1>3. CASE ~serverOpen
    <2>1. toServer' = toServer BY <1>3 DEF SendToServer
    <2> QED BY <1>3, <2>1
  <1> QED BY <1>2, <1>3

\* The head of a queue: it was there, and if it was single it is no longer.
LEMMA HeadTaken ==
    ASSUME NEW q \in Seq(Messages), q # <<>>
    PROVE  /\ \A type, t : InFlight(q, type, t)
                  <=> InFlight(Tail(q), type, t) \/ (Head(q).type = type /\ Head(q).stream = t)
           /\ \A types, t :
                  Single(q, types, t) =>
                      /\ Single(Tail(q), types, t)
                      /\ Head(q).type \in types /\ Head(q).stream = t
                           => \A type \in types : ~InFlight(Tail(q), type, t)
  BY TailInFlight, TailSingle

\* The two answers to an open.
Answers == {"ok", "fail"}

\* Where the agent's reader is with a stream.
AgentAt(points, s) == agentReader.at \in points /\ agentReader.stream = s

\* Where the read loop is with a stream.
ReaderAtStream(points, s) == reader.at \in points /\ reader.stream = s

-------------------------------------------------------------------------------
(* Entries *)

\* An entry of RelaySession.streams belongs to a handler that has not closed it.
EntriesInUse ==
    \A s \in streams : handler[s] \in {"opening", "waiting", "opened", "pumping", "closing"}

\* Every step keeps the entries in use.
LEMMA EntriesStep == Types /\ EntriesInUse /\ [Next]_vars => EntriesInUse'
  <1> SUFFICES ASSUME Types, EntriesInUse, [Next]_vars PROVE EntriesInUse' OBVIOUS
  <1>h. handler \in [Streams -> HandlerPoints] /\ streams \subseteq Streams
    BY DEF Types, SocksTypes, StreamTypes
  <1>1. CASE handler' = handler /\ streams' \subseteq streams BY <1>1 DEF EntriesInUse
  <1>2. ASSUME NEW s, NEW why, CloseWithReason(s, why)
        PROVE streams' = streams \ {s} \/ (s \notin streams /\ streams' = streams)
     BY <1>2 DEF CloseWithReason
  <1>3. ASSUME NEW s \in Streams, Route(s) \/ HandlerStep(s) PROVE EntriesInUse'
    <2> USE <1>3, <1>h DEF EntriesInUse, HandlerAt
    <2>1. CASE Route(s) BY <2>1 DEF Route, streamVars
    <2>2. CASE RegisterStream(s) BY <2>2 DEF RegisterStream
    <2>3. CASE SendOpen(s) BY <2>3 DEF SendOpen
    <2>4. CASE OpenResolved(s) BY <2>4 DEF OpenResolved
    <2>5. CASE OpenTimesOut(s) BY <2>5 DEF OpenTimesOut
    <2>6. CASE ReplyOpened(s) BY <2>6 DEF ReplyOpened, streamVars
    <2>7. CASE PumpEnded(s) BY <2>7 DEF PumpEnded, streamVars
    <2>8. CASE CloseStream(s) BY <2>8, <1>2 DEF CloseStream
    <2>9. CASE NotifyAgent(s) BY <2>9 DEF NotifyAgent, streamVars
    <2> QED BY <2>1, <2>2, <2>3, <2>4, <2>5, <2>6, <2>7, <2>8, <2>9 DEF HandlerStep
  <1>4. ASSUME NEW s \in Streams,
               \/ PumpUp(s) \/ UpPumpEnds(s) \/ DownPumpStep(s) \/ WriteChunk(s)
               \/ ClientShutsSending(s) \/ ClientGone(s)
               \/ PumpDown(s) \/ TargetShutsSending(s) \/ LocalPumpEnds(s)
        PROVE EntriesInUse'
    BY <1>1, <1>4 DEF PumpUp, UpPumpEnds, DownPumpStep, WriteChunk, ClientShutsSending, ClientGone,
         PumpDown, TargetShutsSending, LocalPumpEnds, TakeChunk, WriteFails, DownPumpEnds,
         socksVars, streamVars
  <1>5. CASE ReaderStep
    <2>1. handler' = handler
      BY <1>5 DEF ReaderStep, SendAck, Read, ResolveOpen, PushData, PushTimesOut, ReadFails,
           RemoveActive, SweepStream, HandleConnReturns, socksVars
    <2>2. streams' \subseteq streams
      BY <1>5, <1>2 DEF ReaderStep, SendAck, Read, ReadAnswer, ReadData, ReadClose, ResolveOpen,
           PushData, PushTimesOut, ReadFails, RemoveActive, SweepStream, HandleConnReturns,
           streamVars
    <2> QED BY <2>1, <2>2, <1>1
  <1>6. CASE CloserStep \/ CloseRequested \/ TouchRefused \/ LinkBreaks
    BY <1>1, <1>2, <1>6 DEF CloserStep, CloseAllStreams, SweepStream, CloseReturns, CloseRequested,
         TouchRefused, LinkBreaks, socksVars, streamVars
  <1>7. CASE AgentMainStep \/ AgentReaderStep
    BY <1>1, <1>7 DEF AgentMainStep, ReceiveAck, AgentMainReturns, AgentReaderStep,
         AgentReadFails, AgentReadsError,
         AgentReadsOpen, DialFails, DialSucceeds, AnswerOpen, AgentReadsData, AgentReadsClose,
         socksVars, streamVars
  <1>8. CASE Stopped \/ UNCHANGED vars
    BY <1>1, <1>8 DEF Stopped, vars, socksVars, streamVars
  <1> QED BY <1>3, <1>4, <1>5, <1>6, <1>7, <1>8 DEF Next, Environment

-------------------------------------------------------------------------------
(* One open, one answer *)

\* An open is on its way to the agent.
OpenSent(s) == InFlight(toAgent, "open", s)

\* The agent dials, or is about to answer.
AtWork(s) == AgentAt({"dialing", "acking"}, s)

\* An answer is on its way to the session.
AnswerSent(s) == InFlight(toServer, "ok", s) \/ InFlight(toServer, "fail", s)

\* The read loop holds an answer.
AnswerRead(s) == ReaderAtStream(Answers, s)

\* An answer waits in OpenCh.
Answered(s) == openCh[s] # <<>>

\* The open of a stream and its answer exist once, in one place, and only for a
\* handler that has sent the open.
OneOpen(s) ==
    /\ Single(toAgent, {"open"}, s) /\ Single(toServer, Answers, s)
    /\ OpenSent(s) => ~AtWork(s) /\ ~AnswerSent(s) /\ ~AnswerRead(s) /\ ~Answered(s)
    /\ AtWork(s) => ~AnswerSent(s) /\ ~AnswerRead(s) /\ ~Answered(s)
    /\ AnswerSent(s) => ~AnswerRead(s) /\ ~Answered(s)
    /\ AnswerRead(s) => ~Answered(s)
    /\ OpenSent(s) \/ AtWork(s) \/ AnswerSent(s) \/ AnswerRead(s) \/ Answered(s)
         => handler[s] \in {"waiting", "timedout"}
    /\ openCh[s] \in {<<>>, <<"ok">>, <<"fail">>}

\* The stages of an open that a step leaves alone.
LEMMA OneOpenFrame ==
    ASSUME NEW s, OneOpen(s),
           OpenSent(s)' => OpenSent(s), AtWork(s)' => AtWork(s),
           AnswerSent(s)' => AnswerSent(s), AnswerRead(s)' => AnswerRead(s),
           openCh'[s] \in {openCh[s], <<>>},
           Single(toAgent, {"open"}, s)', Single(toServer, Answers, s)',
           handler[s] \in {"waiting", "timedout"} => handler'[s] \in {"waiting", "timedout"}
             \/ ~(OpenSent(s)' \/ AtWork(s)' \/ AnswerSent(s)' \/ AnswerRead(s)' \/ Answered(s)')
    PROVE  OneOpen(s)'
  BY DEF OneOpen, Answered

\* A message that is no open leaves the opens to the agent as they are.
LEMMA ToAgentOther ==
    ASSUME Types, NEW m \in Messages, SendToAgent(m), m.type # "open"
    PROVE \A t : OneOpen(t) => (OpenSent(t)' => OpenSent(t)) /\ Single(toAgent, {"open"}, t)'
  BY SentToAgent DEF OpenSent, OneOpen

\* A message that is no answer leaves the answers as they are.
LEMMA ToServerOther ==
    ASSUME Types, NEW m \in Messages, SendToServer(m), m.type \notin Answers
    PROVE \A t : OneOpen(t) => (AnswerSent(t)' => AnswerSent(t)) /\ Single(toServer, Answers, t)'
  BY SentToServer DEF AnswerSent, OneOpen, Answers

\* The handlers keep it: the open is sent once, the answer is taken once.
LEMMA OneOpenHandler ==
    ASSUME Types, NEW s \in Streams, Route(s) \/ HandlerStep(s), NEW t \in Streams, OneOpen(t),
           OneOpen(s)
    PROVE  OneOpen(t)'
  <1>h. handler \in [Streams -> HandlerPoints] /\ openCh \in [Streams -> Seq({"ok", "fail"})]
    BY DEF Types, SocksTypes, StreamTypes
  <1>f. UNCHANGED sessionVars /\ UNCHANGED agentVars /\ UNCHANGED toServer
    BY DEF Route, HandlerStep, RegisterStream, SendOpen, OpenResolved, OpenTimesOut, ReplyOpened,
         PumpEnded, CloseStream, NotifyAgent, wireVars
  <1>g. /\ AtWork(t)' <=> AtWork(t)
        /\ AnswerSent(t)' <=> AnswerSent(t)
        /\ AnswerRead(t)' <=> AnswerRead(t)
        /\ Single(toServer, Answers, t)'
    BY <1>f DEF AtWork, AnswerSent, AnswerRead, AgentAt, ReaderAtStream, sessionVars, agentVars,
         OneOpen
  <1> USE <1>h, <1>g
  <1>1. CASE \/ Route(s) \/ RegisterStream(s) \/ OpenTimesOut(s)
             \/ ReplyOpened(s) \/ PumpEnded(s) \/ CloseStream(s)
    <2>1. UNCHANGED <<toAgent, openCh>>
      BY <1>1 DEF Route, RegisterStream, OpenTimesOut, ReplyOpened, PumpEnded, CloseStream,
           wireVars, streamVars
    <2>2. /\ handler[t] = "waiting" => handler'[t] \in {"waiting", "timedout"}
          /\ handler[t] = "timedout" => handler'[t] = "timedout"
      BY <1>1 DEF Route, RegisterStream, OpenTimesOut, ReplyOpened, PumpEnded, CloseStream,
           HandlerAt
    <2> QED BY <2>1, <2>2, OneOpenFrame DEF OneOpen, OpenSent, Answered
  <1>2. CASE SendOpen(s)
    <2>1. UNCHANGED openCh BY <1>2 DEF SendOpen
    <2>2. CASE ServerCanSend
      <3>1. SendToAgent(Msg("open", s, 0)) BY <1>2, <2>2 DEF SendOpen
      <3>2. Msg("open", s, 0) \in Messages BY MsgType
      <3>3. \A x : InFlight(toAgent', "open", x)
                      <=> InFlight(toAgent, "open", x) \/ (agentOpen /\ s = x)
        BY <3>1, <3>2, SentToAgent DEF Msg
      <3>4. handler[s] = "opening" /\ handler' = [handler EXCEPT ![s] = "waiting"]
        BY <1>2, <2>2 DEF SendOpen, HandlerAt
      <3>5. ~OpenSent(s) BY <3>4 DEF OneOpen
      <3>6. Single(toAgent', {"open"}, t)
        BY <3>1, <3>2, <3>5, SentToAgent DEF Msg, OneOpen, OpenSent
      <3> QED BY <2>1, <3>3, <3>4, <3>6 DEF OneOpen, OpenSent, Answered
    <2>3. CASE ~ServerCanSend
      <3>1. /\ UNCHANGED toAgent /\ handler[s] = "opening"
            /\ handler' = [handler EXCEPT ![s] = "refused"]
        BY <1>2, <2>3 DEF SendOpen, HandlerAt
      <3> QED BY <2>1, <3>1, OneOpenFrame DEF OneOpen, OpenSent, Answered
    <2> QED BY <2>2, <2>3
  <1>3. CASE OpenResolved(s)
    <2>1. /\ UNCHANGED toAgent /\ handler[s] = "waiting" /\ Answered(s)
          /\ openCh' = [openCh EXCEPT ![s] = Tail(@)]
      BY <1>3 DEF OpenResolved, HandlerAt, wireVars, Answered
    <2>2. openCh'[s] = <<>>
      BY <2>1 DEF OneOpen, Answered
    <2>4. t # s => handler'[t] = handler[t] /\ openCh'[t] = openCh[t] BY <1>3, <2>1 DEF OpenResolved
    <2>5. CASE t = s BY <2>1, <2>2, <2>5 DEF OneOpen, OpenSent, Answered
    <2>6. CASE t # s BY <2>1, <2>4, <2>6, OneOpenFrame DEF OneOpen, OpenSent, Answered
    <2> QED BY <2>5, <2>6
  <1>4. CASE NotifyAgent(s)
    <2>1. UNCHANGED openCh /\ handler[s] = "notifying" /\ handler' = [handler EXCEPT ![s] = "done"]
      BY <1>4 DEF NotifyAgent, HandlerAt, streamVars
    <2>2. (OpenSent(t)' => OpenSent(t)) /\ Single(toAgent, {"open"}, t)'
      <3>1. CASE SendToAgent(Msg("close", s, 0))
        BY <3>1, MsgType, ToAgentOther DEF Msg
      <3>2. CASE UNCHANGED toAgent BY <3>2 DEF OpenSent, OneOpen
      <3> QED BY <1>4, <3>1, <3>2 DEF NotifyAgent
    <2> QED BY <2>1, <2>2, OneOpenFrame DEF OneOpen, Answered
  <1> QED BY <1>1, <1>2, <1>3, <1>4 DEF HandlerStep

\* The read loop when it holds no message.
Resting == {ReaderAt(point) : point \in {"reading", "leaving", "sweeping", "exited"}}

\* A resting read loop is at no stream.
LEMMA RestingFacts ==
    \A r \in Resting : r.at \in {"reading", "leaving", "sweeping", "exited"} /\ r.stream = None
  BY DEF Resting, ReaderAt

\* A step that neither answers an open nor moves one on.
LEMMA OneOpenKept ==
    ASSUME Types, NEW t \in Streams, OneOpen(t),
           UNCHANGED <<handler, openCh, agentReader>>,
           reader' = reader \/ reader' \in Resting,
           OpenSent(t)' => OpenSent(t), Single(toAgent, {"open"}, t)',
           AnswerSent(t)' => AnswerSent(t), Single(toServer, Answers, t)'
    PROVE  OneOpen(t)'
  <1>1. AtWork(t)' <=> AtWork(t) BY DEF AtWork, AgentAt
  <1>2. AnswerRead(t)' => AnswerRead(t) BY RestingFacts DEF AnswerRead, ReaderAtStream, Answers
  <1> QED BY <1>1, <1>2, OneOpenFrame

\* The pumps, the client and the target have no part in it.
LEMMA OneOpenPump ==
    ASSUME Types, NEW s \in Streams,
           \/ PumpUp(s) \/ UpPumpEnds(s) \/ DownPumpStep(s) \/ WriteChunk(s)
           \/ ClientShutsSending(s) \/ ClientGone(s)
           \/ PumpDown(s) \/ TargetShutsSending(s) \/ LocalPumpEnds(s),
           NEW t \in Streams, OneOpen(t)
    PROVE  OneOpen(t)'
  <1>1. UNCHANGED <<handler, openCh, agentReader, reader>>
    BY DEF PumpUp, UpPumpEnds, DownPumpStep, TakeChunk, WriteFails, DownPumpEnds, WriteChunk,
           ClientShutsSending, ClientGone, PumpDown, TargetShutsSending, LocalPumpEnds,
           socksVars, streamVars, sessionVars, agentVars
  <1>2. upRead[s] + 1 \in Nat /\ downRead[s] + 1 \in Nat BY DEF Types, SocksTypes, AgentTypes
  <1>3. (OpenSent(t)' => OpenSent(t)) /\ Single(toAgent, {"open"}, t)'
    <2>1. CASE PumpUp(s) /\ ServerCanSend
      BY <2>1, <1>2, MsgType, ToAgentOther DEF PumpUp, Msg
    <2>2. CASE UNCHANGED toAgent BY <2>2 DEF OpenSent, OneOpen
    <2> QED BY <2>1, <2>2 DEF PumpUp, UpPumpEnds, DownPumpStep, TakeChunk, WriteFails,
           DownPumpEnds, WriteChunk, ClientShutsSending, ClientGone, PumpDown,
           TargetShutsSending, LocalPumpEnds, wireVars
  <1>4. (AnswerSent(t)' => AnswerSent(t)) /\ Single(toServer, Answers, t)'
    <2>1. CASE PumpDown(s) /\ AgentCanSend
      BY <2>1, <1>2, MsgType, ToServerOther DEF PumpDown, Msg, Answers
    <2>2. CASE LocalPumpEnds(s) /\ AgentCanSend
      BY <2>2, MsgType, ToServerOther DEF LocalPumpEnds, Msg, Answers
    <2>3. CASE UNCHANGED toServer BY <2>3 DEF AnswerSent, OneOpen
    <2> QED BY <2>1, <2>2, <2>3 DEF PumpUp, UpPumpEnds, DownPumpStep, TakeChunk, WriteFails,
           DownPumpEnds, WriteChunk, ClientShutsSending, ClientGone, PumpDown,
           TargetShutsSending, LocalPumpEnds, wireVars
  <1> QED BY <1>1, <1>3, <1>4, OneOpenKept

\* The read loop moves the answer on to OpenCh.
LEMMA OneOpenReader ==
    ASSUME Types, ReaderStep, NEW t \in Streams, OneOpen(t)
    PROVE  OneOpen(t)'
  <1>1. CASE SendAck
    <2>1. UNCHANGED <<handler, openCh, agentReader, toServer>> /\ reader' \in Resting
      BY <1>1 DEF Resting, SendAck, socksVars, streamVars, agentVars, wireVars
    <2>2. (OpenSent(t)' => OpenSent(t)) /\ Single(toAgent, {"open"}, t)'
      <3>1. CASE ServerCanSend BY <3>1, <1>1, MsgType, ToAgentOther DEF SendAck, Msg
      <3>2. CASE UNCHANGED toAgent BY <3>2 DEF OpenSent, OneOpen
      <3> QED BY <3>1, <3>2, <1>1 DEF SendAck
    <2> QED BY <2>1, <2>2, OneOpenKept DEF Answers, OneOpen, AnswerSent
  <1>2. CASE Read
    <2> DEFINE m == Head(toServer)
    <2>1. /\ toServer \in Seq(Messages) /\ toServer # <<>> /\ toServer' = Tail(toServer)
          /\ UNCHANGED <<handler, openCh, agentReader, toAgent>>
          /\ reader.at = "reading"
      BY <1>2 DEF Read, Types, WireTypes, socksVars, agentVars, ReaderIs
    <2>2. /\ AnswerSent(t)' => AnswerSent(t)
          /\ Single(toServer, Answers, t)'
          /\ m.type \in Answers /\ m.stream = t => AnswerSent(t) /\ ~AnswerSent(t)'
      BY <2>1, HeadTaken DEF AnswerSent, OneOpen, Answers
    <2>3. AnswerRead(t)' => m.type \in Answers /\ m.stream = t
      <3>1. CASE ReadAnswer(m) BY <2>1, <3>1 DEF ReadAnswer, AnswerRead, ReaderAtStream, Answers
      <3>2. CASE ReadData(m) BY <2>1, <3>2 DEF ReadData, AnswerRead, ReaderAtStream, Answers
      <3>3. CASE ReadClose(m) BY <2>1, <3>3 DEF ReadClose, AnswerRead, ReaderAtStream, Answers
      <3> QED BY <1>2, <3>1, <3>2, <3>3 DEF Read
    <2>4. AtWork(t)' <=> AtWork(t) BY <2>1 DEF AtWork, AgentAt
    <2>5. (OpenSent(t)' <=> OpenSent(t)) /\ (Answered(t)' <=> Answered(t))
      BY <2>1 DEF OpenSent, Answered
    <2> HIDE DEF m
    <2> QED BY <2>1, <2>2, <2>3, <2>4, <2>5 DEF OneOpen
  <1>3. CASE ResolveOpen
    <2>1. /\ UNCHANGED <<handler, agentReader, toAgent, toServer>>
          /\ reader' = ReaderAt("reading")
          /\ openCh' = [openCh EXCEPT ![reader.stream] = <<reader.at>>]
          /\ reader.at \in Answers
      BY <1>3 DEF ResolveOpen, socksVars, agentVars, wireVars, ReaderIs, Answers
    <2>2. ~AnswerRead(t)' BY <2>1 DEF AnswerRead, ReaderAtStream, ReaderAt, Answers
    <2>3. CASE reader.stream = t
      <3>1. AnswerRead(t) BY <2>1, <2>3 DEF AnswerRead, ReaderAtStream
      <3>2. openCh'[t] \in {<<"ok">>, <<"fail">>}
        BY <2>1, <2>3 DEF Types, StreamTypes, Answers
      <3>3. /\ (AtWork(t)' <=> AtWork(t)) /\ (OpenSent(t)' <=> OpenSent(t))
            /\ (AnswerSent(t)' <=> AnswerSent(t))
        BY <2>1 DEF AtWork, AgentAt, OpenSent, AnswerSent
      <3> QED BY <2>1, <2>2, <3>1, <3>2, <3>3 DEF OneOpen, Answered
    <2>4. CASE reader.stream # t
      <3>1. openCh'[t] = openCh[t] BY <2>1, <2>4 DEF Types, StreamTypes
      <3> QED BY <2>1, <2>2, <3>1, OneOpenFrame DEF OneOpen, AtWork, AgentAt, OpenSent, AnswerSent
    <2> QED BY <2>3, <2>4
  <1>4. CASE \/ PushData \/ PushTimesOut \/ ReadFails \/ RemoveActive
             \/ (\E s \in Streams : SweepStream("reader", s)) \/ HandleConnReturns
    <2>1. UNCHANGED <<handler, openCh, agentReader, toAgent, toServer>>
      BY <1>4 DEF PushData, PushTimesOut, ReadFails, RemoveActive, SweepStream, HandleConnReturns,
           socksVars, streamVars, agentVars, wireVars
    <2>2. reader' = reader \/ reader' \in Resting
      BY <1>4 DEF Resting, PushData, PushTimesOut, ReadFails, RemoveActive, SweepStream,
           HandleConnReturns, Answers
    <2> QED BY <2>1, <2>2, OneOpenKept DEF OneOpen, OpenSent, AnswerSent
  <1> QED BY <1>1, <1>2, <1>3, <1>4 DEF ReaderStep

\* Whoever closes the session at most loses messages.
LEMMA OneOpenCloser ==
    ASSUME Types, CloserStep \/ CloseRequested \/ TouchRefused \/ LinkBreaks, NEW t \in Streams,
           OneOpen(t)
    PROVE  OneOpen(t)'
  <1>1. UNCHANGED <<handler, openCh, agentReader>>
    BY DEF CloserStep, CloseAllStreams, SweepStream, CloseReturns, CloseRequested, TouchRefused,
         LinkBreaks, socksVars, streamVars, agentVars
  <1>2. reader' = reader \/ reader' \in Resting
    BY DEF Resting, CloserStep, CloseAllStreams, SweepStream, CloseReturns, CloseRequested,
         TouchRefused, LinkBreaks, Answers, sessionVars
  <1>3. \/ UNCHANGED <<toAgent, toServer>>
        \/ toAgent' = <<>> /\ toServer' = <<>>
        \/ SendToAgent(Msg("error", None, 0)) /\ UNCHANGED toServer
    BY DEF CloserStep, CloseAllStreams, SweepStream, CloseReturns, CloseRequested, TouchRefused,
         LinkBreaks, wireVars
  <1>4. CASE UNCHANGED <<toAgent, toServer>>
    BY <1>1, <1>2, <1>4, OneOpenKept DEF OneOpen, OpenSent, AnswerSent
  <1>5. CASE toAgent' = <<>> /\ toServer' = <<>>
    BY <1>1, <1>2, <1>5, OneOpenKept, EmptyQueue, EmptySingle DEF OpenSent, AnswerSent
  <1>6. CASE SendToAgent(Msg("error", None, 0)) /\ UNCHANGED toServer
    <2>1. (OpenSent(t)' => OpenSent(t)) /\ Single(toAgent, {"open"}, t)'
      BY <1>6, MsgType, ToAgentOther DEF Msg
    <2> QED BY <1>1, <1>2, <1>6, <2>1, OneOpenKept DEF OneOpen, AnswerSent
  <1> QED BY <1>3, <1>4, <1>5, <1>6

\* The agent turns the open into one answer.
LEMMA OneOpenAgent ==
    ASSUME Types, AgentMainStep \/ AgentReaderStep, NEW t \in Streams, OneOpen(t)
    PROVE  OneOpen(t)'
  <1>1. UNCHANGED <<handler, openCh, reader>>
    BY DEF AgentMainStep, ReceiveAck, AgentMainReturns, AgentReaderStep, AgentReadFails,
         AgentReadsError,
         AgentReadsOpen, DialFails, DialSucceeds, AnswerOpen, AgentReadsData, AgentReadsClose,
         socksVars, streamVars, sessionVars
  <1>2. (AnswerRead(t)' <=> AnswerRead(t)) /\ (Answered(t)' <=> Answered(t))
    BY <1>1 DEF AnswerRead, ReaderAtStream, Answered
  <1>q. toAgent \in Seq(Messages) BY DEF Types, WireTypes
  <1>3. CASE UNCHANGED toServer /\ toAgent # <<>> /\ toAgent' = Tail(toAgent)
    <2>1. /\ OpenSent(t)' => OpenSent(t)
          /\ Single(toAgent, {"open"}, t)'
          /\ Head(toAgent).type = "open" /\ Head(toAgent).stream = t => OpenSent(t) /\ ~OpenSent(t)'
      BY <1>3, <1>q, HeadTaken DEF OpenSent, OneOpen
    <2>2. AtWork(t)' => AtWork(t) \/ (Head(toAgent).type = "open" /\ Head(toAgent).stream = t)
      BY <1>3 DEF AgentMainStep, ReceiveAck, AgentMainReturns, AgentReaderStep, AgentReadFails,
           AgentReadsError,
           AgentReadsOpen, DialFails, DialSucceeds, AnswerOpen, AgentReadsData, AgentReadsClose,
           AgentReads, AtWork, AgentAt, wireVars
    <2>3. (AnswerSent(t)' <=> AnswerSent(t)) BY <1>3 DEF AnswerSent
    <2> QED BY <1>1, <1>2, <1>3, <2>1, <2>2, <2>3 DEF OneOpen
  <1>4. CASE UNCHANGED <<toServer, toAgent>>
    <2>2. AtWork(t)' => AtWork(t)
      BY <1>4 DEF AgentMainStep, ReceiveAck, AgentMainReturns, AgentReaderStep, AgentReadFails,
           AgentReadsError,
           AgentReadsOpen, DialFails, DialSucceeds, AnswerOpen, AgentReadsData, AgentReadsClose,
           AgentReads, AtWork, AgentAt, wireVars
    <2> QED BY <1>1, <1>2, <1>4, <2>2, OneOpenFrame DEF OneOpen, OpenSent, AnswerSent
  <1>5. ASSUME NEW s \in Streams, UNCHANGED toAgent, AtWork(s), ~AtWork(t)',
               SendToServer(Msg("ok", s, 0)) \/ SendToServer(Msg("fail", s, 0))
        PROVE OneOpen(t)'
    <2>1. \A x \in {"ok", "fail"} : InFlight(toServer, x, t)' => InFlight(toServer, x, t) \/ t = s
      BY <1>5, MsgType, SentToServer DEF Msg
    <2>2. OneOpen(s) => Single(toServer, Answers, t)'
      BY <1>5, MsgType, SentToServer DEF Msg, OneOpen, Answers, AnswerSent
    <2>3. OpenSent(t)' <=> OpenSent(t) BY <1>5 DEF OpenSent
    <2>4. t = s \/ (Single(toServer, Answers, t)' /\ (AnswerSent(t)' => AnswerSent(t)))
      BY <1>5, MsgType, SentToServer DEF Msg, OneOpen, Answers, AnswerSent
    <2> QED BY <1>1, <1>2, <1>5, <2>2, <2>3, <2>4 DEF OneOpen
  <1>6. ASSUME NEW s \in Streams, DialFails(s) \/ DialSucceeds(s) \/ AnswerOpen(s) PROVE OneOpen(t)'
    <2>1. CASE UNCHANGED <<toServer, toAgent>> BY <2>1, <1>4
    <2>2. CASE SendToServer(Msg("ok", s, 0)) \/ SendToServer(Msg("fail", s, 0))
      <3>1. UNCHANGED toAgent /\ AtWork(s) /\ (~AtWork(t)' \/ UNCHANGED toServer)
        BY <1>6 DEF DialFails, DialSucceeds, AnswerOpen, AtWork, AgentAt, wireVars
      <3> QED BY <2>1, <2>2, <3>1, <1>5
    <2> QED BY <1>6, <2>1, <2>2 DEF DialFails, DialSucceeds, AnswerOpen, wireVars
  <1>7. CASE \/ AgentMainStep \/ AgentReadFails \/ AgentReadsError
             \/ (\E s \in Streams : AgentReadsOpen(s) \/ AgentReadsData(s) \/ AgentReadsClose(s))
    BY <1>3, <1>4, <1>7 DEF AgentMainStep, ReceiveAck, AgentMainReturns, AgentReadFails,
         AgentReadsError,
         AgentReadsOpen, AgentReadsData, AgentReadsClose, AgentReads, wireVars
  <1> QED BY <1>6, <1>7 DEF AgentReaderStep

\* Every step keeps it.
LEMMA OneOpenStep ==
    Types /\ (\A t \in Streams : OneOpen(t)) /\ [Next]_vars => (\A t \in Streams : OneOpen(t))'
  <1> SUFFICES ASSUME Types, \A t \in Streams : OneOpen(t), [Next]_vars, NEW t \in Streams
               PROVE  OneOpen(t)'
    OBVIOUS
  <1>1. CASE Stopped \/ UNCHANGED vars
    <2>1. UNCHANGED vars BY <1>1 DEF Stopped
    <2> QED BY <2>1, OneOpenKept DEF vars, socksVars, streamVars, sessionVars, wireVars, agentVars,
          OneOpen, OpenSent, AnswerSent
  <1> QED
    BY <1>1, OneOpenHandler, OneOpenPump, OneOpenReader, OneOpenCloser, OneOpenAgent DEF Next,
         Environment

-------------------------------------------------------------------------------
(* The answer is true *)

\* Handlers that were told the stream is open.
Served == {"opened", "pumping", "closing", "notifying", "done"}

\* A stream_ok has been sent and is on its way, or was taken.
OkSaid(s) ==
    \/ InFlight(toServer, "ok", s) \/ ReaderAtStream({"ok"}, s)
    \/ openCh[s] = <<"ok">> \/ handler[s] \in Served

\* The same for stream_fail, or the handler has given up.
FailSaid(s) ==
    \/ InFlight(toServer, "fail", s) \/ ReaderAtStream({"fail"}, s)
    \/ openCh[s] = <<"fail">> \/ handler[s] = "refused"

\* The agent's reader dials.
Dialing(s) == AgentAt({"dialing"}, s)

\* The agent's reader has dialed and is about to answer.
Acking(s) == AgentAt({"acking"}, s)

\* The answer tells what the agent did: after ok its pump runs or has run, after
\* fail it never does; a target that is not closed is in the agent's map.
TruthfulAnswer(s) ==
    /\ OpenSent(s) \/ Dialing(s) => target[s] = "none"
    /\ Acking(s) => target[s] # "none"
    /\ OkSaid(s) => localPump[s] # "none"
    /\ localPump[s] # "none" =>
          /\ target[s] # "none" /\ ~FailSaid(s) /\ ~AtWork(s) /\ ~OpenSent(s)
          /\ handler[s] \in {"waiting", "timedout"} \cup Served
    /\ target[s] # "none" => Acking(s) \/ localPump[s] # "none" \/ ~AgentCanSend
    /\ target[s] \in {"open", "eof"} => s \in agentStreams
    /\ s \in agentStreams => target[s] # "none"

\* The agent's side of the stream is left alone, and nothing new is said.
LEMMA TruthfulFrame ==
    ASSUME NEW t \in Streams, OneOpen(t), TruthfulAnswer(t),
           OpenSent(t)' => OpenSent(t) \/ (target[t] = "none" /\ localPump[t] = "none"),
           OkSaid(t)' => OkSaid(t),
           FailSaid(t)' => FailSaid(t) \/ localPump[t] = "none",
           handler[t] \in {"waiting", "timedout"} \cup Served =>
               handler'[t] \in {"waiting", "timedout"} \cup Served \/ localPump[t] = "none",
           UNCHANGED <<agentReader, target, localPump, agentStreams>>,
           AgentCanSend' => AgentCanSend
    PROVE  TruthfulAnswer(t)'
  <1>1. (Dialing(t)' <=> Dialing(t)) /\ (Acking(t)' <=> Acking(t)) /\ (AtWork(t)' <=> AtWork(t))
    BY DEF Dialing, Acking, AtWork, AgentAt
  <1> QED BY <1>1 DEF TruthfulAnswer

\* A message that is no open brings no open.
LEMMA SentToAgentOther ==
    ASSUME Types, NEW m \in Messages, SendToAgent(m), m.type # "open"
    PROVE \A t : OpenSent(t)' => OpenSent(t)
  BY SentToAgent DEF OpenSent

\* The handlers keep it: they move an answer on.
LEMMA TruthfulHandler ==
    ASSUME Types, NEW s \in Streams, Route(s) \/ HandlerStep(s),
           NEW t \in Streams, OneOpen(t), TruthfulAnswer(t)
    PROVE  TruthfulAnswer(t)'
  <1>h. handler \in [Streams -> HandlerPoints] /\ openCh \in [Streams -> Seq({"ok", "fail"})]
    BY DEF Types, SocksTypes, StreamTypes
  <1>1. UNCHANGED <<toServer, reader, agentReader, target, localPump, agentStreams, agentOpen,
                    serverOpen, linkUp>>
    BY DEF Route, HandlerStep, RegisterStream, SendOpen, OpenResolved, OpenTimesOut, ReplyOpened,
         PumpEnded, CloseStream, NotifyAgent, wireVars, sessionVars, linkVars, agentVars
  <1>2. AgentCanSend' <=> AgentCanSend BY <1>1 DEF AgentCanSend
  <1>3. handler[t] = "opening" /\ AgentCanSend => target[t] = "none" /\ localPump[t] = "none"
    BY DEF OneOpen, TruthfulAnswer, Served, AtWork, Acking, AgentAt
  <1>4. handler[t] = "opening" => localPump[t] = "none" BY DEF TruthfulAnswer, Served
  <1>5. OpenSent(t)' => OpenSent(t) \/ (t = s /\ handler[t] = "opening" /\ AgentCanSend)
    <2>1. CASE SendOpen(s) /\ ServerCanSend
      BY <2>1, MsgType, SentToAgent DEF SendOpen, HandlerAt, Msg, OpenSent, AgentCanSend,
           ServerCanSend
    <2>2. CASE NotifyAgent(s) /\ ServerCanSend
      BY <2>2, MsgType, SentToAgentOther DEF NotifyAgent, Msg
    <2>3. CASE UNCHANGED toAgent BY <2>3 DEF OpenSent
    <2> QED BY <2>1, <2>2, <2>3 DEF Route, HandlerStep, RegisterStream, SendOpen, OpenResolved,
          OpenTimesOut, ReplyOpened, PumpEnded, CloseStream, NotifyAgent, wireVars
  <1>6. t # s => handler'[t] = handler[t] /\ openCh'[t] = openCh[t]
    BY <1>h DEF Route, HandlerStep, RegisterStream, SendOpen, OpenResolved, OpenTimesOut,
         ReplyOpened, PumpEnded, CloseStream, NotifyAgent, streamVars
  <1>7. /\ InFlight(toServer, "ok", t)' <=> InFlight(toServer, "ok", t)
        /\ InFlight(toServer, "fail", t)' <=> InFlight(toServer, "fail", t)
        /\ ReaderAtStream({"ok"}, t)' <=> ReaderAtStream({"ok"}, t)
        /\ ReaderAtStream({"fail"}, t)' <=> ReaderAtStream({"fail"}, t)
    BY <1>1 DEF ReaderAtStream
  <1>8. /\ OkSaid(t)' => OkSaid(t)
        /\ FailSaid(t)' => FailSaid(t) \/ handler[t] = "opening"
        /\ handler[t] \in {"waiting", "timedout"} \cup Served =>
              handler'[t] \in {"waiting", "timedout"} \cup Served \/ FailSaid(t)
    <2>1. CASE t # s BY <1>6, <1>7, <2>1 DEF OkSaid, FailSaid
    <2>2. CASE t = s /\ OpenResolved(s)
      <3>1. openCh'[t] = <<>> /\ handler[t] = "waiting" /\ openCh[t] \in {<<"ok">>, <<"fail">>}
        BY <1>h, <2>2 DEF OpenResolved, OneOpen, HandlerAt
      <3>2. CASE openCh[t] = <<"ok">>
        <4>1. handler'[t] = "opened" BY <1>h, <2>2, <3>2 DEF OpenResolved
        <4> QED BY <1>7, <3>1, <3>2, <4>1 DEF OkSaid, FailSaid, Served
      <3>3. CASE openCh[t] = <<"fail">>
        <4>1. handler'[t] = "refused" BY <1>h, <2>2, <3>3 DEF OpenResolved
        <4> QED BY <1>7, <3>1, <3>3, <4>1 DEF OkSaid, FailSaid, Served
      <3> QED BY <3>1, <3>2, <3>3
    <2>3. CASE t = s /\ ~OpenResolved(s)
      <3>1. UNCHANGED openCh
        BY <2>3 DEF HandlerStep, Route, RegisterStream, SendOpen, OpenTimesOut, ReplyOpened,
                    PumpEnded, CloseStream, NotifyAgent, streamVars
      <3>2. /\ handler'[t] \in Served => handler[t] \in Served
            /\ handler'[t] = "refused" => handler[t] = "opening"
            /\ handler[t] \in {"waiting", "timedout"} \cup Served =>
                  handler'[t] \in {"waiting", "timedout"} \cup Served
        BY <1>h, <2>3 DEF HandlerStep, Route, RegisterStream, SendOpen, OpenTimesOut, ReplyOpened,
                    PumpEnded, CloseStream, NotifyAgent, HandlerAt, Served
      <3> QED BY <1>7, <3>1, <3>2 DEF OkSaid, FailSaid
    <2> QED BY <2>1, <2>2, <2>3
  <1>9. FailSaid(t) => localPump[t] = "none" BY DEF TruthfulAnswer
  <1>10. OpenSent(t)' => OpenSent(t) \/ (target[t] = "none" /\ localPump[t] = "none")
    <2>1. handler[t] = "opening" /\ AgentCanSend => target[t] = "none" /\ localPump[t] = "none"
      BY <1>3
    <2> QED BY <2>1, <1>5
  <1>11. FailSaid(t)' => FailSaid(t) \/ localPump[t] = "none" BY <1>4, <1>8
  <1>12. handler[t] \in {"waiting", "timedout"} \cup Served =>
             handler'[t] \in {"waiting", "timedout"} \cup Served \/ localPump[t] = "none"
    BY <1>8, <1>9
  <1>13. OkSaid(t)' => OkSaid(t) BY <1>8
  <1>14. UNCHANGED <<agentReader, target, localPump, agentStreams>> BY <1>1
  <1> QED BY <1>2, <1>10, <1>11, <1>12, <1>13, <1>14, TruthfulFrame

\* A step that leaves the two ends alone and says nothing new.
LEMMA TruthfulKept ==
    ASSUME NEW t \in Streams, OneOpen(t), TruthfulAnswer(t),
           OpenSent(t)' => OpenSent(t), OkSaid(t)' => OkSaid(t), FailSaid(t)' => FailSaid(t),
           UNCHANGED <<handler, agentReader, target, localPump, agentStreams>>,
           AgentCanSend' => AgentCanSend
    PROVE  TruthfulAnswer(t)'
  BY TruthfulFrame

\* A message that is no answer says nothing of an open.
LEMMA SaidToServer ==
    ASSUME Types, NEW m \in Messages, SendToServer(m), m.type \notin Answers,
           UNCHANGED <<handler, openCh, reader>>
    PROVE \A t : (OkSaid(t)' => OkSaid(t)) /\ (FailSaid(t)' => FailSaid(t))
  BY SentToServer DEF OkSaid, FailSaid, Answers, ReaderAtStream

\* Nothing is said if the server's side is left alone.
LEMMA SaidSame ==
    ASSUME UNCHANGED <<handler, openCh, reader, toServer>>
    PROVE \A t : (OkSaid(t)' <=> OkSaid(t)) /\ (FailSaid(t)' <=> FailSaid(t))
  BY DEF OkSaid, FailSaid, Answers, ReaderAtStream

\* The pumps end a stream but do not answer.
LEMMA TruthfulPump ==
    ASSUME Types, NEW s \in Streams,
           \/ PumpUp(s) \/ UpPumpEnds(s) \/ DownPumpStep(s) \/ WriteChunk(s)
           \/ ClientShutsSending(s) \/ ClientGone(s)
           \/ PumpDown(s) \/ TargetShutsSending(s) \/ LocalPumpEnds(s),
           NEW t \in Streams, OneOpen(t), TruthfulAnswer(t)
    PROVE  TruthfulAnswer(t)'
  <1>1. UNCHANGED <<handler, openCh, agentReader, reader, serverOpen, agentOpen, linkUp>>
    BY DEF PumpUp, UpPumpEnds, DownPumpStep, TakeChunk, WriteFails, DownPumpEnds, WriteChunk,
           ClientShutsSending, ClientGone, PumpDown, TargetShutsSending, LocalPumpEnds,
           socksVars, streamVars, sessionVars, linkVars, agentVars
  <1>2. upRead[s] + 1 \in Nat /\ downRead[s] + 1 \in Nat BY DEF Types, SocksTypes, AgentTypes
  <1>3. OpenSent(t)' => OpenSent(t)
    <2>1. CASE PumpUp(s) /\ ServerCanSend
      BY <2>1, <1>2, MsgType, SentToAgentOther DEF PumpUp, Msg
    <2>2. CASE UNCHANGED toAgent BY <2>2 DEF OpenSent
    <2> QED BY <2>1, <2>2 DEF PumpUp, UpPumpEnds, DownPumpStep, TakeChunk, WriteFails,
           DownPumpEnds, WriteChunk, ClientShutsSending, ClientGone, PumpDown,
           TargetShutsSending, LocalPumpEnds, wireVars
  <1>4. (OkSaid(t)' => OkSaid(t)) /\ (FailSaid(t)' => FailSaid(t))
    <2>1. CASE PumpDown(s) /\ AgentCanSend
      BY <2>1, <1>1, <1>2, MsgType, SaidToServer DEF PumpDown, Msg, Answers
    <2>2. CASE LocalPumpEnds(s) /\ AgentCanSend
      BY <2>2, <1>1, MsgType, SaidToServer DEF LocalPumpEnds, Msg, Answers
    <2>3. CASE UNCHANGED toServer BY <2>3, <1>1, SaidSame
    <2> QED BY <2>1, <2>2, <2>3 DEF PumpUp, UpPumpEnds, DownPumpStep, TakeChunk, WriteFails,
           DownPumpEnds, WriteChunk, ClientShutsSending, ClientGone, PumpDown,
           TargetShutsSending, LocalPumpEnds, wireVars
  <1>5. AgentCanSend' <=> AgentCanSend BY <1>1 DEF AgentCanSend
  <1>6. CASE UNCHANGED agentVars
    BY <1>1, <1>3, <1>4, <1>5, <1>6, TruthfulKept DEF agentVars
  <1>7. CASE PumpDown(s) \/ TargetShutsSending(s) \/ LocalPumpEnds(s)
    <2>1. /\ t # s => target'[t] = target[t] /\ localPump'[t] = localPump[t]
                       /\ (t \in agentStreams' <=> t \in agentStreams)
          /\ localPump'[t] = "none" <=> localPump[t] = "none"
          /\ target'[t] = "none" <=> target[t] = "none"
          /\ target'[t] \in {"open", "eof"} /\ target[t] \notin {"open", "eof"} => FALSE
          /\ t \in agentStreams' => t \in agentStreams
          /\ t \notin agentStreams' /\ t \in agentStreams => target'[t] = "closed"
      BY <1>7 DEF PumpDown, TargetShutsSending, LocalPumpEnds, Types, AgentTypes
    <2>2. /\ Dialing(t)' <=> Dialing(t)
          /\ Acking(t)' <=> Acking(t)
          /\ AtWork(t)' <=> AtWork(t)
      BY <1>1 DEF Dialing, Acking, AtWork, AgentAt
    <2> QED BY <1>1, <1>3, <1>4, <1>5, <2>1, <2>2 DEF TruthfulAnswer
  <1> QED BY <1>6, <1>7 DEF PumpUp, UpPumpEnds, DownPumpStep, TakeChunk, WriteFails, DownPumpEnds,
        WriteChunk, ClientShutsSending, ClientGone

\* The read loop moves an answer on.
LEMMA TruthfulReader ==
    ASSUME Types, ReaderStep, NEW t \in Streams, OneOpen(t), TruthfulAnswer(t)
    PROVE  TruthfulAnswer(t)'
  <1>1. UNCHANGED <<handler, agentReader, target, localPump, agentStreams, agentOpen, linkUp>>
    BY DEF ReaderStep, SendAck, Read, ResolveOpen, PushData, PushTimesOut, ReadFails, RemoveActive,
         SweepStream, HandleConnReturns,
           socksVars, agentVars, linkVars
  <1>2. AgentCanSend' <=> AgentCanSend BY <1>1 DEF AgentCanSend
  <1>3. OpenSent(t)' => OpenSent(t)
    <2>1. CASE SendAck /\ ServerCanSend BY <2>1, MsgType, SentToAgentOther DEF SendAck, Msg
    <2>2. CASE UNCHANGED toAgent BY <2>2 DEF OpenSent
    <2> QED BY <2>1, <2>2 DEF ReaderStep, SendAck, Read, ResolveOpen, PushData, PushTimesOut,
          ReadFails, RemoveActive, SweepStream, HandleConnReturns, wireVars
  <1>4. (OkSaid(t)' => OkSaid(t)) /\ (FailSaid(t)' => FailSaid(t))
    <2>1. CASE Read
      <3> DEFINE m == Head(toServer)
      <3>1. /\ toServer \in Seq(Messages) /\ toServer # <<>> /\ toServer' = Tail(toServer)
            /\ UNCHANGED openCh /\ reader.at = "reading"
        BY <2>1 DEF Read, Types, WireTypes, ReaderIs
      <3>2. \A type \in {"ok", "fail"} :
                /\ InFlight(toServer, type, t)' => InFlight(toServer, type, t)
                /\ m.type = type /\ m.stream = t => InFlight(toServer, type, t)
        BY <3>1, HeadTaken
      <3>3. \A type \in {"ok", "fail"} : ReaderAtStream({type}, t)' => m.type = type /\ m.stream = t
        <4>1. CASE ReadAnswer(m) BY <3>1, <4>1 DEF ReadAnswer, ReaderAtStream
        <4>2. CASE ReadData(m) BY <3>1, <4>2 DEF ReadData, ReaderAtStream
        <4>3. CASE ReadClose(m) BY <3>1, <4>3 DEF ReadClose, ReaderAtStream
        <4> QED BY <2>1, <4>1, <4>2, <4>3 DEF Read
      <3> HIDE DEF m
      <3> QED BY <1>1, <3>1, <3>2, <3>3 DEF OkSaid, FailSaid
    <2>2. CASE ResolveOpen
      <3>1. /\ UNCHANGED <<handler, toServer>> /\ reader' \in Resting
            /\ openCh' = [openCh EXCEPT ![reader.stream] = <<reader.at>>]
            /\ reader.at \in {"ok", "fail"}
        BY <2>2 DEF ResolveOpen, Resting, socksVars, wireVars, ReaderIs
      <3>2. \A type \in {"ok", "fail"} : ~ReaderAtStream({type}, t)'
        BY <3>1, RestingFacts DEF ReaderAtStream
      <3>3. \A type \in {"ok", "fail"} : openCh'[t] = <<type>>
               => openCh[t] = <<type>> \/ ReaderAtStream({type}, t)
        BY <3>1 DEF ReaderAtStream, Types, StreamTypes
      <3> QED BY <3>1, <3>2, <3>3 DEF OkSaid, FailSaid
    <2>3. CASE ~Read /\ ~ResolveOpen
      <3>1. UNCHANGED <<handler, openCh, toServer>> /\ (reader' = reader \/ reader' \in Resting)
        BY <2>3 DEF Resting, ReaderStep, SendAck, PushData, PushTimesOut, ReadFails, RemoveActive,
             SweepStream, HandleConnReturns, socksVars, streamVars, wireVars
      <3>2. \A type \in {"ok", "fail"} : ReaderAtStream({type}, t)' => ReaderAtStream({type}, t)
        BY <3>1, RestingFacts DEF ReaderAtStream
      <3> QED BY <3>1, <3>2 DEF OkSaid, FailSaid
    <2> QED BY <2>1, <2>2, <2>3
  <1> QED BY <1>1, <1>2, <1>3, <1>4, TruthfulKept

\* Whoever closes the session says nothing.
LEMMA TruthfulCloser ==
    ASSUME Types, CloserStep \/ CloseRequested \/ TouchRefused \/ LinkBreaks,
           NEW t \in Streams, OneOpen(t), TruthfulAnswer(t)
    PROVE  TruthfulAnswer(t)'
  <1>1. UNCHANGED <<handler, openCh, agentReader, target, localPump, agentStreams>>
    BY DEF CloserStep, CloseAllStreams, SweepStream, CloseReturns, CloseRequested, TouchRefused,
         LinkBreaks, socksVars, streamVars, agentVars
  <1>2. reader' = reader \/ reader' \in Resting
    BY DEF CloserStep, CloseAllStreams, SweepStream, CloseReturns, CloseRequested, TouchRefused,
         LinkBreaks, Resting, sessionVars
  <1>3. \/ UNCHANGED <<toAgent, toServer>> \/ (toAgent' = <<>> /\ toServer' = <<>>)
        \/ SendToAgent(Msg("error", None, 0)) /\ UNCHANGED toServer
    BY DEF CloserStep, CloseAllStreams, SweepStream, CloseReturns, CloseRequested, TouchRefused,
         LinkBreaks, wireVars
  <1>4. AgentCanSend' => AgentCanSend
    BY DEF CloserStep, CloseAllStreams, SweepStream, CloseReturns, CloseRequested, TouchRefused,
         LinkBreaks, linkVars, AgentCanSend
  <1>5. \A type \in {"ok", "fail"} : ReaderAtStream({type}, t)' => ReaderAtStream({type}, t)
    BY <1>2, RestingFacts DEF ReaderAtStream
  <1>6. /\ OpenSent(t)' => OpenSent(t)
        /\ \A type : InFlight(toServer, type, t)' => InFlight(toServer, type, t)
    <2>1. CASE SendToAgent(Msg("error", None, 0)) /\ UNCHANGED toServer
      <3>1. Msg("error", None, 0) \in Messages BY MsgType
      <3>2. Msg("error", None, 0).type # "open" BY DEF Msg
      <3> QED BY <2>1, <3>1, <3>2, SentToAgentOther
    <2>2. CASE ~(SendToAgent(Msg("error", None, 0)) /\ UNCHANGED toServer)
      BY <1>3, <2>2, EmptyQueue DEF OpenSent
    <2> QED BY <2>1, <2>2
  <1>7. (OkSaid(t)' => OkSaid(t)) /\ (FailSaid(t)' => FailSaid(t))
    BY <1>1, <1>5, <1>6 DEF OkSaid, FailSaid
  <1> QED BY <1>1, <1>4, <1>6, <1>7, TruthfulKept

\* The agent's reader starts behind register_ok.
GreetsFirst == agent = "greeting" => agentReader.at = "none"

\* Every step keeps it.
LEMMA GreetsFirstStep == GreetsFirst /\ [Next]_vars => GreetsFirst'
  <1> SUFFICES ASSUME GreetsFirst, [Next]_vars PROVE GreetsFirst' OBVIOUS
  <1>1. CASE UNCHANGED <<agent, agentReader>> BY <1>1 DEF GreetsFirst
  <1>2. CASE AgentMainStep
    BY <1>2 DEF AgentMainStep, ReceiveAck, AgentMainReturns, AgentLeaves, GreetsFirst
  <1>3. CASE AgentReaderStep
    BY <1>3 DEF AgentReaderStep, AgentReadFails, AgentReadsError, AgentReadsOpen, AgentReads,
         DialFails,
         DialSucceeds, AnswerOpen,
                AgentReadsData, AgentReadsClose, GreetsFirst
  <1>4. ASSUME NEW s \in Streams,
               \/ Route(s) \/ HandlerStep(s)
               \/ PumpUp(s) \/ UpPumpEnds(s) \/ DownPumpStep(s) \/ WriteChunk(s)
               \/ ClientShutsSending(s) \/ ClientGone(s)
               \/ PumpDown(s) \/ TargetShutsSending(s) \/ LocalPumpEnds(s)
        PROVE  UNCHANGED <<agent, agentReader>>
    BY <1>4 DEF Route, HandlerStep, RegisterStream, SendOpen, OpenResolved, OpenTimesOut,
         ReplyOpened, PumpEnded, CloseStream, NotifyAgent,
           PumpUp, UpPumpEnds, DownPumpStep, TakeChunk, WriteFails, DownPumpEnds, WriteChunk,
           ClientShutsSending, ClientGone, PumpDown, TargetShutsSending, LocalPumpEnds, agentVars
  <1>5. CASE \/ ReaderStep \/ CloserStep \/ CloseRequested \/ TouchRefused \/ LinkBreaks
             \/ Stopped \/ UNCHANGED vars
    BY <1>1, <1>5 DEF ReaderStep, SendAck, Read, ResolveOpen, PushData, PushTimesOut, ReadFails,
         RemoveActive, SweepStream, HandleConnReturns,
           CloserStep, CloseAllStreams, CloseReturns, CloseRequested, TouchRefused, LinkBreaks,
           Stopped, vars, agentVars
  <1> QED BY <1>1, <1>2, <1>3, <1>4, <1>5 DEF Next, Environment

\* The agent answers what it did.
LEMMA TruthfulAgent ==
    ASSUME Types, GreetsFirst, AgentMainStep \/ AgentReaderStep, NEW t \in Streams, OneOpen(t),
           TruthfulAnswer(t)
    PROVE  TruthfulAnswer(t)'
  <1>1. UNCHANGED <<handler, openCh, reader>>
    BY DEF AgentMainStep, ReceiveAck, AgentMainReturns, AgentReaderStep, AgentReadFails,
         AgentReadsError,
         AgentReadsOpen, DialFails, DialSucceeds, AnswerOpen, AgentReadsData, AgentReadsClose,
         socksVars, streamVars, sessionVars
  <1>q. toAgent \in Seq(Messages) /\ target \in [Streams -> {"none", "open", "eof", "closed"}]
        /\ localPump \in [Streams -> {"none", "running", "ended"}]
     BY DEF Types, WireTypes, AgentTypes
  <1>l. AgentCanSend' => AgentCanSend
    BY DEF AgentMainStep, ReceiveAck, AgentMainReturns, AgentReaderStep, AgentReadFails,
         AgentReadsError,
         AgentReadsOpen, DialFails, DialSucceeds, AnswerOpen, AgentReadsData, AgentReadsClose,
         AgentLeaves, linkVars, AgentCanSend
  <1>2. CASE ReceiveAck \/ AgentMainReturns \/ AgentReadFails \/ AgentReadsError
    <2>1. UNCHANGED <<toServer, localPump>>
      BY <1>2 DEF ReceiveAck, AgentMainReturns, AgentReadFails, AgentReadsError, AgentReads,
           agentVars, wireVars
    <2>2. (OkSaid(t)' <=> OkSaid(t)) /\ (FailSaid(t)' <=> FailSaid(t)) BY <1>1, <2>1, SaidSame
    <2>3. OpenSent(t)' => OpenSent(t)
      <3>1. CASE UNCHANGED toAgent BY <3>1 DEF OpenSent
      <3>2. CASE toAgent # <<>> /\ toAgent' = Tail(toAgent) BY <3>2, <1>q, HeadTaken DEF OpenSent
      <3> QED BY <1>2, <3>1, <3>2 DEF ReceiveAck, AgentMainReturns, AgentReadFails,
             AgentReadsError, AgentReads, wireVars
    <2>4. /\ Dialing(t)' => Dialing(t)
          /\ AtWork(t)' => AtWork(t)
          /\ Acking(t)' => Acking(t)
      BY <1>2 DEF ReceiveAck, AgentMainReturns, AgentReadFails, AgentReadsError, Dialing, AtWork,
           Acking, AgentAt
    <2>5. CASE UNCHANGED <<target, agentStreams, agentOpen>>
      <3>1. Acking(t)' \/ ~Acking(t)
        BY <1>2 DEF ReceiveAck, AgentMainReturns, AgentReadFails, AgentReadsError, AgentReads,
             Acking, AgentAt, GreetsFirst
      <3> QED BY <1>1, <1>l, <2>1, <2>2, <2>3, <2>4, <2>5, <3>1 DEF TruthfulAnswer
    <2>6. CASE AgentLeaves
      <3>1. target'[t] = IF t \in agentStreams THEN "closed" ELSE target[t] BY <2>6 DEF AgentLeaves
      <3>2. ~AgentCanSend' /\ agentStreams' = {} BY <2>6 DEF AgentLeaves, AgentCanSend
      <3> QED BY <1>1, <2>1, <2>2, <2>3, <2>4, <3>1, <3>2 DEF TruthfulAnswer
    <2> QED BY <1>2, <2>5, <2>6 DEF ReceiveAck, AgentMainReturns, AgentReadFails, AgentReadsError,
    linkVars
  <1>3. ASSUME NEW s \in Streams, AgentReadsOpen(s) PROVE TruthfulAnswer(t)'
    <2>1. /\ UNCHANGED <<toServer, localPump, target, agentStreams>> /\ toAgent # <<>>
          /\ toAgent' = Tail(toAgent)
          /\ agentReader.at = "reading" /\ agentReader' = [at |-> "dialing", stream |-> s]
          /\ Head(toAgent).type = "open" /\ Head(toAgent).stream = s
      BY <1>3 DEF AgentReadsOpen, AgentReads
    <2>2. (OkSaid(t)' <=> OkSaid(t)) /\ (FailSaid(t)' <=> FailSaid(t)) BY <1>1, <2>1, SaidSame
    <2>3. (OpenSent(t)' => OpenSent(t)) /\ OpenSent(s) BY <1>q, <2>1, HeadTaken DEF OpenSent
    <2>4. /\ ~Dialing(t) /\ ~Acking(t) /\ ~Acking(t)'
          /\ Dialing(t)' => t = s
          /\ AtWork(t)' => t = s
      BY <2>1 DEF Dialing, AtWork, Acking, AgentAt
    <2> QED BY <1>1, <1>l, <2>1, <2>2, <2>3, <2>4 DEF TruthfulAnswer
  <1>4. ASSUME NEW s \in Streams, DialFails(s) PROVE TruthfulAnswer(t)'
    <2>1. /\ UNCHANGED <<toAgent, localPump, target, agentStreams>>
          /\ agentReader = [at |-> "dialing", stream |-> s]
          /\ agentReader' = [at |-> "reading", stream |-> None]
          /\ UNCHANGED toServer \/ SendToServer(Msg("fail", s, 0))
      BY <1>4 DEF DialFails
    <2>2. (OkSaid(t)' => OkSaid(t)) /\ (FailSaid(t)' => FailSaid(t) \/ t = s)
      <3>1. CASE UNCHANGED toServer BY <1>1, <3>1, SaidSame
      <3>2. CASE SendToServer(Msg("fail", s, 0))
        BY <1>1, <3>2, MsgType, SentToServer DEF Msg, OkSaid, FailSaid, ReaderAtStream
      <3> QED BY <2>1, <3>1, <3>2
    <2>3. OpenSent(t)' => OpenSent(t) BY <2>1 DEF OpenSent
    <2>4. /\ AtWork(s) /\ ~Dialing(t)' /\ ~Acking(t) /\ ~Acking(t)' /\ ~AtWork(t)'
      BY <2>1 DEF Dialing, AtWork, Acking, AgentAt
    <2> QED BY <1>1, <1>l, <2>1, <2>2, <2>3, <2>4 DEF TruthfulAnswer
  <1>5. ASSUME NEW s \in Streams, DialSucceeds(s) PROVE TruthfulAnswer(t)'
    <2>1. /\ UNCHANGED <<toAgent, toServer, localPump>>
          /\ agentReader = [at |-> "dialing", stream |-> s]
          /\ agentReader' = [at |-> "acking", stream |-> s]
          /\ agentStreams' = agentStreams \cup {s}
          /\ target' = [target EXCEPT ![s] = "open"]
      BY <1>5 DEF DialSucceeds, wireVars
    <2>2. (OkSaid(t)' <=> OkSaid(t)) /\ (FailSaid(t)' <=> FailSaid(t)) BY <1>1, <2>1, SaidSame
    <2>3. OpenSent(t)' <=> OpenSent(t) BY <2>1 DEF OpenSent
    <2>4. /\ AtWork(s) /\ Acking(s)' /\ ~Dialing(t)' /\ ~Acking(t)
          /\ Dialing(t) <=> t = s
          /\ Acking(t)' => t = s
          /\ AtWork(t)' <=> t = s
          /\ AtWork(t) <=> t = s
      BY <2>1 DEF Dialing, AtWork, Acking, AgentAt
    <2> QED BY <1>1, <1>l, <1>q, <2>1, <2>2, <2>3, <2>4 DEF TruthfulAnswer, OneOpen
  <1>6. ASSUME NEW s \in Streams, AnswerOpen(s) PROVE TruthfulAnswer(t)'
    <2>1. /\ UNCHANGED <<toAgent, agentStreams>> /\ agentReader = [at |-> "acking", stream |-> s]
          /\ agentReader'.at \in {"reading", "ended"}
      BY <1>6 DEF AnswerOpen
    <2>2. OpenSent(t)' <=> OpenSent(t) BY <2>1 DEF OpenSent
    <2>3. /\ AtWork(s) /\ ~Dialing(t)' /\ ~Acking(t)' /\ ~AtWork(t)' /\ ~Dialing(t)
          /\ Acking(t) => t = s
      BY <2>1 DEF Dialing, AtWork, Acking, AgentAt
    <2>4. CASE AgentCanSend
      <3>1. /\ SendToServer(Msg("ok", s, 0)) /\ localPump' = [localPump EXCEPT ![s] = "running"]
            /\ UNCHANGED target
        BY <1>6, <2>4 DEF AnswerOpen
      <3>2. (FailSaid(t)' => FailSaid(t)) /\ (OkSaid(t)' => OkSaid(t) \/ t = s)
        BY <1>1, <3>1, MsgType, SentToServer DEF Msg, OkSaid, FailSaid, ReaderAtStream
      <3>3. t = s => ~FailSaid(t) /\ handler[t] \in {"waiting", "timedout"} /\ ~OpenSent(t)
        BY <2>3 DEF OneOpen, FailSaid, AnswerSent, Answered, AnswerRead, ReaderAtStream, Answers
      <3>4. t = s => target[t] # "none" BY <2>1 DEF Acking, AgentAt, TruthfulAnswer
      <3> QED BY <1>1, <1>l, <1>q, <2>1, <2>2, <2>3, <3>1, <3>2, <3>3, <3>4 DEF TruthfulAnswer
    <2>5. CASE ~AgentCanSend
      <3>1. target' = [target EXCEPT ![s] = "closed"] /\ UNCHANGED <<toServer, localPump>>
        BY <1>6, <2>5 DEF AnswerOpen
      <3>2. (OkSaid(t)' <=> OkSaid(t)) /\ (FailSaid(t)' <=> FailSaid(t)) BY <1>1, <3>1, SaidSame
      <3> QED BY <1>1, <1>l, <1>q, <2>1, <2>2, <2>3, <2>5, <3>1, <3>2 DEF TruthfulAnswer, OneOpen
    <2> QED BY <2>4, <2>5
  <1>7. ASSUME NEW s \in Streams, AgentReadsData(s) \/ AgentReadsClose(s) PROVE TruthfulAnswer(t)'
    <2>1. /\ UNCHANGED <<toServer, localPump, agentReader>> /\ toAgent # <<>>
          /\ toAgent' = Tail(toAgent)
      BY <1>7 DEF AgentReadsData, AgentReadsClose, AgentReads
    <2>2. (OkSaid(t)' <=> OkSaid(t)) /\ (FailSaid(t)' <=> FailSaid(t)) BY <1>1, <2>1, SaidSame
    <2>3. OpenSent(t)' => OpenSent(t) BY <1>q, <2>1, HeadTaken DEF OpenSent
    <2>4. /\ Dialing(t)' <=> Dialing(t)
          /\ Acking(t)' <=> Acking(t)
          /\ AtWork(t)' <=> AtWork(t)
      BY <2>1 DEF Dialing, AtWork, Acking, AgentAt
    <2>5. /\ target'[t] = target[t] \/ (t \in agentStreams /\ target'[t] = "closed")
          /\ t \in agentStreams' => t \in agentStreams
          /\ t \in agentStreams /\ t \notin agentStreams' => target'[t] = "closed"
      BY <1>7, <1>q DEF AgentReadsData, AgentReadsClose
    <2> QED BY <1>1, <1>l, <2>1, <2>2, <2>3, <2>4, <2>5 DEF TruthfulAnswer
  <1> QED BY <1>2, <1>3, <1>4, <1>5, <1>6, <1>7 DEF AgentMainStep, AgentReaderStep

\* Every step keeps it.
LEMMA TruthfulStep ==
    /\ Types /\ GreetsFirst /\ (\A t \in Streams : OneOpen(t) /\ TruthfulAnswer(t)) /\ [Next]_vars
    => (\A t \in Streams : TruthfulAnswer(t))'
  <1> SUFFICES ASSUME Types, GreetsFirst, \A t \in Streams : OneOpen(t) /\ TruthfulAnswer(t),
                      [Next]_vars, NEW t \in Streams
               PROVE  TruthfulAnswer(t)'
    OBVIOUS
  <1>1. CASE Stopped \/ UNCHANGED vars
    <2>1. UNCHANGED vars BY <1>1 DEF Stopped
    <2>2. UNCHANGED <<handler, openCh, reader, toServer, toAgent, agentReader, target, localPump,
                      agentStreams, agentOpen, linkUp>>
      BY <2>1 DEF vars, socksVars, streamVars, sessionVars, linkVars, wireVars, agentVars
    <2> QED BY <2>2, TruthfulKept, SaidSame DEF OpenSent, AgentCanSend
  <1> QED
    BY <1>1, TruthfulHandler, TruthfulPump, TruthfulReader, TruthfulCloser, TruthfulAgent DEF Next,
         Environment

-------------------------------------------------------------------------------
(* Chunks behind the answer *)

\* Every chunk of a stream in the queue is behind the stream_ok of the stream.
OkFirst(q, s) ==
    \A i \in DOMAIN q : IsData(q[i], s) =>
        \E j \in DOMAIN q : j < i /\ q[j].type = "ok" /\ q[j].stream = s

\* So it is in an empty queue,
LEMMA OkFirstEmpty == \A s : OkFirst(<<>>, s)
  BY DEF OkFirst

\* in a queue without chunks of the stream,
LEMMA OkFirstNoData ==
    ASSUME NEW q \in Seq(Messages), NEW s, ~InFlight(q, "data", s)
    PROVE  OkFirst(q, s)
  BY DEF OkFirst, InFlight, IsData

\* after an append, if a chunk that is appended finds the stream_ok there,
LEMMA OkFirstAppend ==
    ASSUME NEW q \in Seq(Messages), NEW m \in Messages, NEW s, OkFirst(q, s),
           IsData(m, s) => InFlight(q, "ok", s)
    PROVE  OkFirst(Append(q, m), s)
  <1> DEFINE r == Append(q, m)
             e == Len(q) + 1
  <1>0. /\ \A i \in DOMAIN r : i # e => i \in DOMAIN q /\ r[i] = q[i]
        /\ \A i \in DOMAIN q : i \in DOMAIN r /\ r[i] = q[i] /\ i < e
        /\ r[e] = m
    BY AppendFacts
  <1> HIDE DEF r, e
  <1>1. ASSUME NEW i \in DOMAIN r, IsData(r[i], s)
        PROVE  \E j \in DOMAIN r : j < i /\ r[j].type = "ok" /\ r[j].stream = s
    <2>1. CASE i = e BY <1>0, <1>1, <2>1 DEF InFlight
    <2>2. CASE i # e
      <3>1. PICK j \in DOMAIN q : j < i /\ q[j].type = "ok" /\ q[j].stream = s
        BY <1>0, <1>1, <2>2 DEF OkFirst
      <3> QED BY <1>0, <3>1
    <2> QED BY <2>1, <2>2
  <1> QED BY <1>1 DEF OkFirst, r

\* and after the head has left, unless it is the stream_ok.
LEMMA OkFirstTail ==
    ASSUME NEW q \in Seq(Messages), q # <<>>, NEW s, OkFirst(q, s)
    PROVE  /\ ~IsData(Head(q), s)
           /\ ~(Head(q).type = "ok" /\ Head(q).stream = s) => OkFirst(Tail(q), s)
  <1> DEFINE r == Tail(q)
  <1>0. /\ \A i \in DOMAIN r : i + 1 \in DOMAIN q /\ r[i] = q[i + 1] /\ i \in Nat
        /\ \A i \in DOMAIN q : i # 1 => i - 1 \in DOMAIN r /\ r[i - 1] = q[i]
        /\ \A i \in DOMAIN q : i \in Nat /\ 1 <= i
        /\ 1 \in DOMAIN q /\ Head(q) = q[1]
    BY TailFacts
  <1> HIDE DEF r
  <1>1. ~IsData(Head(q), s) BY <1>0 DEF OkFirst
  <1>2. ASSUME ~(Head(q).type = "ok" /\ Head(q).stream = s), NEW i \in DOMAIN r, IsData(r[i], s)
        PROVE  \E j \in DOMAIN r : j < i /\ r[j].type = "ok" /\ r[j].stream = s
    <2>1. PICK j \in DOMAIN q : j < i + 1 /\ q[j].type = "ok" /\ q[j].stream = s
      BY <1>0, <1>2 DEF OkFirst
    <2>2. j # 1 BY <1>0, <1>2, <2>1
    <2>3. j - 1 \in DOMAIN r /\ r[j - 1] = q[j] BY <1>0, <2>2
    <2>4. j - 1 < i BY <1>0, <2>1
    <2> QED BY <2>1, <2>3, <2>4
  <1> QED BY <1>1, <1>2 DEF OkFirst, r

\* The handler still waits for the answer, and nothing of it has been read.
Unanswered(s) ==
    /\ handler[s] = "waiting" /\ s \in streams /\ ServerCanSend
    /\ openCh[s] # <<"ok">> /\ ~ReaderAtStream({"ok"}, s)

\* The read loop holds a chunk of the stream.
Pushing(s) == ReaderAtStream({"pushing"}, s)

\* Chunks, wherever they are, come from a pump that has started, and a handler
\* that waits has its answer before them.
DataBehind(s) ==
    /\ dataCh[s] # <<>> \/ Pushing(s) =>
          /\ handler[s] = "waiting" => openCh[s] = <<"ok">>
          /\ localPump[s] # "none"
    /\ InFlight(toServer, "data", s) => localPump[s] # "none"
    /\ Unanswered(s) =>
          /\ OkFirst(toServer, s)
          /\ localPump[s] # "none" => InFlight(toServer, "ok", s)

\* Steps that bring no chunk and take no answer.
LEMMA DataBehindFrame ==
    ASSUME NEW t, DataBehind(t),
           dataCh[t]' # <<>> \/ Pushing(t)' => dataCh[t] # <<>> \/ Pushing(t),
           dataCh[t]' # <<>> \/ Pushing(t)' =>
               (handler'[t] = "waiting" =>
                    handler[t] = "waiting" /\ (openCh[t] = <<"ok">> => openCh'[t] = <<"ok">>)),
           localPump[t] # "none" => localPump'[t] # "none",
           InFlight(toServer, "data", t)' => InFlight(toServer, "data", t),
           Unanswered(t)' => /\ Unanswered(t) /\ OkFirst(toServer, t) => OkFirst(toServer', t)
                             /\ InFlight(toServer, "ok", t) => InFlight(toServer', "ok", t)
                             /\ localPump'[t] = localPump[t]
                             /\ Unanswered(t)
    PROVE  DataBehind(t)'
  BY DEF DataBehind

\* The handlers keep it.
LEMMA DataBehindHandler ==
    ASSUME Types, NEW s \in Streams, Route(s) \/ HandlerStep(s),
           NEW t \in Streams, OneOpen(t), TruthfulAnswer(t), DataBehind(t)
    PROVE  DataBehind(t)'
  <1>h. /\ handler \in [Streams -> HandlerPoints] /\ openCh \in [Streams -> Seq({"ok", "fail"})]
        /\ streams \subseteq Streams
    BY DEF Types, SocksTypes, StreamTypes
  <1>q. toServer \in Seq(Messages) BY DEF Types, WireTypes
  <1>1. UNCHANGED <<dataCh, toServer, reader, localPump, serverOpen, linkUp>>
    BY DEF Route, HandlerStep, RegisterStream, SendOpen, OpenResolved, OpenTimesOut, ReplyOpened,
         PumpEnded, CloseStream, NotifyAgent, wireVars, sessionVars, linkVars, agentVars, streamVars
  <1>2. /\ dataCh[t]' = dataCh[t]
        /\ Pushing(t)' <=> Pushing(t)
        /\ ReaderAtStream({"ok"}, t)' <=> ReaderAtStream({"ok"}, t)
        /\ ServerCanSend' <=> ServerCanSend
    BY <1>1 DEF Pushing, ReaderAtStream, ServerCanSend
  <1>3. CASE t = s /\ SendOpen(s)
    <2>1. handler[t] = "opening" BY <1>3 DEF SendOpen, HandlerAt
    <2>2. localPump[t] = "none" BY <2>1 DEF TruthfulAnswer, Served
    <2>3. ~InFlight(toServer, "data", t) /\ dataCh[t] = <<>> /\ ~Pushing(t) BY <2>2 DEF DataBehind
    <2> QED BY <1>1, <1>2, <1>q, <2>2, <2>3, OkFirstNoData DEF DataBehind
  <1>4. CASE ~(t = s /\ SendOpen(s))
    <2>1. handler'[t] = "waiting" =>
            handler[t] = "waiting" /\ openCh'[t] = openCh[t] /\ (t \in streams' => t \in streams)
      BY <1>h, <1>4 DEF Route, HandlerStep, RegisterStream, SendOpen, OpenResolved, OpenTimesOut,
           ReplyOpened, PumpEnded, CloseStream,
                    CloseWithReason, NotifyAgent, HandlerAt, streamVars
    <2>2. Unanswered(t)' => Unanswered(t) BY <1>2, <2>1 DEF Unanswered
    <2> QED BY <1>1, <1>2, <2>1, <2>2, DataBehindFrame
  <1> QED BY <1>3, <1>4

\* A message that is no chunk of the stream.
LEMMA DataBehindSent ==
    ASSUME Types, NEW m \in Messages, SendToServer(m), NEW t, ~IsData(m, t)
    PROVE  /\ InFlight(toServer, "data", t)' => InFlight(toServer, "data", t)
           /\ OkFirst(toServer, t) => OkFirst(toServer', t)
           /\ InFlight(toServer, "ok", t) => InFlight(toServer', "ok", t)
  <1>1. toServer \in Seq(Messages) BY DEF Types, WireTypes
  <1>2. OkFirst(toServer, t) => OkFirst(toServer', t)
    BY <1>1, OkFirstAppend DEF SendToServer
  <1> QED BY <1>2, SentToServer DEF IsData

\* The agent's pump runs behind its stream_ok.
LEMMA DataBehindPump ==
    ASSUME Types, NEW s \in Streams,
           \/ PumpUp(s) \/ UpPumpEnds(s) \/ DownPumpStep(s) \/ WriteChunk(s)
           \/ ClientShutsSending(s) \/ ClientGone(s)
           \/ PumpDown(s) \/ TargetShutsSending(s) \/ LocalPumpEnds(s),
           NEW t \in Streams, OneOpen(t), TruthfulAnswer(t), DataBehind(t)
    PROVE  DataBehind(t)'
  <1>q. toServer \in Seq(Messages) BY DEF Types, WireTypes
  <1>1. UNCHANGED <<handler, openCh, streams, reader, serverOpen, linkUp>>
    BY DEF PumpUp, UpPumpEnds, DownPumpStep, TakeChunk, WriteFails, DownPumpEnds, WriteChunk,
           ClientShutsSending, ClientGone, PumpDown, TargetShutsSending, LocalPumpEnds,
           socksVars, streamVars, sessionVars, linkVars
  <1>2. upRead[s] + 1 \in Nat /\ downRead[s] + 1 \in Nat BY DEF Types, SocksTypes, AgentTypes
  <1>3. /\ Unanswered(t)' <=> Unanswered(t)
        /\ Pushing(t)' <=> Pushing(t)
    BY <1>1 DEF Unanswered, Pushing, ReaderAtStream, ServerCanSend
  <1>4. dataCh[t]' # <<>> => dataCh[t] # <<>>
    BY DEF PumpUp, UpPumpEnds, DownPumpStep, TakeChunk, WriteFails, DownPumpEnds, WriteChunk,
           ClientShutsSending, ClientGone, PumpDown, TargetShutsSending, LocalPumpEnds, streamVars,
           Types, StreamTypes
  <1>5. localPump'[t] = "none" <=> localPump[t] = "none"
    BY DEF PumpUp, UpPumpEnds, DownPumpStep, TakeChunk, WriteFails, DownPumpEnds, WriteChunk,
           ClientShutsSending, ClientGone, PumpDown, TargetShutsSending, LocalPumpEnds, agentVars,
           Types, AgentTypes
  <1>6. CASE PumpDown(s) /\ AgentCanSend /\ t = s
    <2> DEFINE m == Msg("data", s, downRead[s] + 1)
    <2>1. m \in Messages /\ SendToServer(m) /\ localPump[t] # "none"
      BY <1>2, <1>6, MsgType DEF PumpDown
    <2>2. OkFirst(toServer, t) /\ InFlight(toServer, "ok", t) => OkFirst(toServer', t)
      BY <1>q, <2>1, OkFirstAppend DEF SendToServer
    <2>3. InFlight(toServer, "ok", t) => InFlight(toServer', "ok", t)
      BY <2>1, SentToServer
    <2> QED BY <1>1, <1>3, <1>4, <1>5, <2>1, <2>2, <2>3 DEF DataBehind
  <1>7. CASE ~(PumpDown(s) /\ AgentCanSend /\ t = s)
    <2>1. /\ InFlight(toServer, "data", t)' => InFlight(toServer, "data", t)
          /\ OkFirst(toServer, t) => OkFirst(toServer', t)
          /\ InFlight(toServer, "ok", t) => InFlight(toServer', "ok", t)
      <3>1. CASE PumpDown(s) /\ AgentCanSend
        BY <1>2, <1>7, <3>1, MsgType, DataBehindSent DEF PumpDown, Msg, IsData
      <3>2. CASE LocalPumpEnds(s) /\ AgentCanSend
        BY <3>2, MsgType, DataBehindSent DEF LocalPumpEnds, Msg, IsData
      <3>3. CASE UNCHANGED toServer BY <3>3
      <3> QED BY <3>1, <3>2, <3>3 DEF PumpUp, UpPumpEnds, DownPumpStep, TakeChunk, WriteFails,
             DownPumpEnds, WriteChunk, ClientShutsSending, ClientGone, PumpDown,
             TargetShutsSending, LocalPumpEnds, wireVars
    <2> QED BY <1>1, <1>3, <1>4, <1>5, <2>1 DEF DataBehind
  <1> QED BY <1>6, <1>7

\* The read loop takes the stream_ok before the chunks.
LEMMA DataBehindReader ==
    ASSUME Types, ReaderStep, NEW t \in Streams, OneOpen(t), TruthfulAnswer(t), DataBehind(t)
    PROVE  DataBehind(t)'
  <1>q. /\ toServer \in Seq(Messages) /\ dataCh \in [Streams -> Seq(Nat)]
        /\ openCh \in [Streams -> Seq({"ok", "fail"})]
    BY DEF Types, WireTypes, StreamTypes
  <1>1. UNCHANGED <<handler, localPump>>
    BY DEF ReaderStep, SendAck, Read, ResolveOpen, PushData, PushTimesOut, ReadFails, RemoveActive,
         SweepStream, HandleConnReturns,
           socksVars, agentVars
  <1>2. streams' \subseteq streams
    BY DEF ReaderStep, SendAck, Read, ReadAnswer, ReadData, ReadClose, CloseWithReason, ResolveOpen,
         PushData, PushTimesOut, ReadFails, RemoveActive, SweepStream, HandleConnReturns, streamVars
  <1>3. ServerCanSend' => ServerCanSend
    BY DEF ReaderStep, SendAck, Read, ResolveOpen, PushData, PushTimesOut, ReadFails, RemoveActive,
         SweepStream, HandleConnReturns, linkVars, ServerCanSend
  <1>4. CASE Read
    <2> DEFINE m == Head(toServer)
    <2>1. /\ toServer # <<>> /\ toServer' = Tail(toServer) /\ UNCHANGED <<openCh, dataCh>>
          /\ reader.at = "reading"
          /\ ServerCanSend
      BY <1>4 DEF Read, ReaderIs
    <2>2. /\ Pushing(t)' => m.type = "data" /\ m.stream = t /\ t \in streams
          /\ m.type = "ok" /\ m.stream = t /\ t \in streams => ReaderAtStream({"ok"}, t)'
          /\ ~ReaderAtStream({"ok"}, t) /\ ~Pushing(t)
      <3>1. CASE ReadAnswer(m) BY <2>1, <3>1 DEF ReadAnswer, ReaderAtStream, Pushing
      <3>2. CASE ReadData(m) BY <2>1, <3>2 DEF ReadData, ReaderAtStream, Pushing
      <3>3. CASE ReadClose(m) BY <2>1, <3>3 DEF ReadClose, ReaderAtStream, Pushing
      <3> QED BY <1>4, <2>1, <3>1, <3>2, <3>3 DEF Read
    <2>3. /\ \A type : InFlight(toServer, type, t)' => InFlight(toServer, type, t)
          /\ m.type = "data" /\ m.stream = t => InFlight(toServer, "data", t)
          /\ InFlight(toServer, "ok", t)
               => InFlight(toServer, "ok", t)' \/ (m.type = "ok" /\ m.stream = t)
      BY <1>q, <2>1, HeadTaken
    <2>4. OkFirst(toServer, t) => /\ ~(m.type = "data" /\ m.stream = t)
                                  /\ ~(m.type = "ok" /\ m.stream = t) => OkFirst(toServer', t)
      BY <1>q, <2>1, OkFirstTail DEF IsData
    <2> HIDE DEF m
    <2>5. Unanswered(t)' => Unanswered(t) /\ ~(m.type = "ok" /\ m.stream = t)
      BY <1>1, <1>2, <2>1, <2>2 DEF Unanswered
    <2>6. Pushing(t)' /\ handler[t] = "waiting" => openCh[t] = <<"ok">>
      BY <2>1, <2>2, <2>4 DEF Unanswered, DataBehind
    <2> QED BY <1>1, <2>1, <2>2, <2>3, <2>4, <2>5, <2>6 DEF DataBehind
  <1>5. CASE ResolveOpen
    <2>1. /\ UNCHANGED <<toServer, dataCh>> /\ reader' \in Resting
          /\ openCh' = [openCh EXCEPT ![reader.stream] = <<reader.at>>]
          /\ reader.at \in {"ok", "fail"}
      BY <1>5 DEF ResolveOpen, Resting, wireVars, ReaderIs
    <2>2. ~Pushing(t)' BY <2>1, RestingFacts DEF Pushing, ReaderAtStream
    <2>3. CASE reader.stream = t
      <3>1. reader.at = "fail" => localPump[t] = "none"
        BY <2>1, <2>3 DEF TruthfulAnswer, FailSaid, ReaderAtStream
      <3>2. reader.at = "ok" => openCh'[t] = <<"ok">> /\ ~Unanswered(t)'
        BY <1>q, <2>1, <2>3 DEF Unanswered
      <3>3. reader.at = "fail" => dataCh[t] = <<>> /\ ~InFlight(toServer, "data", t)
        BY <3>1 DEF DataBehind
      <3> QED BY <1>1, <1>q, <2>1, <2>2, <3>1, <3>2, <3>3, OkFirstNoData DEF DataBehind
    <2>4. CASE reader.stream # t
      <3>1. openCh'[t] = openCh[t] BY <1>q, <2>1, <2>4
      <3>2. Unanswered(t)' => Unanswered(t)
        BY <1>1, <1>2, <1>3, <2>4, <3>1 DEF Unanswered, ReaderAtStream
      <3> QED BY <1>1, <2>1, <2>2, <3>1, <3>2, DataBehindFrame
    <2> QED BY <2>3, <2>4
  <1>6. CASE ~Read /\ ~ResolveOpen
    <2>1. /\ UNCHANGED <<openCh, toServer>>
          /\ (reader' = reader \/ (reader' \in Resting /\ reader.at \notin {"ok", "fail"}))
      BY <1>6 DEF Resting, ReaderStep, SendAck, PushData, PushTimesOut, ReadFails, RemoveActive,
           SweepStream, HandleConnReturns, streamVars, wireVars, ReaderIs
    <2>2. (Pushing(t)' => Pushing(t)) /\ (ReaderAtStream({"ok"}, t) => ReaderAtStream({"ok"}, t)')
      BY <2>1, RestingFacts DEF Pushing, ReaderAtStream
    <2>3. dataCh'[t] # <<>> => dataCh[t] # <<>> \/ Pushing(t)
      BY <1>6, <1>q DEF ReaderStep, SendAck, PushData, PushTimesOut, ReadFails, RemoveActive,
           SweepStream, HandleConnReturns, streamVars, Pushing, ReaderAtStream, ReaderIs
    <2>4. Unanswered(t)' => Unanswered(t) BY <1>1, <1>2, <1>3, <2>1, <2>2 DEF Unanswered
    <2> QED BY <1>1, <2>1, <2>2, <2>3, <2>4, DataBehindFrame
  <1> QED BY <1>4, <1>5, <1>6

\* Whoever closes the session at most loses messages.
LEMMA DataBehindCloser ==
    ASSUME Types, CloserStep \/ CloseRequested \/ TouchRefused \/ LinkBreaks,
           NEW t \in Streams, DataBehind(t)
    PROVE  DataBehind(t)'
  <1>1. UNCHANGED <<handler, openCh, dataCh, localPump>>
    BY DEF CloserStep, CloseAllStreams, SweepStream, CloseReturns, CloseRequested, TouchRefused,
         LinkBreaks, socksVars, streamVars, agentVars
  <1>2. reader' = reader \/ (reader' \in Resting /\ reader.at \notin {"ok", "fail"})
    BY DEF CloserStep, CloseAllStreams, SweepStream, CloseReturns, CloseRequested, TouchRefused,
         LinkBreaks, Resting, sessionVars, ReaderIs
  <1>3. UNCHANGED toServer \/ (toServer' = <<>> /\ ~ServerCanSend')
    BY DEF CloserStep, CloseAllStreams, SweepStream, CloseReturns, CloseRequested, TouchRefused,
         LinkBreaks, wireVars, ServerCanSend
  <1>8. ServerCanSend' => ServerCanSend
    BY DEF CloserStep, CloseAllStreams, SweepStream, CloseReturns, CloseRequested, TouchRefused,
         LinkBreaks, linkVars, ServerCanSend
  <1>4. streams' \subseteq streams
    BY DEF CloserStep, CloseAllStreams, SweepStream, CloseWithReason, CloseReturns, CloseRequested,
         TouchRefused, LinkBreaks, streamVars
  <1>5. (Pushing(t)' => Pushing(t)) /\ (ReaderAtStream({"ok"}, t) => ReaderAtStream({"ok"}, t)')
    BY <1>2, RestingFacts DEF Pushing, ReaderAtStream
  <1>6. Unanswered(t)' => Unanswered(t) /\ UNCHANGED toServer
    BY <1>1, <1>3, <1>4, <1>5, <1>8 DEF Unanswered
  <1>7. InFlight(toServer, "data", t)' => InFlight(toServer, "data", t) BY <1>3, EmptyQueue
  <1> QED BY <1>1, <1>5, <1>6, <1>7, DataBehindFrame

\* The agent starts its pump when it has sent stream_ok.
LEMMA DataBehindAgent ==
    ASSUME Types, AgentMainStep \/ AgentReaderStep, NEW t \in Streams, OneOpen(t),
           TruthfulAnswer(t), DataBehind(t)
    PROVE  DataBehind(t)'
  <1>1. UNCHANGED <<handler, openCh, dataCh, streams, reader, serverOpen, linkUp>>
    BY DEF AgentMainStep, ReceiveAck, AgentMainReturns, AgentReaderStep, AgentReadFails,
         AgentReadsError,
         AgentReadsOpen, DialFails, DialSucceeds, AnswerOpen, AgentReadsData, AgentReadsClose,
         socksVars, streamVars, sessionVars, linkVars
  <1>2. /\ Unanswered(t)' <=> Unanswered(t)
        /\ Pushing(t)' <=> Pushing(t)
    BY <1>1 DEF Unanswered, Pushing, ReaderAtStream, ServerCanSend
  <1>3. CASE UNCHANGED <<toServer, localPump>>
    BY <1>1, <1>2, <1>3, DataBehindFrame
  <1>4. ASSUME NEW s \in Streams, DialFails(s), SendToServer(Msg("fail", s, 0)) PROVE DataBehind(t)'
    <2>1. UNCHANGED localPump BY <1>4 DEF DialFails
    <2> QED BY <1>1, <1>2, <1>4, <2>1, MsgType, DataBehindSent DEF Msg, IsData, DataBehind
  <1>5. ASSUME NEW s \in Streams, AnswerOpen(s), AgentCanSend PROVE DataBehind(t)'
    <2>1. SendToServer(Msg("ok", s, 0)) /\ localPump' = [localPump EXCEPT ![s] = "running"]
      BY <1>5 DEF AnswerOpen
    <2>2. /\ InFlight(toServer, "data", t)' => InFlight(toServer, "data", t)
          /\ OkFirst(toServer, t) => OkFirst(toServer', t)
          /\ InFlight(toServer, "ok", t) => InFlight(toServer', "ok", t)
      BY <2>1, MsgType, DataBehindSent DEF Msg, IsData
    <2>3. t = s => InFlight(toServer', "ok", t) \/ ~ServerCanSend
      BY <2>1, MsgType, SentToServer DEF Msg, ServerCanSend
    <2>4. t # s => localPump'[t] = localPump[t] BY <2>1 DEF Types, AgentTypes
    <2>5. t = s => localPump'[t] = "running" BY <2>1 DEF Types, AgentTypes
    <2> QED BY <1>1, <1>2, <2>2, <2>3, <2>4, <2>5 DEF DataBehind, Unanswered
  <1> QED BY <1>3, <1>4, <1>5
          DEF AgentMainStep, ReceiveAck, AgentMainReturns, AgentReaderStep, AgentReadFails,
               AgentReadsError,
                AgentReadsOpen, DialFails, DialSucceeds, AnswerOpen, AgentReadsData,
                AgentReadsClose, wireVars, agentVars

\* Every step keeps it.
LEMMA DataBehindStep ==
    /\ Types /\ (\A t \in Streams : OneOpen(t) /\ TruthfulAnswer(t) /\ DataBehind(t)) /\ [Next]_vars
    => (\A t \in Streams : DataBehind(t))'
  <1> SUFFICES ASSUME Types, \A t \in Streams : OneOpen(t) /\ TruthfulAnswer(t) /\ DataBehind(t),
                      [Next]_vars, NEW t \in Streams
               PROVE  DataBehind(t)'
    OBVIOUS
  <1>1. CASE Stopped \/ UNCHANGED vars
    <2>1. UNCHANGED vars BY <1>1 DEF Stopped
    <2>2. UNCHANGED <<handler, openCh, dataCh, streams, reader, toServer, localPump, serverOpen,
                      linkUp>>
      BY <2>1 DEF vars, socksVars, streamVars, sessionVars, linkVars, wireVars, agentVars
    <2> QED BY <2>2 DEF DataBehind, Unanswered, Pushing, ReaderAtStream, ServerCanSend
  <1> QED
    BY <1>1, DataBehindHandler, DataBehindPump, DataBehindReader, DataBehindCloser, DataBehindAgent
         DEF Next, Environment

-------------------------------------------------------------------------------
(* The agent is told of a close *)

\* While both sides can send, the agent keeps a stream whose handler is done only
\* until the stream_close reaches it.
CloseFollows(s) ==
    handler[s] = "done" /\ s \in agentStreams /\ ServerCanSend /\ AgentCanSend
    => InFlight(toAgent, "close", s)

\* Steps that end no handler and lose no stream_close.
LEMMA CloseFollowsFrame ==
    ASSUME NEW t, CloseFollows(t),
           handler'[t] = "done" => handler[t] = "done",
           t \in agentStreams' => t \in agentStreams,
           ServerCanSend' => ServerCanSend, AgentCanSend' => AgentCanSend,
           InFlight(toAgent, "close", t) => InFlight(toAgent, "close", t)'
               \/ ~AgentCanSend' \/ t \notin agentStreams'
    PROVE  CloseFollows(t)'
  BY DEF CloseFollows

\* Sending a message loses none.
LEMMA StillSent ==
    ASSUME Types, NEW m \in Messages, SendToAgent(m)
    PROVE \A type, t : InFlight(toAgent, type, t) => InFlight(toAgent, type, t)'
  BY SentToAgent

\* NotifyAgent sends the stream_close.
LEMMA CloseFollowsHandler ==
    ASSUME Types, NEW s \in Streams, Route(s) \/ HandlerStep(s), NEW t \in Streams, CloseFollows(t)
    PROVE  CloseFollows(t)'
  <1>h. handler \in [Streams -> HandlerPoints] BY DEF Types, SocksTypes
  <1>1. UNCHANGED <<agentStreams, serverOpen, linkUp, agentOpen>>
    BY DEF Route, HandlerStep, RegisterStream, SendOpen, OpenResolved, OpenTimesOut, ReplyOpened,
         PumpEnded, CloseStream, NotifyAgent, linkVars, agentVars
  <1>2. (ServerCanSend' <=> ServerCanSend) /\ (AgentCanSend' <=> AgentCanSend)
    BY <1>1 DEF ServerCanSend, AgentCanSend
  <1>3. InFlight(toAgent, "close", t) => InFlight(toAgent, "close", t)'
    <2>1. CASE SendOpen(s) /\ ServerCanSend BY <2>1, MsgType, StillSent DEF SendOpen
    <2>2. CASE NotifyAgent(s) /\ ServerCanSend BY <2>2, MsgType, StillSent DEF NotifyAgent
    <2>3. CASE UNCHANGED toAgent BY <2>3
    <2> QED BY <2>1, <2>2, <2>3 DEF Route, HandlerStep, RegisterStream, SendOpen, OpenResolved,
          OpenTimesOut, ReplyOpened, PumpEnded, CloseStream, NotifyAgent, wireVars
  <1>4. CASE NotifyAgent(s) /\ t = s
    <2>1. ServerCanSend /\ AgentCanSend => InFlight(toAgent, "close", t)'
      BY <1>4, MsgType, SentToAgent DEF NotifyAgent, Msg, AgentCanSend
    <2> QED BY <1>2, <2>1 DEF CloseFollows
  <1>5. CASE ~(NotifyAgent(s) /\ t = s)
    <2>1. handler'[t] = "done" => handler[t] = "done"
      BY <1>h, <1>5 DEF Route, HandlerStep, RegisterStream, SendOpen, OpenResolved, OpenTimesOut,
           ReplyOpened, PumpEnded, CloseStream, NotifyAgent
    <2> QED BY <1>1, <1>2, <1>3, <2>1, CloseFollowsFrame
  <1> QED BY <1>4, <1>5

\* The pumps at most take the stream from the agent's map.
LEMMA CloseFollowsPump ==
    ASSUME Types, NEW s \in Streams,
           \/ PumpUp(s) \/ UpPumpEnds(s) \/ DownPumpStep(s) \/ WriteChunk(s)
           \/ ClientShutsSending(s) \/ ClientGone(s)
           \/ PumpDown(s) \/ TargetShutsSending(s) \/ LocalPumpEnds(s),
           NEW t \in Streams, CloseFollows(t)
    PROVE  CloseFollows(t)'
  <1>1. UNCHANGED <<handler, serverOpen, linkUp, agentOpen>>
    BY DEF PumpUp, UpPumpEnds, DownPumpStep, TakeChunk, WriteFails, DownPumpEnds, WriteChunk,
           ClientShutsSending, ClientGone, PumpDown, TargetShutsSending, LocalPumpEnds,
           socksVars, linkVars
  <1>2. agentStreams' \subseteq agentStreams
    BY DEF PumpUp, UpPumpEnds, DownPumpStep, TakeChunk, WriteFails, DownPumpEnds, WriteChunk,
           ClientShutsSending, ClientGone, PumpDown, TargetShutsSending, LocalPumpEnds, agentVars
  <1>3. InFlight(toAgent, "close", t) => InFlight(toAgent, "close", t)'
    <2>1. CASE PumpUp(s) /\ ServerCanSend
      <3>1. upRead[s] + 1 \in Nat BY DEF Types, SocksTypes
      <3> QED BY <2>1, <3>1, MsgType, StillSent DEF PumpUp
    <2>2. CASE UNCHANGED toAgent BY <2>2
    <2> QED BY <2>1, <2>2 DEF PumpUp, UpPumpEnds, DownPumpStep, TakeChunk, WriteFails,
           DownPumpEnds, WriteChunk, ClientShutsSending, ClientGone, PumpDown,
           TargetShutsSending, LocalPumpEnds, wireVars
  <1> QED BY <1>1, <1>2, <1>3, CloseFollowsFrame DEF ServerCanSend, AgentCanSend

\* A session that ends ends the connection.
LEMMA CloseFollowsSession ==
    ASSUME Types, ReaderStep \/ CloserStep \/ CloseRequested \/ TouchRefused \/ LinkBreaks,
           NEW t \in Streams, CloseFollows(t)
    PROVE  CloseFollows(t)'
  <1>1. UNCHANGED <<handler, agentStreams>>
    BY DEF ReaderStep, SendAck, Read, ResolveOpen, PushData, PushTimesOut, ReadFails, RemoveActive,
         SweepStream, HandleConnReturns,
           CloserStep, CloseAllStreams, CloseReturns, CloseRequested, TouchRefused, LinkBreaks,
           socksVars, agentVars
  <1>2. ServerCanSend' => ServerCanSend
    BY DEF ReaderStep, SendAck, Read, ResolveOpen, PushData, PushTimesOut, ReadFails, RemoveActive,
         SweepStream, HandleConnReturns,
           CloserStep, CloseAllStreams, CloseReturns, CloseRequested, TouchRefused, LinkBreaks,
           linkVars, ServerCanSend
  <1>3. AgentCanSend' => AgentCanSend
    BY DEF ReaderStep, SendAck, Read, ResolveOpen, PushData, PushTimesOut, ReadFails, RemoveActive,
         SweepStream, HandleConnReturns,
           CloserStep, CloseAllStreams, CloseReturns, CloseRequested, TouchRefused, LinkBreaks,
           linkVars, AgentCanSend
  <1>4. (InFlight(toAgent, "close", t) => InFlight(toAgent, "close", t)') \/ ~AgentCanSend'
    <2>1. CASE SendAck /\ ServerCanSend BY <2>1, MsgType, StillSent DEF SendAck
    <2>4. CASE TouchRefused BY <2>4, MsgType, StillSent DEF TouchRefused
    <2>2. CASE UNCHANGED toAgent BY <2>2
    <2>3. CASE LinkBreaks BY <2>3 DEF LinkBreaks, AgentCanSend
    <2> QED BY <2>1, <2>2, <2>3, <2>4 DEF ReaderStep, SendAck, Read, ResolveOpen, PushData,
           PushTimesOut, ReadFails, RemoveActive, SweepStream, HandleConnReturns,
           CloserStep, CloseAllStreams, CloseReturns, CloseRequested, wireVars
  <1> QED BY <1>1, <1>2, <1>3, <1>4, CloseFollowsFrame

\* The agent that takes the stream_close forgets the stream.
LEMMA CloseFollowsAgent ==
    ASSUME Types, AgentMainStep \/ AgentReaderStep, NEW t \in Streams, OneOpen(t), CloseFollows(t)
    PROVE  CloseFollows(t)'
  <1>q. toAgent \in Seq(Messages) BY DEF Types, WireTypes
  <1>1. UNCHANGED <<handler, serverOpen>>
    BY DEF AgentMainStep, ReceiveAck, AgentMainReturns, AgentReaderStep, AgentReadFails,
         AgentReadsError,
         AgentReadsOpen, DialFails, DialSucceeds, AnswerOpen, AgentReadsData, AgentReadsClose,
         socksVars, linkVars
  <1>2. (ServerCanSend' <=> ServerCanSend) /\ (AgentCanSend' => AgentCanSend)
    BY DEF AgentMainStep, ReceiveAck, AgentMainReturns, AgentLeaves, AgentReaderStep,
         AgentReadFails, AgentReadsError, AgentReadsOpen, DialFails, DialSucceeds, AnswerOpen,
         AgentReadsData,
         AgentReadsClose, linkVars, ServerCanSend, AgentCanSend
  <1>3. CASE DialSucceeds(t)
    <2>1. AtWork(t) /\ UNCHANGED handler BY <1>3 DEF DialSucceeds, AtWork, AgentAt, socksVars
    <2> QED BY <2>1 DEF OneOpen, CloseFollows
  <1>4. CASE ~DialSucceeds(t)
    <2>1. t \in agentStreams' => t \in agentStreams
      BY <1>4 DEF AgentMainStep, ReceiveAck, AgentMainReturns, AgentLeaves, AgentReaderStep,
           AgentReadFails, AgentReadsError, AgentReadsOpen, DialFails, DialSucceeds, AnswerOpen,
           AgentReadsData,
           AgentReadsClose
    <2>2. \/ InFlight(toAgent, "close", t) => InFlight(toAgent, "close", t)'
          \/ ~AgentCanSend' \/ t \notin agentStreams'
      <3>1. CASE UNCHANGED toAgent BY <3>1
      <3>2. CASE toAgent # <<>> /\ toAgent' = Tail(toAgent)
        <4>1. InFlight(toAgent, "close", t)
                => \/ InFlight(toAgent, "close", t)'
                   \/ Head(toAgent).type = "close" /\ Head(toAgent).stream = t
          BY <1>q, <3>2, HeadTaken
        <4>2. CASE ReceiveAck BY <4>1, <4>2 DEF ReceiveAck, AgentLeaves, AgentCanSend
        <4>3. ASSUME NEW s \in Streams, AgentReadsOpen(s) \/ AgentReadsData(s)
              PROVE Head(toAgent).type # "close"
          BY <4>3 DEF AgentReadsOpen, AgentReadsData, AgentReads
        <4>4. ASSUME NEW s \in Streams, AgentReadsClose(s) PROVE t = s => t \notin agentStreams'
          BY <4>4 DEF AgentReadsClose
        <4>5. ASSUME NEW s \in Streams, AgentReadsClose(s) PROVE Head(toAgent).stream = s
          BY <4>5 DEF AgentReadsClose, AgentReads
        <4>7. AgentReadsError => Head(toAgent).type # "close"
          BY DEF AgentReadsError, AgentReads
        <4>6. \/ UNCHANGED toAgent \/ ReceiveAck \/ AgentReadsError
              \/ \E s \in Streams : AgentReadsOpen(s) \/ AgentReadsData(s) \/ AgentReadsClose(s)
          BY DEF AgentMainStep, AgentMainReturns, AgentReaderStep, AgentReadFails, DialFails,
               DialSucceeds, AnswerOpen, wireVars
        <4> QED BY <3>1, <4>1, <4>2, <4>3, <4>4, <4>5, <4>6, <4>7
      <3> QED BY <3>1, <3>2 DEF AgentMainStep, ReceiveAck, AgentMainReturns, AgentReaderStep,
            AgentReadFails, AgentReadsError, AgentReadsOpen, DialFails, DialSucceeds, AnswerOpen,
            AgentReadsData,
            AgentReadsClose, AgentReads, wireVars
    <2> QED BY <1>1, <1>2, <2>1, <2>2, CloseFollowsFrame
  <1> QED BY <1>3, <1>4

\* Every step keeps it.
LEMMA CloseFollowsStep ==
    /\ Types /\ (\A t \in Streams : OneOpen(t) /\ CloseFollows(t)) /\ [Next]_vars
    => (\A t \in Streams : CloseFollows(t))'
  <1> SUFFICES ASSUME Types, \A t \in Streams : OneOpen(t) /\ CloseFollows(t), [Next]_vars,
                      NEW t \in Streams
               PROVE  CloseFollows(t)'
    OBVIOUS
  <1>1. CASE Stopped \/ UNCHANGED vars
    <2>1. UNCHANGED vars BY <1>1 DEF Stopped
    <2>2. UNCHANGED <<handler, toAgent, agentStreams, serverOpen, agentOpen, linkUp>>
      BY <2>1 DEF vars, socksVars, linkVars, wireVars, agentVars
    <2> QED BY <2>2 DEF CloseFollows, ServerCanSend, AgentCanSend
  <1> QED
    BY <1>1, CloseFollowsHandler, CloseFollowsPump, CloseFollowsSession, CloseFollowsAgent DEF Next,
         Environment

-------------------------------------------------------------------------------
(* The invariant of a session, and what it gives *)

\* The invariant of a session.
SessionInv ==
    /\ Types /\ GreetsFirst /\ EntriesInUse
    /\ \A s \in Streams : OneOpen(s) /\ TruthfulAnswer(s) /\ DataBehind(s) /\ CloseFollows(s)

\* It holds at the start,
LEMMA SessionInit == Init => SessionInv
  <1> SUFFICES ASSUME Init PROVE SessionInv OBVIOUS
  <1>1. GreetsFirst /\ EntriesInUse BY DEF Init, GreetsFirst, EntriesInUse
  <1> SUFFICES ASSUME NEW s \in Streams
               PROVE OneOpen(s) /\ TruthfulAnswer(s) /\ DataBehind(s) /\ CloseFollows(s)
    BY <1>1, InitType DEF SessionInv
  <1>2. /\ handler[s] = "idle" /\ openCh[s] = <<>> /\ dataCh[s] = <<>> /\ target[s] = "none"
        /\ localPump[s] = "none"
        /\ toAgent = <<>> /\ toServer = <<>> /\ reader.at = "acking" /\ agentReader.at = "none"
        /\ agentStreams = {}
    BY DEF Init
  <1>3. OneOpen(s)
    BY <1>2, EmptyQueue, EmptySingle DEF OneOpen, OpenSent, AtWork, AgentAt, AnswerSent, AnswerRead,
         ReaderAtStream, Answered, Answers
  <1>4. TruthfulAnswer(s)
    BY <1>2, EmptyQueue DEF TruthfulAnswer, OpenSent, Dialing, Acking, AtWork, AgentAt, OkSaid,
         FailSaid, ReaderAtStream, Served
  <1>5. DataBehind(s)
    BY <1>2, EmptyQueue, OkFirstEmpty DEF DataBehind, Pushing, ReaderAtStream
  <1>6. CloseFollows(s) BY <1>2 DEF CloseFollows
  <1> QED BY <1>3, <1>4, <1>5, <1>6

\* every step keeps it,
LEMMA SessionStep == SessionInv /\ [Next]_vars => SessionInv'
  BY StepType, GreetsFirstStep, EntriesStep, OneOpenStep, TruthfulStep, DataBehindStep,
     CloseFollowsStep DEF SessionInv

\* so that it always holds.
LEMMA SessionInvariance == Spec => []SessionInv
  BY SessionInit, SessionStep, PTL DEF Spec

\* No entry of RelaySession.streams outlives the handler that made it, on any
\* path through OpenStream, CloseStream and CloseAllStreams (relay.go:289-313).
THEOREM EntriesAreInUse == Spec => []NoLeakedEntry
  <1>1. SessionInv => NoLeakedEntry
    BY DEF SessionInv, EntriesInUse, NoLeakedEntry, Finished
  <1> QED BY <1>1, SessionInvariance, PTL

\* The read loop never waits on OpenCh, whose send in ResolveOpen has no timeout:
\* an open gets one answer and the channel has room for it (relay.go:334-339).
THEOREM ReaderIsNeverStuck == Spec => []ResolveNeverBlocks
  <1>1. SessionInv => ResolveNeverBlocks
    <2> SUFFICES ASSUME SessionInv, reader.at \in {"ok", "fail"} PROVE openCh[reader.stream] = <<>>
      BY DEF ResolveNeverBlocks
    <2>1. reader.stream \in Streams BY DEF SessionInv, Types, SessionTypes, ReaderType
    <2>2. AnswerRead(reader.stream) BY DEF AnswerRead, ReaderAtStream, Answers
    <2> QED BY <2>1, <2>2 DEF SessionInv, OneOpen, Answered
  <1> QED BY <1>1, SessionInvariance, PTL

\* A chunk is queued for a stream only behind its stream_ok: OpenStream never
\* fails or times out on a stream whose data is already there
\* (app_v2.go:127-146).
THEOREM AnswerComesFirst == Spec => []DataAfterAnswer
  <1>1. SessionInv => DataAfterAnswer
    BY DEF SessionInv, DataBehind, DataAfterAnswer
  <1> QED BY <1>1, SessionInvariance, PTL

\* While the connection is sound, a target that the session no longer knows is
\* one whose open timed out or whose handler is still closing, or a stream_close
\* is on its way to it (relay.go:309-311).
THEOREM OrphansAreKnown == Spec => []OrphansAreTimeouts
  <1>1. SessionInv => OrphansAreTimeouts
    <2> SUFFICES ASSUME SessionInv, NEW s \in agentStreams \ streams, ServerCanSend, AgentCanSend
                 PROVE  \/ handler[s] \in {"waiting", "opened", "pumping", "closing",
                                            "notifying", "timedout"}
                        \/ InFlight(toAgent, "close", s)
      BY DEF OrphansAreTimeouts
    <2>1. s \in Streams BY DEF SessionInv, Types, AgentTypes
    <2>2. Acking(s) \/ localPump[s] # "none" BY <2>1 DEF SessionInv, TruthfulAnswer
    <2>3. Acking(s) => handler[s] \in {"waiting", "timedout"}
      BY <2>1 DEF SessionInv, OneOpen, Acking, AtWork, AgentAt
    <2>4. localPump[s] # "none" => handler[s] \in {"waiting", "timedout"} \cup Served
      BY <2>1 DEF SessionInv, TruthfulAnswer
    <2>5. handler[s] = "done" => InFlight(toAgent, "close", s)
      BY <2>1 DEF SessionInv, CloseFollows
    <2> QED BY <2>2, <2>3, <2>4, <2>5 DEF Served
  <1> QED BY <1>1, SessionInvariance, PTL

-------------------------------------------------------------------------------
(* Down: from the target to the client *)

\* Handlers whose pumps were started.
Piped == {"pumping", "closing", "notifying", "done"}

\* How many chunks the down pump has taken from DataCh,
Taken(s) == IF held[s] = 0 THEN Len(received[s]) ELSE Len(received[s]) + 1

\* how many the session has put there,
Queued(s) == Taken(s) + Len(dataCh[s])

\* and how many the read loop has read.
Arrived(s) == IF Pushing(s) THEN Queued(s) + 1 ELSE Queued(s)

\* The down direction: what the client has, the pump holds, the channel queues,
\* the reader pushes and the wire carries are the chunks that the target sent,
\* one after the other.  It is kept until the down pump ends.
DownInv(s) ==
    /\ downPump[s] # "none" => handler[s] \in Piped
    /\ held[s] # 0 <=> downPump[s] = "writing"
    /\ localPump[s] = "none" => downRead[s] = 0
    /\ downPump[s] # "ended" =>
          /\ held[s] # 0 => held[s] = Len(received[s]) + 1
          /\ \A i \in DOMAIN dataCh[s] : dataCh[s][i] = Taken(s) + i
          /\ Pushing(s) => reader.chunk = Queued(s) + 1
          /\ Arrived(s) <= downRead[s]
          /\ s \in streams /\ ServerCanSend => InLine(toServer, s, Arrived(s), downRead[s])
          /\ s \in streams /\ ServerCanSend /\ AgentCanSend
               => Complete(toServer, s, Arrived(s), downRead[s])

\* The two cases of Taken.
LEMMA TakenValue ==
    ASSUME Types, NEW t \in Streams
    PROVE  /\ held[t] = 0 => Taken(t) = Len(received[t])
           /\ held[t] # 0 => Taken(t) = Len(received[t]) + 1
  BY DEF Taken

\* The counts are numbers.
LEMMA DownNumbers ==
    ASSUME Types, NEW t \in Streams
    PROVE  /\ Len(received[t]) \in Nat /\ Len(dataCh[t]) \in Nat /\ held[t] \in Nat
           /\ downRead[t] \in Nat
           /\ Taken(t) \in Nat /\ Queued(t) \in Nat /\ Arrived(t) \in Nat
  <1>1. /\ Len(received[t]) \in Nat /\ Len(dataCh[t]) \in Nat /\ held[t] \in Nat
        /\ downRead[t] \in Nat
    BY DEF Types, SocksTypes, StreamTypes, AgentTypes
  <1>2. Taken(t) = Len(received[t]) \/ Taken(t) = Len(received[t]) + 1 BY <1>1 DEF Taken
  <1>3. Taken(t) \in Nat BY <1>1, <1>2
  <1>4. Queued(t) \in Nat BY <1>1, <1>3 DEF Queued
  <1>5. Arrived(t) = Queued(t) \/ Arrived(t) = Queued(t) + 1 BY <1>4 DEF Arrived
  <1>6. Arrived(t) \in Nat BY <1>4, <1>5
  <1> QED BY <1>1, <1>3, <1>4, <1>6

\* The server's side of the stream is left alone, the queue keeps its order.
LEMMA DownKept ==
    ASSUME Types, NEW t \in Streams, DownInv(t),
           received'[t] = received[t], held'[t] = held[t], dataCh'[t] = dataCh[t],
           downPump'[t] = downPump[t], downRead'[t] = downRead[t],
           localPump'[t] = "none" => localPump[t] = "none",
           handler[t] \in Piped => handler'[t] \in Piped,
           Pushing(t)' <=> Pushing(t),
           Pushing(t) => reader'.chunk = reader.chunk,
           t \in streams' => t \in streams,
           ServerCanSend' => ServerCanSend, AgentCanSend' => AgentCanSend,
           t \in streams' /\ ServerCanSend' => \A b, l \in Nat :
                  /\ InLine(toServer, t, b, l) => InLine(toServer', t, b, l)
                  /\ Complete(toServer, t, b, l) => Complete(toServer', t, b, l)
    PROVE  DownInv(t)'
  <1>1. Taken(t)' = Taken(t) BY DEF Taken
  <1>2. Queued(t)' = Queued(t) BY <1>1 DEF Queued
  <1>3. Arrived(t)' = Arrived(t) BY <1>2 DEF Arrived
  <1>4. Arrived(t) \in Nat /\ downRead[t] \in Nat BY DownNumbers
  <1> QED BY <1>1, <1>2, <1>3, <1>4 DEF DownInv

\* A message that is no chunk of the stream leaves its line alone.
LEMMA DownSent ==
    ASSUME Types, NEW m \in Messages, SendToServer(m), NEW t, ~IsData(m, t)
    PROVE  \A b, l \in Nat :
                  /\ InLine(toServer, t, b, l) => InLine(toServer', t, b, l)
                  /\ Complete(toServer, t, b, l) => Complete(toServer', t, b, l)
  <1>1. toServer \in Seq(Messages) BY DEF Types, WireTypes
  <1> QED BY <1>1, AppendOther DEF SendToServer

\* The handlers: a stream that is registered has no chunk anywhere.
LEMMA DownHandler ==
    ASSUME Types, NEW s \in Streams, Route(s) \/ HandlerStep(s),
           NEW t \in Streams, TruthfulAnswer(t), DataBehind(t), DownInv(t)
    PROVE  DownInv(t)'
  <1>h. handler \in [Streams -> HandlerPoints] /\ streams \subseteq Streams
        /\ downPump \in [Streams -> {"none", "running", "writing", "ended"}]
    BY DEF Types, SocksTypes, StreamTypes
  <1>1. UNCHANGED <<received, held, dataCh, toServer, reader, downRead, localPump, serverOpen,
                    linkUp, agentOpen>>
    BY DEF Route, HandlerStep, RegisterStream, SendOpen, OpenResolved, OpenTimesOut, ReplyOpened,
         PumpEnded, CloseStream, NotifyAgent, wireVars, sessionVars, linkVars, agentVars, streamVars
  <1>2. /\ Pushing(t)' <=> Pushing(t)
        /\ ServerCanSend' <=> ServerCanSend
        /\ AgentCanSend' <=> AgentCanSend
    BY <1>1 DEF Pushing, ReaderAtStream, ServerCanSend, AgentCanSend
  <1>3. handler[t] \in Piped => handler'[t] \in Piped
    BY <1>h DEF Route, HandlerStep, RegisterStream, SendOpen, OpenResolved, OpenTimesOut,
         ReplyOpened, PumpEnded, CloseStream, NotifyAgent, HandlerAt, Piped
  <1>4. CASE t = s /\ RegisterStream(s)
    <2>1. handler[t] = "routed" BY <1>4 DEF RegisterStream, HandlerAt
    <2>2. localPump[t] = "none" BY <2>1 DEF TruthfulAnswer, Served
    <2>3. ~InFlight(toServer, "data", t) /\ dataCh[t] = <<>> /\ ~Pushing(t) BY <2>2 DEF DataBehind
    <2>4. downPump[t] = "none" /\ downRead[t] = 0 BY <2>1, <2>2 DEF DownInv, Piped
    <2>5. held[t] = 0 /\ Arrived(t) = 0 BY <2>4, DownNumbers DEF DownInv
    <2>6. Arrived(t)' = Arrived(t) /\ Taken(t)' = Taken(t) BY <1>1, <1>2 DEF Arrived, Queued, Taken
    <2>7. InLine(toServer, t, 0, 0) /\ Complete(toServer, t, 0, 0)
      BY <2>3 DEF InLine, Complete, InFlight, IsData
    <2>8. UNCHANGED downPump BY <1>4 DEF RegisterStream
    <2> QED BY <1>1, <1>2, <2>3, <2>4, <2>5, <2>6, <2>7, <2>8 DEF DownInv
  <1>5. CASE t = s /\ ReplyOpened(s)
    <2>1. handler[t] = "opened" /\ handler'[t] \in Piped
      BY <1>h, <1>5 DEF ReplyOpened, HandlerAt, Piped
    <2>2. downPump[t] = "none" BY <2>1 DEF DownInv, Piped
    <2>3. downPump'[t] \in {"none", "running"} /\ UNCHANGED streams
      BY <1>h, <1>5, <2>2 DEF ReplyOpened, streamVars
    <2>4. Arrived(t)' = Arrived(t) /\ Taken(t)' = Taken(t) /\ Queued(t)' = Queued(t)
      BY <1>1, <1>2 DEF Arrived, Queued, Taken
    <2> QED BY <1>1, <1>2, <2>1, <2>2, <2>3, <2>4 DEF DownInv
  <1>6. CASE ~(t = s /\ RegisterStream(s)) /\ ~(t = s /\ ReplyOpened(s))
    <2>1. downPump'[t] = downPump[t] /\ (t \in streams' => t \in streams)
      BY <1>h, <1>6 DEF Route, HandlerStep, RegisterStream, SendOpen, OpenResolved, OpenTimesOut,
           ReplyOpened, PumpEnded, CloseStream, CloseWithReason, NotifyAgent, streamVars
    <2> QED BY <1>1, <1>2, <1>3, <2>1, DownKept
  <1> QED BY <1>4, <1>5, <1>6

\* The agent's pump sends the next chunk.
LEMMA DownPumpDown ==
    ASSUME Types, NEW s \in Streams, PumpDown(s), NEW t \in Streams, DownInv(t)
    PROVE  DownInv(t)'
  <1>q. /\ toServer \in Seq(Messages) /\ downRead \in [Streams -> Nat]
        /\ localPump \in [Streams -> {"none", "running", "ended"}]
    BY DEF Types, WireTypes, AgentTypes
  <1>n. downRead[s] + 1 \in Nat BY <1>q
  <1>1. UNCHANGED <<received, held, dataCh, downPump, handler, reader, streams, serverOpen, linkUp,
                    agentOpen>>
    BY DEF PumpDown, socksVars, streamVars, sessionVars, linkVars
  <1>2. /\ Pushing(t)' <=> Pushing(t)
        /\ ServerCanSend' <=> ServerCanSend
        /\ AgentCanSend' <=> AgentCanSend
    BY <1>1 DEF Pushing, ReaderAtStream, ServerCanSend, AgentCanSend
  <1>3. CASE t # s
    <2>1. downRead'[t] = downRead[t] /\ localPump'[t] = localPump[t] BY <1>q, <1>3 DEF PumpDown
    <2>2. \A b, l \in Nat : /\ InLine(toServer, t, b, l) => InLine(toServer', t, b, l)
                            /\ Complete(toServer, t, b, l) => Complete(toServer', t, b, l)
      <3>1. CASE AgentCanSend BY <1>n, <1>3, <3>1, MsgType, DownSent DEF PumpDown, Msg, IsData
      <3>2. CASE ~AgentCanSend BY <3>2 DEF PumpDown
      <3> QED BY <3>1, <3>2
    <2> QED BY <1>1, <1>2, <2>1, <2>2, DownKept
  <1>4. CASE t = s
    <2>1. downRead'[t] = downRead[t] + 1 /\ localPump[t] # "none" /\ localPump'[t] # "none"
      BY <1>q, <1>4 DEF PumpDown
    <2>2. Taken(t)' = Taken(t) /\ Queued(t)' = Queued(t) /\ Arrived(t)' = Arrived(t)
      BY <1>1, <1>2 DEF Arrived, Queued, Taken
    <2>3. ASSUME downPump[t] # "ended", t \in streams, ServerCanSend
          PROVE  /\ InLine(toServer', t, Arrived(t), downRead[t] + 1)
                 /\ AgentCanSend => Complete(toServer', t, Arrived(t), downRead[t] + 1)
      <3>1. /\ InLine(toServer, t, Arrived(t), downRead[t]) /\ Arrived(t) <= downRead[t]
            /\ AgentCanSend => Complete(toServer, t, Arrived(t), downRead[t])
        BY <2>3 DEF DownInv
      <3>2. CASE AgentCanSend
        <4> DEFINE m == Msg("data", s, downRead[s] + 1)
        <4>1. m \in Messages /\ IsData(m, t) /\ m.chunk = downRead[t] + 1
          BY <1>n, <1>4, MsgType DEF Msg, IsData
        <4>2. toServer' = Append(toServer, m)
          BY <2>3, <3>2 DEF PumpDown, SendToServer, ServerCanSend
        <4> HIDE DEF m
        <4> QED BY <1>q, <3>1, <3>2, <4>1, <4>2, AppendNext, DownNumbers
      <3>3. CASE ~AgentCanSend
        <4>1. toServer' = toServer BY <3>3 DEF PumpDown
        <4> QED BY <1>q, <3>1, <3>3, <4>1, LooseEnd, DownNumbers
      <3> QED BY <3>2, <3>3
    <2>4. Arrived(t) \in Nat /\ downRead[t] \in Nat BY DownNumbers
    <2> QED BY <1>1, <1>2, <2>1, <2>2, <2>3, <2>4 DEF DownInv
  <1> QED BY <1>3, <1>4

\* The down pump takes from the channel and writes to the client.
LEMMA DownClientSide ==
    ASSUME Types, NEW s \in Streams,
           TakeChunk(s) \/ WriteChunk(s) \/ WriteFails(s) \/ DownPumpEnds(s),
           NEW t \in Streams, DownInv(t)
    PROVE  DownInv(t)'
  <1>h. /\ downPump \in [Streams -> {"none", "running", "writing", "ended"}]
        /\ held \in [Streams -> Nat] /\ received \in [Streams -> Seq(Nat)]
        /\ dataCh \in [Streams -> Seq(Nat)]
    BY DEF Types, SocksTypes, StreamTypes
  <1>1. UNCHANGED <<handler, streams, toServer, reader, downRead, localPump, serverOpen, linkUp,
                    agentOpen>>
    BY DEF TakeChunk, WriteChunk, WriteFails, DownPumpEnds, wireVars, sessionVars, linkVars,
         agentVars, streamVars
  <1>2. /\ Pushing(t)' <=> Pushing(t)
        /\ ServerCanSend' <=> ServerCanSend
        /\ AgentCanSend' <=> AgentCanSend
    BY <1>1 DEF Pushing, ReaderAtStream, ServerCanSend, AgentCanSend
  <1>3. CASE t # s
    <2>1. /\ received'[t] = received[t] /\ held'[t] = held[t] /\ dataCh'[t] = dataCh[t]
          /\ downPump'[t] = downPump[t]
      BY <1>h, <1>3 DEF TakeChunk, WriteChunk, WriteFails, DownPumpEnds, streamVars
    <2> QED BY <1>1, <1>2, <2>1, DownKept
  <1>4. CASE t = s /\ TakeChunk(s)
    <2>1. /\ downPump[t] = "running" /\ downPump'[t] = "writing" /\ dataCh[t] # <<>>
          /\ held'[t] = Head(dataCh[t]) /\ dataCh'[t] = Tail(dataCh[t])
          /\ received'[t] = received[t]
      BY <1>h, <1>4 DEF TakeChunk, DownPumpAt
    <2>2. held[t] = 0 /\ Taken(t) = Len(received[t])
      <3>1. held[t] = 0 BY <2>1 DEF DownInv
      <3> QED BY <3>1, TakenValue
    <2>3. /\ Len(dataCh[t]) \in Nat /\ Len(dataCh[t]) > 0 /\ DOMAIN dataCh[t] = 1 .. Len(dataCh[t])
          /\ Head(dataCh[t]) = dataCh[t][1]
          /\ Len(Tail(dataCh[t])) = Len(dataCh[t]) - 1
          /\ DOMAIN Tail(dataCh[t]) = 1 .. Len(dataCh[t]) - 1
          /\ \A i \in 1 .. Len(dataCh[t]) - 1 : Tail(dataCh[t])[i] = dataCh[t][i + 1]
      BY <1>h, <2>1, HeadTailProperties, LenProperties, EmptySeq
    <2>8. \A i \in DOMAIN dataCh[t] : dataCh[t][i] = Len(received[t]) + i
      BY <2>1, <2>2 DEF DownInv
    <2>4. held'[t] = Len(received[t]) + 1
      BY <2>1, <2>3, <2>8
    <2>5. Taken(t)' = Taken(t) + 1
      <3>1. Len(received[t]) \in Nat BY DownNumbers
      <3>2. held'[t] # 0 BY <2>4, <3>1
      <3>3. Taken(t)' = Len(received[t]) + 1 BY <2>1, <3>1, <3>2 DEF Taken
      <3> QED BY <2>2, <3>3
    <2>6. Queued(t)' = Queued(t) /\ Arrived(t)' = Arrived(t)
      BY <1>2, <2>1, <2>3, <2>5, DownNumbers DEF Queued, Arrived
    <2>7. \A i \in DOMAIN dataCh'[t] : dataCh'[t][i] = Taken(t)' + i
      <3>1. Len(received[t]) \in Nat BY DownNumbers
      <3> SUFFICES ASSUME NEW i \in 1 .. Len(dataCh[t]) - 1
                   PROVE  dataCh[t][i + 1] = (Len(received[t]) + 1) + i
        BY <2>1, <2>2, <2>3, <2>5
      <3> QED BY <2>3, <2>8, <3>1
    <2> QED BY <1>1, <1>2, <2>1, <2>4, <2>6, <2>7, DownNumbers DEF DownInv
  <1>5. CASE t = s /\ WriteChunk(s)
    <2>1. /\ downPump[t] = "writing" /\ downPump'[t] = "running" /\ held'[t] = 0
          /\ dataCh'[t] = dataCh[t]
          /\ received'[t] = Append(received[t], held[t])
      BY <1>h, <1>5 DEF WriteChunk, DownPumpAt, streamVars
    <2>2. Len(received'[t]) = Len(received[t]) + 1 BY <1>h, <2>1, AppendProperties
    <2>3. held[t] # 0 BY <2>1 DEF DownInv
    <2>4. Taken(t)' = Taken(t) BY <2>1, <2>2, <2>3, DownNumbers DEF Taken
    <2>5. Queued(t)' = Queued(t) /\ Arrived(t)' = Arrived(t)
      BY <1>2, <2>1, <2>4 DEF Queued, Arrived
    <2> QED BY <1>1, <1>2, <2>1, <2>4, <2>5 DEF DownInv
  <1>6. CASE t = s /\ (WriteFails(s) \/ DownPumpEnds(s))
    <2>1. downPump'[t] = "ended" /\ (held'[t] = 0) /\ downPump[t] # "none"
      BY <1>h, <1>6 DEF WriteFails, DownPumpEnds, DownPumpAt, DownInv
    <2> QED BY <1>1, <2>1 DEF DownInv
  <1> QED BY <1>3, <1>4, <1>5, <1>6

\* Steps that touch nothing the down direction is made of.
LEMMA DownElsewhere ==
    ASSUME Types, NEW s \in Streams,
           \/ PumpUp(s) \/ UpPumpEnds(s) \/ ClientShutsSending(s) \/ ClientGone(s)
           \/ TargetShutsSending(s) \/ LocalPumpEnds(s),
           NEW t \in Streams, DownInv(t)
    PROVE  DownInv(t)'
  <1>1. UNCHANGED <<handler, received, held, downPump, dataCh, streams, reader, downRead,
                    serverOpen, linkUp, agentOpen>>
    BY DEF PumpUp, UpPumpEnds, ClientShutsSending, ClientGone, TargetShutsSending, LocalPumpEnds,
           socksVars, streamVars, sessionVars, linkVars, agentVars
  <1>2. /\ Pushing(t)' <=> Pushing(t)
        /\ ServerCanSend' <=> ServerCanSend
        /\ AgentCanSend' <=> AgentCanSend
    BY <1>1 DEF Pushing, ReaderAtStream, ServerCanSend, AgentCanSend
  <1>3. localPump'[t] = "none" => localPump[t] = "none"
    BY DEF PumpUp, UpPumpEnds, ClientShutsSending, ClientGone, TargetShutsSending, LocalPumpEnds,
         agentVars, Types, AgentTypes
  <1>4. \A b, l \in Nat : /\ InLine(toServer, t, b, l) => InLine(toServer', t, b, l)
                          /\ Complete(toServer, t, b, l) => Complete(toServer', t, b, l)
    <2>1. CASE LocalPumpEnds(s) /\ AgentCanSend
      BY <2>1, MsgType, DownSent DEF LocalPumpEnds, Msg, IsData
    <2>2. CASE UNCHANGED toServer BY <2>2
    <2> QED BY <2>1, <2>2 DEF PumpUp, UpPumpEnds, ClientShutsSending, ClientGone,
          TargetShutsSending, LocalPumpEnds, wireVars
  <1> QED BY <1>1, <1>2, <1>3, <1>4, DownKept

\* The read loop takes the head of the line and pushes it, or closes the stream.
LEMMA DownReader ==
    ASSUME Types, ReaderStep, NEW t \in Streams, DownInv(t)
    PROVE  DownInv(t)'
  <1>q. toServer \in Seq(Messages) /\ dataCh \in [Streams -> Seq(Nat)]
    BY DEF Types, WireTypes, StreamTypes
  <1>1. UNCHANGED <<handler, received, held, downPump, downRead, localPump>>
    BY DEF ReaderStep, SendAck, Read, ResolveOpen, PushData, PushTimesOut, ReadFails, RemoveActive,
         SweepStream, HandleConnReturns,
           socksVars, agentVars
  <1>2. streams' \subseteq streams
    BY DEF ReaderStep, SendAck, Read, ReadAnswer, ReadData, ReadClose, CloseWithReason, ResolveOpen,
         PushData, PushTimesOut, ReadFails, RemoveActive, SweepStream, HandleConnReturns, streamVars
  <1>3. ServerCanSend' => ServerCanSend
    BY DEF ReaderStep, SendAck, Read, ResolveOpen, PushData, PushTimesOut, ReadFails, RemoveActive,
         SweepStream, HandleConnReturns, linkVars, ServerCanSend
  <1>4. AgentCanSend' => AgentCanSend
    BY DEF ReaderStep, SendAck, Read, ResolveOpen, PushData, PushTimesOut, ReadFails, RemoveActive,
         SweepStream, HandleConnReturns, linkVars, AgentCanSend
  <1>5. CASE Read
    <2> DEFINE m == Head(toServer)
    <2>1. /\ toServer # <<>> /\ toServer' = Tail(toServer) /\ UNCHANGED dataCh
          /\ reader.at = "reading"
          /\ ServerCanSend
      BY <1>5 DEF Read, ReaderIs
    <2>2. ~Pushing(t) BY <2>1 DEF Pushing, ReaderAtStream
    <2>3. /\ Pushing(t)' => IsData(m, t) /\ t \in streams /\ reader'.chunk = m.chunk
          /\ IsData(m, t) /\ t \in streams => Pushing(t)'
      <3>1. CASE ReadAnswer(m) BY <2>1, <3>1 DEF ReadAnswer, ReaderAtStream, Pushing, IsData
      <3>2. CASE ReadData(m) BY <2>1, <3>2 DEF ReadData, ReaderAtStream, Pushing, IsData
      <3>3. CASE ReadClose(m) BY <2>1, <3>3 DEF ReadClose, ReaderAtStream, Pushing, IsData
      <3> QED BY <1>5, <3>1, <3>2, <3>3 DEF Read
    <2> HIDE DEF m
    <2>4. CASE Pushing(t)'
      <3>1. Taken(t)' = Taken(t) /\ Queued(t)' = Queued(t) BY <1>1, <2>1 DEF Taken, Queued
      <3>2. Arrived(t) = Queued(t) /\ Arrived(t)' = Queued(t) + 1 BY <2>2, <2>4, <3>1 DEF Arrived
      <3>3. IsData(m, t) /\ t \in streams /\ reader'.chunk = m.chunk BY <2>3, <2>4
      <3>4. CASE downPump[t] = "ended" BY <1>1, <3>4 DEF DownInv
      <3>5. CASE downPump[t] # "ended"
        <4>1. InLine(toServer, t, Arrived(t), downRead[t]) BY <2>1, <3>3, <3>5 DEF DownInv
        <4>2. /\ m.chunk = Arrived(t) + 1 /\ Arrived(t) + 1 <= downRead[t]
              /\ InLine(toServer', t, Arrived(t) + 1, downRead[t])
              /\ Complete(toServer, t, Arrived(t), downRead[t])
                   => Complete(toServer', t, Arrived(t) + 1, downRead[t])
          BY <1>q, <2>1, <3>3, <4>1, TailNext, DownNumbers DEF m
        <4>3. ServerCanSend /\ AgentCanSend => Complete(toServer, t, Arrived(t), downRead[t])
          BY <3>3, <3>5 DEF DownInv
        <4> QED BY <1>1, <1>3, <1>4, <2>1, <2>4, <3>1, <3>2, <3>3, <3>5, <4>2, <4>3 DEF DownInv
      <3> QED BY <3>4, <3>5
    <2>5. CASE ~Pushing(t)'
      <3>2. (Pushing(t)' <=> Pushing(t)) /\ (Pushing(t) => reader'.chunk = reader.chunk)
        BY <2>2, <2>5
      <3>3. t \in streams' => t \in streams BY <1>2
      <3>4. ASSUME t \in streams', ServerCanSend'
            PROVE  \A b, l \in Nat :
                      /\ InLine(toServer, t, b, l) => InLine(toServer', t, b, l)
                      /\ Complete(toServer, t, b, l) => Complete(toServer', t, b, l)
        <4>1. ~IsData(m, t) BY <1>2, <2>3, <2>5, <3>4
        <4> QED BY <1>q, <2>1, <4>1, TailOther DEF m
      <3>5. /\ received'[t] = received[t] /\ held'[t] = held[t] /\ dataCh'[t] = dataCh[t]
            /\ downPump'[t] = downPump[t] /\ downRead'[t] = downRead[t]
            /\ localPump'[t] = "none" => localPump[t] = "none"
            /\ handler[t] \in Piped => handler'[t] \in Piped
        BY <1>1, <2>1
      <3> QED BY <1>3, <1>4, <3>2, <3>3, <3>4, <3>5, DownKept
    <2> QED BY <2>4, <2>5
  <1>6. ASSUME Pushing(t), reader' = ReaderAt("reading"),
               UNCHANGED <<toServer, streams, serverOpen, linkUp, agentOpen>>,
               dataCh'[t] = Append(dataCh[t], reader.chunk)
        PROVE DownInv(t)'
    <2>1. ~Pushing(t)' BY <1>6 DEF Pushing, ReaderAtStream, ReaderAt
    <2>2. /\ Len(dataCh'[t]) = Len(dataCh[t]) + 1 /\ Len(dataCh[t]) \in Nat
          /\ DOMAIN dataCh'[t] = 1 .. Len(dataCh[t]) + 1 /\ DOMAIN dataCh[t] = 1 .. Len(dataCh[t])
          /\ \A i \in 1 .. Len(dataCh[t]) : dataCh'[t][i] = dataCh[t][i]
          /\ dataCh'[t][Len(dataCh[t]) + 1] = reader.chunk
      <3>1. reader.chunk \in Nat
        BY <1>6 DEF Pushing, ReaderAtStream, Types, SessionTypes, ReaderType
      <3> QED BY <1>q, <1>6, <3>1, AppendProperties, LenProperties
    <2>3. Taken(t)' = Taken(t) BY <1>1 DEF Taken
    <2>4. Queued(t)' = Queued(t) + 1 BY <2>2, <2>3, DownNumbers DEF Queued
    <2>5. Arrived(t) = Queued(t) + 1 /\ Arrived(t)' = Arrived(t) BY <1>6, <2>1, <2>4 DEF Arrived
    <2>6. CASE downPump[t] = "ended" BY <1>1, <2>6 DEF DownInv
    <2>7. CASE downPump[t] # "ended"
      <3>1. reader.chunk = Queued(t) + 1 /\ Queued(t) = Taken(t) + Len(dataCh[t])
        BY <1>6, <2>7 DEF DownInv, Queued
      <3>2. \A i \in DOMAIN dataCh'[t] : dataCh'[t][i] = Taken(t)' + i
        <4> SUFFICES ASSUME NEW i \in 1 .. Len(dataCh[t]) + 1 PROVE dataCh'[t][i] = Taken(t) + i
          BY <2>2, <2>3
        <4>1. CASE i \in 1 .. Len(dataCh[t]) BY <2>2, <2>7, <4>1 DEF DownInv
        <4>2. CASE i = Len(dataCh[t]) + 1 BY <2>2, <3>1, <4>2, DownNumbers
        <4> QED BY <2>2, <4>1, <4>2
      <3>3. (ServerCanSend' <=> ServerCanSend) /\ (AgentCanSend' <=> AgentCanSend)
        BY <1>6 DEF ServerCanSend, AgentCanSend
      <3> QED BY <1>1, <1>6, <2>1, <2>3, <2>5, <2>7, <3>2, <3>3 DEF DownInv
    <2> QED BY <2>6, <2>7
  <1>7. CASE PushData
    <2>1. UNCHANGED <<toServer, streams, linkUp, agentOpen>> BY <1>7 DEF PushData, wireVars
    <2>2. CASE UNCHANGED <<dataCh, reader>>
      BY <1>1, <1>3, <1>4, <2>1, <2>2, DownKept DEF Pushing, ReaderAtStream
    <2>3. CASE ~(UNCHANGED <<dataCh, reader>>)
      <3>1. /\ dataCh' = [dataCh EXCEPT ![reader.stream] = Append(@, reader.chunk)]
            /\ reader' = ReaderAt("reading")
            /\ UNCHANGED serverOpen /\ reader.at = "pushing"
        BY <1>7, <2>3 DEF PushData, ReaderIs
      <3>2. CASE reader.stream = t
        BY <1>6, <1>q, <2>1, <3>1, <3>2 DEF Pushing, ReaderAtStream
      <3>3. CASE reader.stream # t
        <4>1. dataCh'[t] = dataCh[t] BY <1>q, <3>1, <3>3
        <4>2. ~Pushing(t) /\ ~Pushing(t)' BY <3>1, <3>3 DEF Pushing, ReaderAtStream, ReaderAt
        <4> QED BY <1>1, <1>3, <1>4, <2>1, <4>1, <4>2, DownKept
      <3> QED BY <3>2, <3>3
    <2> QED BY <2>2, <2>3
  <1>8. CASE PushTimesOut /\ Pushing(t)
    <2>1. UNCHANGED <<toServer, dataCh>> /\ ~Pushing(t)'
      BY <1>8 DEF PushTimesOut, wireVars, Pushing, ReaderAtStream, ReaderAt
    <2>2. t \notin streams' BY <1>8 DEF PushTimesOut, CloseWithReason, Pushing, ReaderAtStream
    <2>3. Taken(t)' = Taken(t) /\ Queued(t)' = Queued(t) BY <1>1, <2>1 DEF Taken, Queued
    <2>4. Arrived(t) = Queued(t) + 1 /\ Arrived(t)' = Queued(t) BY <1>8, <2>1, <2>3 DEF Arrived
    <2>5. Arrived(t) <= downRead[t] => Queued(t) <= downRead[t] BY <2>4, DownNumbers
    <2> QED BY <1>1, <2>1, <2>2, <2>3, <2>4, <2>5 DEF DownInv
  <1>9. CASE ~Read /\ ~PushData /\ ~(PushTimesOut /\ Pushing(t))
    <2>1. UNCHANGED <<toServer, dataCh>>
      BY <1>9 DEF ReaderStep, SendAck, ResolveOpen, PushTimesOut, ReadFails, RemoveActive,
           SweepStream, HandleConnReturns, streamVars, wireVars
    <2>2. reader' = reader \/ (reader' \in Resting /\ ~Pushing(t))
      BY <1>9 DEF Resting, ReaderStep, SendAck, ResolveOpen, PushTimesOut, ReadFails, RemoveActive,
           SweepStream, HandleConnReturns, ReaderIs, Pushing, ReaderAtStream
    <2>3. (Pushing(t)' <=> Pushing(t)) /\ (Pushing(t) => reader'.chunk = reader.chunk)
      BY <2>2, RestingFacts DEF Pushing, ReaderAtStream
    <2> QED BY <1>1, <1>2, <1>3, <1>4, <2>1, <2>3, DownKept
  <1> QED BY <1>5, <1>7, <1>8, <1>9

\* Whoever closes the session at most loses the wire.
LEMMA DownCloser ==
    ASSUME Types, CloserStep \/ CloseRequested \/ TouchRefused \/ LinkBreaks,
           NEW t \in Streams, DownInv(t)
    PROVE  DownInv(t)'
  <1>1. UNCHANGED <<handler, received, held, downPump, dataCh, downRead, localPump>>
    BY DEF CloserStep, CloseAllStreams, SweepStream, CloseReturns, CloseRequested, TouchRefused,
         LinkBreaks, socksVars, streamVars, agentVars
  <1>2. reader' = reader \/ (reader' \in Resting /\ ~Pushing(t))
    BY DEF CloserStep, CloseAllStreams, SweepStream, CloseReturns, CloseRequested, TouchRefused,
         LinkBreaks, Resting, sessionVars, ReaderIs, Pushing, ReaderAtStream
  <1>3. UNCHANGED toServer \/ ~ServerCanSend'
    BY DEF CloserStep, CloseAllStreams, SweepStream, CloseReturns, CloseRequested, TouchRefused,
         LinkBreaks, wireVars, ServerCanSend
  <1>4. ServerCanSend' => ServerCanSend
    BY DEF CloserStep, CloseAllStreams, SweepStream, CloseReturns, CloseRequested, TouchRefused,
         LinkBreaks, linkVars, ServerCanSend
  <1>5. AgentCanSend' => AgentCanSend
    BY DEF CloserStep, CloseAllStreams, SweepStream, CloseReturns, CloseRequested, TouchRefused,
         LinkBreaks, linkVars, AgentCanSend
  <1>6. streams' \subseteq streams
    BY DEF CloserStep, CloseAllStreams, SweepStream, CloseWithReason, CloseReturns, CloseRequested,
         TouchRefused, LinkBreaks, streamVars
  <1>7. (Pushing(t)' <=> Pushing(t)) /\ (Pushing(t) => reader'.chunk = reader.chunk)
    BY <1>2, RestingFacts DEF Pushing, ReaderAtStream
  <1> QED BY <1>1, <1>3, <1>4, <1>5, <1>6, <1>7, DownKept

\* The agent's main loop and reader send no chunks.
LEMMA DownAgent ==
    ASSUME Types, AgentMainStep \/ AgentReaderStep, NEW t \in Streams, DownInv(t)
    PROVE  DownInv(t)'
  <1>1. UNCHANGED <<handler, received, held, downPump, dataCh, streams, reader, downRead,
                    serverOpen, linkUp>>
    BY DEF AgentMainStep, ReceiveAck, AgentMainReturns, AgentReaderStep, AgentReadFails,
         AgentReadsError,
         AgentReadsOpen, DialFails, DialSucceeds, AnswerOpen, AgentReadsData, AgentReadsClose,
         socksVars, streamVars, sessionVars, linkVars
  <1>2. /\ Pushing(t)' <=> Pushing(t)
        /\ ServerCanSend' <=> ServerCanSend
    BY <1>1 DEF Pushing, ReaderAtStream, ServerCanSend
  <1>3. AgentCanSend' => AgentCanSend
    BY DEF AgentMainStep, ReceiveAck, AgentMainReturns, AgentLeaves, AgentReaderStep,
         AgentReadFails, AgentReadsError, AgentReadsOpen, DialFails, DialSucceeds, AnswerOpen,
         AgentReadsData,
         AgentReadsClose, linkVars, AgentCanSend
  <1>4. localPump'[t] = "none" => localPump[t] = "none"
    BY DEF AgentMainStep, ReceiveAck, AgentMainReturns, AgentReaderStep, AgentReadFails,
         AgentReadsError,
         AgentReadsOpen, DialFails, DialSucceeds, AnswerOpen, AgentReadsData, AgentReadsClose,
         Types, AgentTypes
  <1>5. \A b, l \in Nat : /\ InLine(toServer, t, b, l) => InLine(toServer', t, b, l)
                          /\ Complete(toServer, t, b, l) => Complete(toServer', t, b, l)
    <2>1. ASSUME NEW s \in Streams, SendToServer(Msg("ok", s, 0)) \/ SendToServer(Msg("fail", s, 0))
          PROVE  \A b, l \in Nat : /\ InLine(toServer, t, b, l) => InLine(toServer', t, b, l)
                                   /\ Complete(toServer, t, b, l) => Complete(toServer', t, b, l)
      BY <2>1, MsgType, DownSent DEF Msg, IsData
    <2>2. \/ UNCHANGED toServer
          \/ \E s \in Streams : SendToServer(Msg("ok", s, 0)) \/ SendToServer(Msg("fail", s, 0))
      BY DEF AgentMainStep, ReceiveAck, AgentMainReturns, AgentReaderStep, AgentReadFails,
           AgentReadsError,
           AgentReadsOpen, DialFails, DialSucceeds, AnswerOpen, AgentReadsData, AgentReadsClose,
           wireVars
    <2>3. CASE UNCHANGED toServer BY <2>3
    <2> QED BY <2>1, <2>2, <2>3
  <1> QED BY <1>1, <1>2, <1>3, <1>4, <1>5, DownKept

\* Every step keeps it.
LEMMA DownStep ==
    /\ SessionInv /\ (\A t \in Streams : DownInv(t)) /\ [Next]_vars
    => (\A t \in Streams : DownInv(t))'
  <1> SUFFICES ASSUME SessionInv, \A t \in Streams : DownInv(t), [Next]_vars, NEW t \in Streams
               PROVE  DownInv(t)'
    OBVIOUS
  <1>t. Types /\ TruthfulAnswer(t) /\ DataBehind(t) /\ DownInv(t) BY DEF SessionInv
  <1>1. CASE Stopped \/ UNCHANGED vars
    <2>1. UNCHANGED vars BY <1>1 DEF Stopped
    <2>2. UNCHANGED <<handler, received, held, downPump, dataCh, streams, reader, toServer,
                      downRead, localPump, serverOpen, linkUp, agentOpen>>
      BY <2>1 DEF vars, socksVars, streamVars, sessionVars, linkVars, wireVars, agentVars
    <2> QED BY <1>t, <2>2, DownKept DEF Pushing, ReaderAtStream, ServerCanSend, AgentCanSend
  <1> QED
    BY <1>1, <1>t, DownHandler, DownPumpDown, DownClientSide, DownElsewhere, DownReader, DownCloser,
       DownAgent
          DEF Next, Environment, DownPumpStep

\* It holds at the start.
LEMMA DownInit == Init => \A t \in Streams : DownInv(t)
  <1> SUFFICES ASSUME Init, NEW t \in Streams PROVE DownInv(t) OBVIOUS
  <1>1. /\ received[t] = <<>> /\ held[t] = 0 /\ dataCh[t] = <<>> /\ downPump[t] = "none"
        /\ downRead[t] = 0
        /\ toServer = <<>> /\ reader.at = "acking" /\ streams = {}
    BY DEF Init
  <1>2. Taken(t) = 0 /\ Queued(t) = 0 /\ Arrived(t) = 0
    BY <1>1 DEF Taken, Queued, Arrived, Pushing, ReaderAtStream
  <1> QED BY <1>1, <1>2 DEF DownInv, Pushing, ReaderAtStream

\* Nothing that the promise of the down direction speaks of has changed.
LEMMA DownStutters ==
    ASSUME UNCHANGED <<received, downRead>>,
           \A t \in Streams : downPump'[t] = "ended" <=> downPump[t] = "ended"
    PROVE  UNCHANGED Down!vars
  BY DEF Down!vars

\* A chunk that is written is the next one, and the target had sent it.
LEMMA NextIsWritten ==
    ASSUME Types, NEW s \in Streams, DownInv(s), WriteChunk(s)
    PROVE  Down!Deliver(s)
  <1>t. /\ downPump \in [Streams -> {"none", "running", "writing", "ended"}]
        /\ received \in [Streams -> Seq(Nat)]
    BY DEF Types, SocksTypes
  <1>1. /\ downPump[s] = "writing"
        /\ downPump' = [downPump EXCEPT ![s] = "running"]
        /\ received' = [received EXCEPT ![s] = Append(@, held[s])]
        /\ UNCHANGED downRead
    BY DEF WriteChunk, DownPumpAt, agentVars
  <1>2. held[s] # 0 BY <1>1 DEF DownInv
  <1>3. held[s] = Len(received[s]) + 1 BY <1>1, <1>2 DEF DownInv
  <1>4. Len(received[s]) < downRead[s]
    <2>1. Taken(s) = Len(received[s]) + 1 BY <1>2, TakenValue
    <2>2. Taken(s) <= Queued(s) BY DownNumbers DEF Queued
    <2>3. Queued(s) <= Arrived(s) BY DownNumbers DEF Arrived
    <2>4. Arrived(s) <= downRead[s] BY <1>1 DEF DownInv
    <2> QED BY <2>1, <2>2, <2>3, <2>4, DownNumbers
  <1>5. received' = [received EXCEPT ![s] = Append(@, Len(@) + 1)] BY <1>1, <1>3
  <1>6. \A t \in Streams : downPump'[t] = "ended" <=> downPump[t] = "ended" BY <1>t, <1>1
  <1>7. {t \in Streams : downPump[t] = "ended"}' = {t \in Streams : downPump[t] = "ended"}
    BY <1>6
  <1> QED BY <1>1, <1>4, <1>5, <1>7 DEF Down!Deliver

\* Every step is one of the promise for the down direction, or a stutter.
LEMMA DownRefines ==
    SessionInv /\ (\A t \in Streams : DownInv(t)) /\ [Next]_vars => [Down!Next]_(Down!vars)
  <1> SUFFICES ASSUME SessionInv, \A t \in Streams : DownInv(t), [Next]_vars
               PROVE  [Down!Next]_(Down!vars)
    OBVIOUS
  <1>t. /\ Types
        /\ downPump \in [Streams -> {"none", "running", "writing", "ended"}]
        /\ downRead \in [Streams -> Nat]
    BY DEF SessionInv, Types, SocksTypes, AgentTypes
  <1>1. CASE UNCHANGED <<received, downRead, downPump>>
    BY <1>1, DownStutters
  <1>2. ASSUME NEW s \in Streams, ReplyOpened(s) PROVE UNCHANGED Down!vars
    <2>1. UNCHANGED <<received, downRead>> BY <1>2 DEF ReplyOpened, agentVars
    <2>2. downPump[s] = "none"
      <3>1. handler[s] \notin Piped BY <1>2 DEF ReplyOpened, HandlerAt, Piped
      <3> QED BY <3>1 DEF DownInv
    <2>3. downPump' = [downPump EXCEPT ![s] = "running"] \/ UNCHANGED downPump
      BY <1>2 DEF ReplyOpened
    <2>4. \A t \in Streams : downPump'[t] = "ended" <=> downPump[t] = "ended"
      BY <1>t, <2>2, <2>3
    <2> QED BY <2>1, <2>4, DownStutters
  <1>3. ASSUME NEW s \in Streams, Route(s) \/ HandlerStep(s), ~ReplyOpened(s)
        PROVE UNCHANGED <<received, downRead, downPump>>
    BY <1>3 DEF Route, HandlerStep, RegisterStream, SendOpen, OpenResolved, OpenTimesOut,
                PumpEnded, CloseStream, NotifyAgent, agentVars
  <1>4. ASSUME NEW s \in Streams, PumpDown(s) PROVE Down!Send(s)
    <2>1. /\ downRead' = [downRead EXCEPT ![s] = @ + 1]
          /\ UNCHANGED <<received, downPump>>
      BY <1>4 DEF PumpDown, socksVars
    <2> QED BY <2>1 DEF Down!Send
  <1>5. ASSUME NEW s \in Streams, TakeChunk(s) PROVE UNCHANGED Down!vars
    <2>1. /\ UNCHANGED <<received, downRead>>
          /\ downPump[s] = "running" /\ downPump' = [downPump EXCEPT ![s] = "writing"]
      BY <1>5 DEF TakeChunk, DownPumpAt, agentVars
    <2>2. \A t \in Streams : downPump'[t] = "ended" <=> downPump[t] = "ended"
      BY <1>t, <2>1
    <2> QED BY <2>1, <2>2, DownStutters
  <1>6. ASSUME NEW s \in Streams, WriteChunk(s) PROVE Down!Deliver(s)
    BY <1>t, <1>6, NextIsWritten
  <1>7. ASSUME NEW s \in Streams, WriteFails(s) \/ DownPumpEnds(s) PROVE Down!End
    <2>1. /\ UNCHANGED <<received, downRead>>
          /\ downPump' = [downPump EXCEPT ![s] = "ended"]
      BY <1>7 DEF WriteFails, DownPumpEnds, agentVars
    <2>2. \A t \in Streams : downPump[t] = "ended" => downPump'[t] = "ended"
      BY <1>t, <2>1
    <2> QED BY <2>1, <2>2 DEF Down!End
  <1>8. ASSUME NEW s \in Streams,
               \/ PumpUp(s) \/ UpPumpEnds(s) \/ ClientShutsSending(s) \/ ClientGone(s)
               \/ TargetShutsSending(s) \/ LocalPumpEnds(s)
        PROVE UNCHANGED <<received, downRead, downPump>>
    BY <1>8 DEF PumpUp, UpPumpEnds, ClientShutsSending, ClientGone, TargetShutsSending,
                LocalPumpEnds, socksVars, agentVars
  <1>9. CASE ReaderStep
    BY <1>1, <1>9 DEF ReaderStep, SendAck, Read, ResolveOpen, PushData, PushTimesOut,
             ReadFails, RemoveActive, SweepStream, HandleConnReturns, socksVars, agentVars
  <1>10. CASE CloserStep \/ CloseRequested \/ TouchRefused \/ LinkBreaks
    BY <1>1, <1>10 DEF CloserStep, CloseAllStreams, SweepStream, CloseReturns, CloseRequested,
             TouchRefused, LinkBreaks, socksVars, agentVars
  <1>11. CASE AgentMainStep \/ AgentReaderStep
    BY <1>1, <1>11 DEF AgentMainStep, ReceiveAck, AgentMainReturns, AgentReaderStep,
             AgentReadFails, AgentReadsError, AgentReadsOpen, DialFails, DialSucceeds, AnswerOpen,
             AgentReadsData, AgentReadsClose, socksVars
  <1>12. CASE Stopped \/ UNCHANGED vars
    <2>1. UNCHANGED vars BY <1>12 DEF Stopped
    <2> QED BY <1>1, <2>1 DEF vars, socksVars, agentVars
  <1> QED
    BY <1>1, <1>2, <1>3, <1>4, <1>5, <1>6, <1>7, <1>8, <1>9, <1>10, <1>11, <1>12
       DEF Next, Environment, DownPumpStep, Down!Next

\* Whatever the timeouts, the closes and the blocked pushes do, a client gets an
\* unbroken beginning of what its target sent, for any number of streams and
\* chunks (socks_entry.go:157-178, relay.go:341-353, app_v2.go:192-227).
THEOREM ClientGetsWhatTargetSent == Spec => DownPromise
  <1>1. Init => Down!Init BY DEF Init, Down!Init
  <1>2. Init => \A t \in Streams : DownInv(t) BY DownInit
  <1> QED BY <1>1, <1>2, DownStep, DownRefines, SessionInvariance, PTL DEF Spec, DownPromise,
        Down!Spec

-------------------------------------------------------------------------------
(* Up: from the client to the target *)

\* The up direction: what the target has and the wire carries are the chunks that
\* the client sent, one after the other, until the target is closed.
UpInv(s) ==
    /\ upPump[s] # "none" => handler[s] \in Piped
    /\ upPump[s] = "none" => upRead[s] = 0 /\ ~InFlight(toAgent, "data", s)
    /\ target[s] # "closed" =>
          /\ Len(written[s]) <= upRead[s]
          /\ AgentCanSend => InLine(toAgent, s, Len(written[s]), upRead[s])
          /\ AgentCanSend /\ ServerCanSend => Complete(toAgent, s, Len(written[s]), upRead[s])

\* A queue that neither loses nor gains a chunk of the stream.
SameLine(t) ==
    /\ InFlight(toAgent', "data", t) => InFlight(toAgent, "data", t)
    /\ \A b, l \in Nat :
          /\ InLine(toAgent, t, b, l) => InLine(toAgent', t, b, l)
          /\ Complete(toAgent, t, b, l) => Complete(toAgent', t, b, l)

\* The counts are numbers.
LEMMA UpNumbers ==
    ASSUME Types, NEW t \in Streams
    PROVE  upRead[t] \in Nat /\ Len(written[t]) \in Nat
  BY DEF Types, SocksTypes, AgentTypes

\* The two ends are left alone, and the wire keeps its order or is lost.
LEMMA UpKept ==
    ASSUME Types, NEW t \in Streams, UpInv(t),
           written'[t] = written[t], upRead'[t] = upRead[t],
           upPump'[t] # "none" => upPump[t] # "none" \/ handler'[t] \in Piped,
           upPump'[t] = "none" => upPump[t] = "none",
           handler[t] \in Piped => handler'[t] \in Piped,
           target'[t] # "closed" => target[t] # "closed",
           ServerCanSend' => ServerCanSend, AgentCanSend' => AgentCanSend,
           SameLine(t) \/ (~AgentCanSend' /\ ~InFlight(toAgent', "data", t))
    PROVE  UpInv(t)'
  <1>1. Len(written[t]) \in Nat /\ upRead[t] \in Nat BY UpNumbers
  <1>2. upPump'[t] = "none" => upRead'[t] = 0 /\ ~InFlight(toAgent', "data", t)
    BY DEF UpInv, SameLine
  <1>3. upPump'[t] # "none" => handler'[t] \in Piped BY DEF UpInv
  <1>4. CASE ~AgentCanSend' BY <1>2, <1>3, <1>4 DEF UpInv
  <1>5. CASE SameLine(t) BY <1>1, <1>2, <1>3, <1>5 DEF UpInv, SameLine
  <1> QED BY <1>4, <1>5

\* An untouched queue is such a one,
LEMMA SameQueue == ASSUME UNCHANGED toAgent, NEW t PROVE SameLine(t)
  BY DEF SameLine

\* and one that gets another message,
LEMMA OtherSent ==
    ASSUME Types, NEW m \in Messages, SendToAgent(m), NEW t, ~IsData(m, t)
    PROVE  SameLine(t)
  <1>1. toAgent \in Seq(Messages) BY DEF Types, WireTypes
  <1>2. InFlight(toAgent', "data", t) => InFlight(toAgent, "data", t)
    BY SentToAgent DEF IsData
  <1>3. \A b, l \in Nat :
          /\ InLine(toAgent, t, b, l) => InLine(toAgent', t, b, l)
          /\ Complete(toAgent, t, b, l) => Complete(toAgent', t, b, l)
    BY <1>1, AppendOther DEF SendToAgent
  <1> QED BY <1>2, <1>3 DEF SameLine

\* or loses one.
LEMMA OtherTaken ==
    ASSUME Types, toAgent # <<>>, toAgent' = Tail(toAgent), NEW t, ~IsData(Head(toAgent), t)
    PROVE  SameLine(t)
  <1>1. toAgent \in Seq(Messages) BY DEF Types, WireTypes
  <1>2. InFlight(toAgent', "data", t) => InFlight(toAgent, "data", t)
    BY <1>1, HeadTaken
  <1>3. \A b, l \in Nat :
          /\ InLine(toAgent, t, b, l) => InLine(toAgent', t, b, l)
          /\ Complete(toAgent, t, b, l) => Complete(toAgent', t, b, l)
    BY <1>1, TailOther
  <1> QED BY <1>2, <1>3 DEF SameLine

\* The handlers start the pump and tell the agent.
LEMMA UpHandler ==
    ASSUME Types, NEW s \in Streams, Route(s) \/ HandlerStep(s), NEW t \in Streams, UpInv(t)
    PROVE  UpInv(t)'
  <1>h. /\ handler \in [Streams -> HandlerPoints]
        /\ upPump \in [Streams -> {"none", "running", "ended"}]
    BY DEF Types, SocksTypes
  <1>1. UNCHANGED <<upRead, written, target, serverOpen, linkUp, agentOpen>>
    BY DEF Route, HandlerStep, RegisterStream, SendOpen, OpenResolved, OpenTimesOut, ReplyOpened,
           PumpEnded, CloseStream, NotifyAgent, linkVars, agentVars
  <1>2. (ServerCanSend' <=> ServerCanSend) /\ (AgentCanSend' <=> AgentCanSend)
    BY <1>1 DEF ServerCanSend, AgentCanSend
  <1>3. handler[t] \in Piped => handler'[t] \in Piped
    BY <1>h DEF Route, HandlerStep, RegisterStream, SendOpen, OpenResolved, OpenTimesOut,
           ReplyOpened, PumpEnded, CloseStream, NotifyAgent, HandlerAt, Piped
  <1>4. upPump'[t] = upPump[t] \/ (upPump'[t] = "running" /\ handler'[t] \in Piped)
    BY <1>h DEF Route, HandlerStep, RegisterStream, SendOpen, OpenResolved, OpenTimesOut,
           ReplyOpened, PumpEnded, CloseStream, NotifyAgent, Piped
  <1>5. SameLine(t)
    <2>1. CASE SendOpen(s) /\ ServerCanSend BY <2>1, MsgType, OtherSent DEF SendOpen, Msg, IsData
    <2>2. CASE NotifyAgent(s) /\ ServerCanSend
      BY <2>2, MsgType, OtherSent DEF NotifyAgent, Msg, IsData
    <2>3. CASE UNCHANGED toAgent BY <2>3, SameQueue
    <2> QED BY <2>1, <2>2, <2>3 DEF Route, HandlerStep, RegisterStream, SendOpen, OpenResolved,
           OpenTimesOut, ReplyOpened, PumpEnded, CloseStream, NotifyAgent, wireVars
  <1> QED BY <1>1, <1>2, <1>3, <1>4, <1>5, UpKept

\* The up pump sends the next chunk.
LEMMA UpPumpUp ==
    ASSUME Types, NEW s \in Streams, PumpUp(s), NEW t \in Streams, UpInv(t)
    PROVE  UpInv(t)'
  <1>q. /\ toAgent \in Seq(Messages) /\ upRead \in [Streams -> Nat]
        /\ upPump \in [Streams -> {"none", "running", "ended"}]
    BY DEF Types, WireTypes, SocksTypes
  <1>n. upRead[s] + 1 \in Nat BY <1>q
  <1>1. UNCHANGED <<written, target, handler, serverOpen, linkUp, agentOpen>>
    BY DEF PumpUp, linkVars, agentVars
  <1>2. (ServerCanSend' <=> ServerCanSend) /\ (AgentCanSend' <=> AgentCanSend)
    BY <1>1 DEF ServerCanSend, AgentCanSend
  <1>3. CASE t # s
    <2>1. upRead'[t] = upRead[t] /\ upPump'[t] = upPump[t] BY <1>q, <1>3 DEF PumpUp
    <2>2. SameLine(t)
      <3>1. CASE ServerCanSend BY <1>n, <1>3, <3>1, MsgType, OtherSent DEF PumpUp, Msg, IsData
      <3>2. CASE ~ServerCanSend BY <3>2, SameQueue DEF PumpUp
      <3> QED BY <3>1, <3>2
    <2> QED BY <1>1, <1>2, <2>1, <2>2, UpKept
  <1>4. CASE t = s
    <2>1. upRead'[t] = upRead[t] + 1 /\ upPump[t] = "running" /\ upPump'[t] # "none"
      BY <1>q, <1>4 DEF PumpUp, UpPumpRuns
    <2>2. handler'[t] \in Piped BY <1>1, <2>1 DEF UpInv
    <2>3. ASSUME target[t] # "closed"
          PROVE  /\ Len(written[t]) <= upRead[t] + 1
                 /\ AgentCanSend => InLine(toAgent', t, Len(written[t]), upRead[t] + 1)
                 /\ AgentCanSend /\ ServerCanSend =>
                       Complete(toAgent', t, Len(written[t]), upRead[t] + 1)
      <3>1. /\ Len(written[t]) <= upRead[t]
            /\ AgentCanSend => InLine(toAgent, t, Len(written[t]), upRead[t])
            /\ AgentCanSend /\ ServerCanSend => Complete(toAgent, t, Len(written[t]), upRead[t])
        BY <2>3 DEF UpInv
      <3>n. Len(written[t]) <= upRead[t] + 1 BY <3>1, UpNumbers
      <3>2. CASE AgentCanSend /\ ServerCanSend
        <4> DEFINE m == Msg("data", s, upRead[s] + 1)
        <4>1. m \in Messages /\ IsData(m, t) /\ m.chunk = upRead[t] + 1
          BY <1>n, <1>4, MsgType DEF Msg, IsData
        <4>2. toAgent' = Append(toAgent, m)
          BY <3>2 DEF PumpUp, SendToAgent, AgentCanSend
        <4> HIDE DEF m
        <4> QED BY <1>q, <3>n, <3>1, <3>2, <4>1, <4>2, AppendNext, UpNumbers
      <3>3. CASE AgentCanSend /\ ~ServerCanSend
        <4>1. toAgent' = toAgent BY <3>3 DEF PumpUp
        <4> QED BY <1>q, <3>n, <3>1, <3>3, <4>1, LooseEnd, UpNumbers
      <3>4. CASE ~AgentCanSend BY <3>n, <3>4
      <3> QED BY <3>2, <3>3, <3>4
    <2> QED BY <1>1, <1>2, <2>1, <2>2, <2>3 DEF UpInv
  <1> QED BY <1>3, <1>4

\* The other pumps, the client and the target.
LEMMA UpElsewhere ==
    ASSUME Types, NEW s \in Streams,
           \/ UpPumpEnds(s) \/ DownPumpStep(s) \/ WriteChunk(s)
           \/ ClientShutsSending(s) \/ ClientGone(s)
           \/ PumpDown(s) \/ TargetShutsSending(s) \/ LocalPumpEnds(s),
           NEW t \in Streams, UpInv(t)
    PROVE  UpInv(t)'
  <1>h. /\ upPump \in [Streams -> {"none", "running", "ended"}]
        /\ target \in [Streams -> {"none", "open", "eof", "closed"}]
    BY DEF Types, SocksTypes, AgentTypes
  <1>1. UNCHANGED <<handler, upRead, written, toAgent, serverOpen, linkUp, agentOpen>>
    BY DEF UpPumpEnds, DownPumpStep, TakeChunk, WriteFails, DownPumpEnds, WriteChunk,
           ClientShutsSending, ClientGone, PumpDown, TargetShutsSending, LocalPumpEnds,
           socksVars, linkVars, wireVars, agentVars
  <1>2. (ServerCanSend' <=> ServerCanSend) /\ (AgentCanSend' <=> AgentCanSend)
    BY <1>1 DEF ServerCanSend, AgentCanSend
  <1>3. upPump'[t] = upPump[t] \/ (upPump[t] = "running" /\ upPump'[t] = "ended")
    BY <1>h DEF UpPumpEnds, UpPumpRuns, DownPumpStep, TakeChunk, WriteFails, DownPumpEnds,
           WriteChunk, ClientShutsSending, ClientGone, PumpDown, TargetShutsSending,
           LocalPumpEnds, socksVars
  <1>4. target'[t] # "closed" => target[t] # "closed"
    BY <1>h DEF UpPumpEnds, DownPumpStep, TakeChunk, WriteFails, DownPumpEnds, WriteChunk,
           ClientShutsSending, ClientGone, PumpDown, TargetShutsSending, LocalPumpEnds, agentVars
  <1>5. SameLine(t) BY <1>1, SameQueue
  <1> QED BY <1>1, <1>2, <1>3, <1>4, <1>5, UpKept

\* A session that ends loses the wire.
LEMMA UpSession ==
    ASSUME Types, ReaderStep \/ CloserStep \/ CloseRequested \/ TouchRefused \/ LinkBreaks,
           NEW t \in Streams, UpInv(t)
    PROVE  UpInv(t)'
  <1>1. UNCHANGED <<handler, upPump, upRead, written, target>>
    BY DEF ReaderStep, SendAck, Read, ResolveOpen, PushData, PushTimesOut, ReadFails, RemoveActive,
           SweepStream, HandleConnReturns, CloserStep, CloseAllStreams, CloseReturns,
           CloseRequested, TouchRefused, LinkBreaks, socksVars, agentVars
  <1>2. ServerCanSend' => ServerCanSend
    BY DEF ReaderStep, SendAck, Read, ResolveOpen, PushData, PushTimesOut, ReadFails, RemoveActive,
           SweepStream, HandleConnReturns, CloserStep, CloseAllStreams, CloseReturns,
           CloseRequested, TouchRefused, LinkBreaks, linkVars, ServerCanSend
  <1>3. AgentCanSend' => AgentCanSend
    BY DEF ReaderStep, SendAck, Read, ResolveOpen, PushData, PushTimesOut, ReadFails, RemoveActive,
           SweepStream, HandleConnReturns, CloserStep, CloseAllStreams, CloseReturns,
           CloseRequested, TouchRefused, LinkBreaks, linkVars, AgentCanSend
  <1>4. SameLine(t) \/ (~AgentCanSend' /\ ~InFlight(toAgent', "data", t))
    <2>1. CASE SendAck /\ ServerCanSend BY <2>1, MsgType, OtherSent DEF SendAck, Msg, IsData
    <2>4. CASE TouchRefused BY <2>4, MsgType, OtherSent DEF TouchRefused, Msg, IsData
    <2>2. CASE UNCHANGED toAgent BY <2>2, SameQueue
    <2>3. CASE LinkBreaks
      <3>1. toAgent' = <<>> BY <2>3 DEF LinkBreaks
      <3>2. ~AgentCanSend' BY <2>3 DEF LinkBreaks, AgentCanSend
      <3> QED BY <3>1, <3>2, EmptyQueue
    <2> QED BY <2>1, <2>2, <2>3, <2>4 DEF ReaderStep, SendAck, Read, ResolveOpen, PushData,
           PushTimesOut, ReadFails, RemoveActive, SweepStream, HandleConnReturns, CloserStep,
           CloseAllStreams, CloseReturns, CloseRequested, wireVars
  <1> QED BY <1>1, <1>2, <1>3, <1>4, UpKept

\* The agent knows the stream of a chunk that reaches it, unless it has closed the target.
LEMMA ChunkIsKnown ==
    ASSUME NEW s \in Streams, TruthfulAnswer(s), UpInv(s),
           InFlight(toAgent, "data", s), target[s] # "closed", Types
    PROVE  s \in agentStreams
  <1>1. handler[s] \in Served BY DEF UpInv, Piped, Served
  <1>2. localPump[s] # "none" BY <1>1 DEF TruthfulAnswer, OkSaid
  <1>3. target[s] \in {"open", "eof"} BY <1>2 DEF TruthfulAnswer, Types, AgentTypes
  <1> QED BY <1>3 DEF TruthfulAnswer

\* The agent writes the head of the line to the target.
LEMMA UpAgentReadsData ==
    ASSUME Types, NEW s \in Streams, AgentReadsData(s), NEW t \in Streams,
           TruthfulAnswer(t), UpInv(t)
    PROVE  UpInv(t)'
  <1>q. /\ toAgent \in Seq(Messages) /\ written \in [Streams -> Seq(Nat)]
        /\ target \in [Streams -> {"none", "open", "eof", "closed"}]
    BY DEF Types, WireTypes, AgentTypes
  <1>1. UNCHANGED <<handler, upPump, upRead, agentStreams, serverOpen, linkUp, agentOpen>>
    BY DEF AgentReadsData, socksVars, linkVars
  <1>2. (ServerCanSend' <=> ServerCanSend) /\ (AgentCanSend' <=> AgentCanSend)
    BY <1>1 DEF ServerCanSend, AgentCanSend
  <1>3. /\ toAgent # <<>> /\ toAgent' = Tail(toAgent) /\ IsData(Head(toAgent), s)
        /\ AgentCanSend
    BY DEF AgentReadsData, AgentReads, IsData
  <1>4. target'[t] # "closed" => target[t] # "closed" BY <1>q DEF AgentReadsData
  <1>5. CASE t # s
    <2>1. written'[t] = written[t] BY <1>q, <1>5 DEF AgentReadsData
    <2>2. ~IsData(Head(toAgent), t) BY <1>3, <1>5 DEF IsData
    <2>3. SameLine(t) BY <1>3, <2>2, OtherTaken
    <2> QED BY <1>1, <1>2, <1>4, <2>1, <2>3, UpKept
  <1>6. CASE t = s
    <2>1. InFlight(toAgent, "data", t) BY <1>q, <1>3, <1>6, HeadTaken DEF IsData
    <2>2. upPump[t] # "none" BY <2>1 DEF UpInv
    <2>3. handler'[t] \in Piped /\ upPump'[t] # "none" BY <1>1, <2>2 DEF UpInv
    <2>4. CASE target'[t] = "closed" BY <2>3, <2>4 DEF UpInv
    <2>5. CASE target'[t] # "closed"
      <3>1. target[t] # "closed" /\ t \in agentStreams BY <1>4, <2>1, <2>5, ChunkIsKnown
      <3>2. written'[t] = Append(written[t], Head(toAgent).chunk)
        BY <1>q, <1>6, <2>5, <3>1 DEF AgentReadsData
      <3>3. /\ InLine(toAgent, t, Len(written[t]), upRead[t])
            /\ ServerCanSend => Complete(toAgent, t, Len(written[t]), upRead[t])
        BY <1>3, <3>1 DEF UpInv
      <3>4. IsData(Head(toAgent), t) BY <1>3, <1>6
      <3>5. /\ Len(written[t]) + 1 <= upRead[t]
            /\ InLine(toAgent', t, Len(written[t]) + 1, upRead[t])
            /\ Complete(toAgent, t, Len(written[t]), upRead[t])
                 => Complete(toAgent', t, Len(written[t]) + 1, upRead[t])
        BY <1>q, <1>3, <3>3, <3>4, TailNext, UpNumbers
      <3>6. Len(written'[t]) = Len(written[t]) + 1
        <4>1. Head(toAgent).chunk \in Nat BY <1>q, <1>3, TakeType
        <4> QED BY <1>q, <3>2, <4>1, AppendProperties
      <3> QED BY <1>1, <1>2, <2>3, <3>3, <3>5, <3>6 DEF UpInv
    <2> QED BY <2>4, <2>5
  <1> QED BY <1>5, <1>6

\* The agent's other steps shut targets.
LEMMA UpAgent ==
    ASSUME Types, AgentMainStep \/ AgentReaderStep, NEW t \in Streams, TruthfulAnswer(t), UpInv(t)
    PROVE  UpInv(t)'
  <1>q. /\ target \in [Streams -> {"none", "open", "eof", "closed"}]
        /\ toAgent \in Seq(Messages)
    BY DEF Types, AgentTypes, WireTypes
  <1>1. ASSUME NEW s \in Streams, AgentReadsData(s) PROVE UpInv(t)'
    BY <1>1, UpAgentReadsData
  <1>2. CASE \A s \in Streams : ~AgentReadsData(s)
    <2>1. UNCHANGED <<handler, upPump, upRead, written>>
      BY <1>2 DEF AgentMainStep, ReceiveAck, AgentMainReturns, AgentReaderStep, AgentReadFails,
           AgentReadsError,
             AgentReadsOpen, DialFails, DialSucceeds, AnswerOpen, AgentReadsClose, socksVars
    <2>2. /\ ServerCanSend' <=> ServerCanSend
          /\ AgentCanSend' => AgentCanSend
      BY <1>2 DEF AgentMainStep, ReceiveAck, AgentMainReturns, AgentLeaves, AgentReaderStep,
             AgentReadFails, AgentReadsError, AgentReadsOpen, DialFails, DialSucceeds, AnswerOpen,
             AgentReadsClose,
             linkVars, ServerCanSend, AgentCanSend
    <2>3. target'[t] # "closed" => target[t] # "closed"
      <3>1. CASE DialSucceeds(t)
        <4>1. Dialing(t) BY <3>1 DEF DialSucceeds, Dialing, AgentAt
        <4> QED BY <4>1 DEF TruthfulAnswer
      <3>2. CASE ~DialSucceeds(t)
        BY <1>q, <1>2, <3>2 DEF AgentMainStep, ReceiveAck, AgentMainReturns, AgentLeaves,
             AgentReaderStep, AgentReadFails, AgentReadsError, AgentReadsOpen, DialFails,
             DialSucceeds, AnswerOpen,
             AgentReadsClose
      <3> QED BY <3>1, <3>2
    <2>4. SameLine(t) \/ (~AgentCanSend' /\ ~InFlight(toAgent', "data", t))
          \/ (~AgentCanSend' /\ toAgent # <<>> /\ toAgent' = Tail(toAgent))
      <3>1. CASE UNCHANGED toAgent BY <3>1, SameQueue
      <3>2. ASSUME NEW s \in Streams, AgentReadsOpen(s) \/ AgentReadsClose(s) PROVE SameLine(t)
        <4>1. toAgent # <<>> /\ toAgent' = Tail(toAgent) /\ ~IsData(Head(toAgent), t)
          BY <3>2 DEF AgentReadsOpen, AgentReadsClose, AgentReads, IsData
        <4> QED BY <4>1, OtherTaken
      <3>3. CASE ReceiveAck
        <4>1. toAgent # <<>> /\ toAgent' = Tail(toAgent) BY <3>3 DEF ReceiveAck
        <4>2. CASE Head(toAgent).type = "registered"
          BY <4>1, <4>2, OtherTaken DEF IsData
        <4>3. CASE Head(toAgent).type # "registered"
          <5>1. ~AgentCanSend' BY <3>3, <4>3 DEF ReceiveAck, AgentLeaves, AgentCanSend
          <5> QED BY <4>1, <5>1
        <4> QED BY <4>2, <4>3
      <3>4. CASE AgentReadsError
        BY <3>4, OtherTaken DEF AgentReadsError, AgentReads, IsData
      <3> QED BY <1>2, <3>1, <3>2, <3>3, <3>4 DEF AgentMainStep, AgentMainReturns,
             AgentReaderStep, AgentReadFails, DialFails, DialSucceeds, AnswerOpen, wireVars
    <2>5. CASE ~AgentCanSend' /\ toAgent # <<>> /\ toAgent' = Tail(toAgent)
      <3>1. InFlight(toAgent', "data", t) => InFlight(toAgent, "data", t) BY <1>q, <2>5, HeadTaken
      <3> QED BY <2>1, <2>3, <2>5, <3>1 DEF UpInv
    <2> QED BY <2>1, <2>2, <2>3, <2>4, <2>5, UpKept
  <1> QED BY <1>1, <1>2

\* Every step keeps it.
LEMMA UpStep ==
    /\ SessionInv /\ (\A t \in Streams : UpInv(t)) /\ [Next]_vars
    => (\A t \in Streams : UpInv(t))'
  <1> SUFFICES ASSUME SessionInv, \A t \in Streams : UpInv(t), [Next]_vars, NEW t \in Streams
               PROVE  UpInv(t)'
    OBVIOUS
  <1>t. Types /\ TruthfulAnswer(t) /\ UpInv(t) BY DEF SessionInv
  <1>1. CASE Stopped \/ UNCHANGED vars
    <2>1. UNCHANGED vars BY <1>1 DEF Stopped
    <2>2. UNCHANGED <<handler, upPump, upRead, written, target, toAgent, serverOpen, linkUp,
                      agentOpen>>
      BY <2>1 DEF vars, socksVars, linkVars, wireVars, agentVars
    <2> QED BY <1>t, <2>2, SameQueue, UpKept DEF ServerCanSend, AgentCanSend
  <1> QED BY <1>1, <1>t, UpHandler, UpPumpUp, UpElsewhere, UpSession, UpAgent DEF Next, Environment

\* It holds at the start.
LEMMA UpInit == Init => \A t \in Streams : UpInv(t)
  <1> SUFFICES ASSUME Init, NEW t \in Streams PROVE UpInv(t) OBVIOUS
  <1>1. /\ upPump[t] = "none" /\ upRead[t] = 0 /\ toAgent = <<>> /\ written[t] = <<>>
    BY DEF Init
  <1>2. InLine(toAgent, t, 0, 0) /\ Complete(toAgent, t, 0, 0) BY <1>1, EmptyLine
  <1> QED BY <1>1, <1>2, EmptyQueue DEF UpInv

\* What is neither a read nor a write may only shut targets.
LEMMA UpEnds ==
    ASSUME UNCHANGED <<written, upRead>>,
           \A t \in Streams : target[t] = "closed" => target'[t] = "closed"
    PROVE  Up!End
  BY DEF Up!End

\* A chunk that is written is the next one that the client sent.
LEMMA NextReachesTarget ==
    ASSUME Types, NEW s \in Streams, TruthfulAnswer(s), UpInv(s), AgentReadsData(s),
           ~(UNCHANGED written)
    PROVE  Up!Deliver(s)
  <1>q. toAgent \in Seq(Messages) BY DEF Types, WireTypes
  <1>1. /\ toAgent # <<>> /\ IsData(Head(toAgent), s) /\ AgentCanSend
        /\ target[s] # "closed"
        /\ written' = [written EXCEPT ![s] = Append(@, Head(toAgent).chunk)]
        /\ UNCHANGED <<target, upRead>>
    BY DEF AgentReadsData, AgentReads, IsData, socksVars
  <1>2. InLine(toAgent, s, Len(written[s]), upRead[s]) BY <1>1 DEF UpInv
  <1>3. Head(toAgent).chunk = Len(written[s]) + 1 /\ Len(written[s]) + 1 <= upRead[s]
    BY <1>q, <1>1, <1>2, TailNext, UpNumbers
  <1>4. Len(written[s]) < upRead[s] BY <1>3, UpNumbers
  <1>5. written' = [written EXCEPT ![s] = Append(@, Len(@) + 1)] BY <1>1, <1>3
  <1>6. {t \in Streams : target[t] = "closed"}' = {t \in Streams : target[t] = "closed"}
    BY <1>1
  <1> QED BY <1>1, <1>4, <1>5, <1>6 DEF Up!Deliver

\* Every step is one of the promise for the up direction, or a stutter.
LEMMA UpRefines ==
    SessionInv /\ (\A t \in Streams : UpInv(t)) /\ [Next]_vars => [Up!Next]_(Up!vars)
  <1> SUFFICES ASSUME SessionInv, \A t \in Streams : UpInv(t), [Next]_vars
               PROVE  Up!Next
    OBVIOUS
  <1>t. /\ Types /\ (\A t \in Streams : TruthfulAnswer(t))
        /\ target \in [Streams -> {"none", "open", "eof", "closed"}]
    BY DEF SessionInv, Types, AgentTypes
  <1>1. CASE UNCHANGED <<written, upRead, target>>
    BY <1>1, UpEnds DEF Up!Next
  <1>2. ASSUME NEW s \in Streams, Route(s) \/ HandlerStep(s)
        PROVE UNCHANGED <<written, upRead, target>>
    BY <1>2 DEF Route, HandlerStep, RegisterStream, SendOpen, OpenResolved, OpenTimesOut,
                ReplyOpened, PumpEnded, CloseStream, NotifyAgent, agentVars
  <1>3. ASSUME NEW s \in Streams, PumpUp(s) PROVE Up!Send(s)
    <2>1. /\ upRead' = [upRead EXCEPT ![s] = @ + 1]
          /\ UNCHANGED <<written, target>>
      BY <1>3 DEF PumpUp, agentVars
    <2> QED BY <2>1 DEF Up!Send
  <1>4. ASSUME NEW s \in Streams,
               \/ UpPumpEnds(s) \/ DownPumpStep(s) \/ WriteChunk(s)
               \/ ClientShutsSending(s) \/ ClientGone(s)
               \/ PumpDown(s) \/ TargetShutsSending(s) \/ LocalPumpEnds(s)
        PROVE Up!End
    <2>1. UNCHANGED <<written, upRead>>
      BY <1>4 DEF UpPumpEnds, DownPumpStep, TakeChunk, WriteFails, DownPumpEnds, WriteChunk,
             ClientShutsSending, ClientGone, PumpDown, TargetShutsSending, LocalPumpEnds,
             socksVars, agentVars
    <2>2. \A t \in Streams : target[t] = "closed" => target'[t] = "closed"
      BY <1>t, <1>4 DEF UpPumpEnds, DownPumpStep, TakeChunk, WriteFails, DownPumpEnds, WriteChunk,
             ClientShutsSending, ClientGone, PumpDown, TargetShutsSending, LocalPumpEnds, agentVars
    <2> QED BY <2>1, <2>2, UpEnds
  <1>5. CASE ReaderStep \/ CloserStep \/ CloseRequested \/ TouchRefused \/ LinkBreaks
    <2>1. UNCHANGED <<written, upRead, target>>
      BY <1>5 DEF ReaderStep, SendAck, Read, ResolveOpen, PushData, PushTimesOut, ReadFails,
             RemoveActive, SweepStream, HandleConnReturns, CloserStep, CloseAllStreams,
             CloseReturns, CloseRequested, TouchRefused, LinkBreaks, socksVars, agentVars
    <2> QED BY <1>1, <2>1
  <1>6. ASSUME NEW s \in Streams, AgentReadsData(s), ~(UNCHANGED written) PROVE Up!Deliver(s)
    BY <1>t, <1>6, NextReachesTarget
  <1>7. CASE AgentMainStep \/ AgentReaderStep
    <2>1. UNCHANGED upRead
      BY <1>7 DEF AgentMainStep, ReceiveAck, AgentMainReturns, AgentReaderStep, AgentReadFails,
           AgentReadsError,
             AgentReadsOpen, DialFails, DialSucceeds, AnswerOpen, AgentReadsData, AgentReadsClose,
             socksVars
    <2>2. CASE UNCHANGED written
      <3>1. ASSUME NEW s \in Streams, DialSucceeds(s) PROVE target[s] = "none"
        <4>1. Dialing(s) BY <3>1 DEF DialSucceeds, Dialing, AgentAt
        <4> QED BY <1>t, <4>1 DEF TruthfulAnswer
      <3>2. \A t \in Streams : target[t] = "closed" => target'[t] = "closed"
        <4> SUFFICES ASSUME NEW t \in Streams, target[t] = "closed" PROVE target'[t] = "closed"
          OBVIOUS
        <4>1. ~DialSucceeds(t) BY <3>1
        <4> QED BY <1>t, <1>7, <4>1 DEF AgentMainStep, ReceiveAck, AgentMainReturns, AgentLeaves,
               AgentReaderStep, AgentReadFails, AgentReadsError, AgentReadsOpen, DialFails,
               DialSucceeds,
               AnswerOpen, AgentReadsData, AgentReadsClose
      <3> QED BY <2>1, <2>2, <3>2, UpEnds DEF Up!Next
    <2>3. CASE ~(UNCHANGED written)
      <3>1. \E s \in Streams : AgentReadsData(s)
        BY <1>7, <2>3 DEF AgentMainStep, ReceiveAck, AgentMainReturns, AgentReaderStep,
               AgentReadFails, AgentReadsError, AgentReadsOpen, DialFails, DialSucceeds,
               AnswerOpen, AgentReadsClose
      <3> QED BY <1>6, <2>3, <3>1 DEF Up!Next
    <2> QED BY <2>2, <2>3
  <1>8. CASE Stopped \/ UNCHANGED vars
    <2>1. UNCHANGED vars BY <1>8 DEF Stopped
    <2> QED BY <1>1, <2>1 DEF vars, socksVars, agentVars
  <1> QED
    BY <1>1, <1>2, <1>3, <1>4, <1>5, <1>7, <1>8 DEF Next, Environment, Up!Next

\* A target gets an unbroken beginning of what the client sent, until it is
\* closed, for any number of streams and chunks (socks_entry.go:136-155,
\* app_v2.go:147-160).
THEOREM TargetGetsWhatClientSent == Spec => UpPromise
  <1>1. Init => Up!Init BY DEF Init, Up!Init
  <1> QED BY <1>1, UpInit, UpStep, UpRefines, SessionInvariance, PTL DEF Spec, UpPromise, Up!Spec
================================================================================
