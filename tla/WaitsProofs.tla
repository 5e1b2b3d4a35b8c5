------------------------------ MODULE WaitsProofs ------------------------------
(* Proofs about the two places where goroutines may wait in a circle, for any    *)
(* number of streams and room in the connection, and any number of goroutines of *)
(* the desktop program.  First ControlPipe: types, and that a server and an      *)
(* agent that wait for each other to read never stop waiting.  Then DesktopLock: *)
(* that writers are alone, and that the program never leaves the two circles of  *)
(* window and goroutines.  At the end the composition that the run checks.       *)
EXTENDS MCWaits, SequenceTheorems, TLAPS

-------------------------------------------------------------------------------
(* The control connection *)

\* What Send may do, whoever calls it and whatever it says.
LEMMA SendType ==
    ASSUME TypeOK, NEW w \in [Directions -> Seq(Messages)], NEW g \in Senders,
           NEW m \in Messages, SendAfter(w, g, m)
    PROVE  /\ wire' \in [Directions -> Seq(Messages)]
           /\ sending' \in [Senders -> Messages \cup {Nothing}]
  <1>1. Out(g) \in Directions BY DEF Out, Directions
  <1>2. [w EXCEPT ![Out(g)] = Append(@, m)] \in [Directions -> Seq(Messages)] BY <1>1
  <1>3. [sending EXCEPT ![g] = m] \in [Senders -> Messages \cup {Nothing}] BY DEF TypeOK
  <1> QED BY <1>2, <1>3 DEF SendAfter, TypeOK

\* What is left when a message has been taken, and the message.
LEMMA TakeType ==
    ASSUME TypeOK, NEW d \in Directions, wire[d] # <<>>
    PROVE  /\ Rest(d) \in [Directions -> Seq(Messages)]
           /\ Head(wire[d]) \in Messages
           /\ Head(wire[d]).stream \in Streams \cup {None}
  <1>1. wire[d] \in Seq(Messages) BY DEF TypeOK
  <1>2. Tail(wire[d]) \in Seq(Messages) /\ Head(wire[d]) \in Messages
    BY <1>1, HeadTailProperties
  <1> QED BY <1>2 DEF Rest, Messages, TypeOK

\* A connection that ends is empty.
LEMMA DisconnectType ==
    Disconnect => wire' \in [Directions -> Seq(Messages)] /\ connected' \in BOOLEAN
  <1>1. <<>> \in Seq(Messages) BY EmptySeq
  <1> QED BY <1>1 DEF Disconnect

\* The streams that are closed, and their downloads.
LEMMA EndStreamsType ==
    ASSUME TypeOK, NEW ended, EndStreams(ended)
    PROVE  /\ done' \subseteq Streams
           /\ download' \in [Streams -> {"none", "selecting", "writing", "ended"}]
  <1>1. done' \subseteq Streams BY DEF EndStreams, Open, TypeOK
  <1>2. download' \in [Streams -> {"none", "selecting", "writing", "ended"}]
    BY DEF EndStreams, TypeOK
  <1> QED BY <1>1, <1>2

\* A message about a stream, or about none.
LEMMA MsgType ==
    ASSUME NEW type \in {"ping", "pong", "error", "open", "ok", "fail", "data", "close"},
           NEW s \in Streams \cup {None}
    PROVE  Msg(type, s) \in Messages
  BY DEF Msg, Messages

\* The goroutines are senders.
LEMMA SendersType ==
    /\ ReadLoop \in Senders /\ Main \in Senders /\ Reader \in Senders
    /\ \A s \in Streams : Handler(s) \in Senders /\ Upload(s) \in Senders /\ Pump(s) \in Senders
  BY DEF Senders, ServerSenders, AgentSenders

\* The types hold in the beginning.
LEMMA InitType == Init => TypeOK
  BY SendersType DEF Init, TypeOK, At, Directions

-------------------------------------------------------------------------------
(* One lemma per group of actions: every step keeps the types. *)

\* The connection itself: writes, their failures, its end.
LEMMA ConnectionType ==
    ASSUME TypeOK,
           \/ \E g \in Senders : Write(g) \/ WriteFails(g)
           \/ ConnectionEnds \/ Delivered
    PROVE  TypeOK'
  <1>1. ASSUME NEW g \in Senders, Write(g) PROVE TypeOK'
    <2>1. sending[g] \in Messages BY <1>1 DEF Write, Free, TypeOK
    <2>2. Out(g) \in Directions BY DEF Out, Directions
    <2>3. wire' \in [Directions -> Seq(Messages)] BY <1>1, <2>1, <2>2 DEF Write, TypeOK
    <2>4. sending' \in [Senders -> Messages \cup {Nothing}] BY <1>1 DEF Write, TypeOK
    <2> QED BY <1>1, <2>3, <2>4 DEF Write, TypeOK, server, pumps, agent
  <1>2. ASSUME NEW g \in Senders, WriteFails(g) PROVE TypeOK'
    <2>1. sending' \in [Senders -> Messages \cup {Nothing}] BY <1>2 DEF WriteFails, TypeOK
    <2>2. main' \in {"running", "returning", "ended"} BY <1>2 DEF WriteFails, TypeOK
    <2>3. reader' \in [at : {"reading", "dialing", "delivering", "starting", "ended"},
                       stream : Streams \cup {None}]
      BY <1>2 DEF WriteFails, TypeOK, At
    <2>4. pump' \in [Streams -> {"none", "running", "leaving", "closed", "ending", "ended"}]
      BY <1>2 DEF WriteFails, TypeOK
    <2>5. upload' \in [Streams -> {"none", "reading", "ended"}]
      BY <1>2 DEF WriteFails, TypeOK
    <2> QED BY <1>2, <2>1, <2>2, <2>3, <2>4, <2>5 DEF WriteFails, TypeOK
  <1>3. CASE ConnectionEnds
    BY <1>3, DisconnectType, EndStreamsType DEF ConnectionEnds, TypeOK, pumps, agent
  <1>4. CASE Delivered
    BY <1>4 DEF Delivered, TypeOK, At, connection, server, pumps
  <1> QED BY <1>1, <1>2, <1>3, <1>4

\* The handlers of streams and what reads their clients.
LEMMA HandlerType ==
    ASSUME TypeOK, NEW s \in Streams,
           \/ OpenStream(s) \/ OpenFails(s) \/ CloseStream(s) \/ HandlerReturns(s)
           \/ ClientSends(s) \/ ClientLeaves(s) \/ ClientTakes(s)
    PROVE  TypeOK'
  <1>1. ASSUME NEW g \in Senders, NEW m \in Messages, Send(g, m)
        PROVE  /\ wire' \in [Directions -> Seq(Messages)]
               /\ sending' \in [Senders -> Messages \cup {Nothing}]
               /\ connected' \in BOOLEAN
    BY <1>1, SendType DEF Send, TypeOK
  <1>2. CASE OpenStream(s)
    BY <1>1, <1>2, MsgType, SendersType DEF OpenStream, SetHandler, TypeOK, pumps, agent
  <1>3. CASE OpenFails(s)
    BY <1>3 DEF OpenFails, SetHandler, TypeOK, connection, pumps, agent
  <1>4. CASE ClientSends(s)
    BY <1>1, <1>4, MsgType, SendersType DEF ClientSends, TypeOK, server, pumps, agent
  <1>5. CASE CloseStream(s)
    <2>1. Send(Handler(s), Msg("close", s)) BY <1>5 DEF CloseStream
    <2>2. /\ done' \subseteq Streams
          /\ download' \in [Streams -> {"none", "selecting", "writing", "ended"}]
      BY <1>5, EndStreamsType DEF CloseStream
    <2> QED BY <1>1, <1>5, <2>1, <2>2, MsgType, SendersType
         DEF CloseStream, SetHandler, TypeOK, agent
  <1>6. CASE HandlerReturns(s)
    BY <1>6 DEF HandlerReturns, SetHandler, TypeOK, connection, agent
  <1>7. CASE ClientLeaves(s) \/ ClientTakes(s)
    BY <1>7 DEF ClientLeaves, ClientTakes, TypeOK, connection, agent
  <1> QED BY <1>2, <1>3, <1>4, <1>5, <1>6, <1>7

\* The loop of the server that reads the agent.
LEMMA ReadLoopType ==
    ASSUME TypeOK, ReadLoopSteps
    PROVE  TypeOK'
  <1> DEFINE Read == /\ wire' \in [Directions -> Seq(Messages)]
                     /\ sending' \in [Senders -> Messages \cup {Nothing}]
                     /\ connected' \in BOOLEAN
                     /\ UNCHANGED agent
             Ended == /\ done' \subseteq Streams
                      /\ download' \in [Streams -> {"none", "selecting", "writing", "ended"}]
  <1>1. ASSUME NEW ended, EndStreams(ended) PROVE Ended
    BY <1>1, EndStreamsType
  <1>2. ASSUME NEW type, Decodes(type), Take("toServer") PROVE Read
    BY <1>2, TakeType DEF Decodes, Next1, Take, Directions, TypeOK
  <1>3. ASSUME NEW type, NEW m \in Messages, Decodes(type),
               SendAfter(Rest("toServer"), ReadLoop, m)
        PROVE  Read
    BY <1>3, TakeType, SendType, SendersType DEF Decodes, Next1, Directions, TypeOK
  <1>4. ASSUME NEW type, Decodes(type)
        PROVE  Head(wire["toServer"]).stream \in Streams \cup {None}
    BY <1>4, TakeType DEF Decodes, Next1, Directions
  <1>5. CASE AnswerPing
    <2>1. Read BY <1>5, <1>3, MsgType DEF AnswerPing
    <2> QED BY <2>1, <1>5 DEF AnswerPing, TypeOK, server, pumps, agent
  <1>6. CASE RefusePing
    <2>1. Read BY <1>6, <1>3, MsgType DEF RefusePing
    <2> QED BY <2>1, <1>6 DEF RefusePing, TypeOK, At, pumps, agent
  <1>7. CASE ResolveOpen
    <2>1. Read BY <1>7, <1>2 DEF ResolveOpen
    <2>2. /\ handler' \in [Streams -> {"idle", "waiting", "open", "closing", "over"}]
          /\ upload' \in [Streams -> {"none", "reading", "ended"}]
          /\ download' \in [Streams -> {"none", "selecting", "writing", "ended"}]
      BY <1>7 DEF ResolveOpen, SetHandler, TypeOK, pumps
    <2> QED BY <2>1, <2>2, <1>7 DEF ResolveOpen, TypeOK, agent
  <1>8. CASE ReadData
    <2>1. Read BY <1>8, <1>2 DEF ReadData
    <2>2. Ended BY <1>8 DEF ReadData, Push, TypeOK
    <2>3. readLoop' \in [at : {"reading", "pushing", "leaving", "ended"},
                         stream : Streams \cup {None}]
      BY <1>8, <1>4 DEF ReadData, TypeOK, At
    <2> QED BY <2>1, <2>2, <2>3, <1>8 DEF ReadData, TypeOK, agent
  <1>9. CASE PushData
    <2>1. Ended BY <1>9, <1>1 DEF PushData, Push, TypeOK
    <2> QED BY <2>1, <1>9 DEF PushData, TypeOK, At, connection, agent
  <1>10. CASE ReadClose
    <2>1. Read BY <1>10, <1>2 DEF ReadClose
    <2>2. Ended BY <1>10, <1>1 DEF ReadClose
    <2> QED BY <2>1, <2>2, <1>10 DEF ReadClose, TypeOK, agent
  <1>11. CASE HandleConnReturns
    <2>1. Ended BY <1>11, <1>1 DEF HandleConnReturns
    <2> QED BY <2>1, <1>11, DisconnectType DEF HandleConnReturns, TypeOK, At, agent
  <1> QED BY <1>5, <1>6, <1>7, <1>8, <1>9, <1>10, <1>11 DEF ReadLoopSteps

\* The loop of runRelayClient.
LEMMA MainType ==
    ASSUME TypeOK, MainSteps
    PROVE  TypeOK'
  <1>1. CASE Tick
    <2>1. Send(Main, Msg("ping", None)) /\ UNCHANGED <<server, agent>> BY <1>1 DEF Tick
    <2>2. /\ wire' \in [Directions -> Seq(Messages)]
          /\ sending' \in [Senders -> Messages \cup {Nothing}]
          /\ connected' \in BOOLEAN
      BY <2>1, SendType, MsgType, SendersType DEF Send, TypeOK
    <2> QED BY <2>1, <2>2 DEF TypeOK, server, pumps, agent
  <1>2. CASE RunReturns
    <2>1. pump' \in [Streams -> {"none", "running", "leaving", "closed", "ending", "ended"}]
      BY <1>2, Zenon DEF RunReturns, CloseTargets, TypeOK
    <2> QED BY <2>1, <1>2, DisconnectType DEF RunReturns, TypeOK, server, pumps
  <1> QED BY <1>1, <1>2 DEF MainSteps

\* Its reading goroutine.
LEMMA ReaderType ==
    ASSUME TypeOK, ReaderSteps
    PROVE  TypeOK'
  <1> DEFINE PumpOK ==
        pump' \in [Streams -> {"none", "running", "leaving", "closed", "ending", "ended"}]
             Read == /\ wire' \in [Directions -> Seq(Messages)]
                     /\ sending' \in [Senders -> Messages \cup {Nothing}]
                     /\ connected' \in BOOLEAN
                     /\ UNCHANGED <<server, main>>
  <1>1. ASSUME NEW type, Receives(type)
        PROVE  Read /\ Head(wire["toAgent"]).stream \in Streams \cup {None}
    BY <1>1, TakeType DEF Receives, Next1, Take, Directions, TypeOK
  <1>2. CASE ReceivePong
    <2>1. Read BY <1>2, <1>1 DEF ReceivePong
    <2> QED BY <2>1, <1>2 DEF ReceivePong, TypeOK, server, pumps
  <1>3. CASE ReceiveError
    <2>1. Read BY <1>3, <1>1 DEF ReceiveError
    <2> QED BY <2>1, <1>3 DEF ReceiveError, TypeOK, At, server, pumps
  <1>4. CASE ReceiveOpen
    <2>1. Read /\ Head(wire["toAgent"]).stream \in Streams \cup {None}
      BY <1>4, <1>1 DEF ReceiveOpen
    <2> QED BY <2>1, <1>4 DEF ReceiveOpen, TypeOK, At, server, pumps
  <1>5. CASE ReceiveData
    <2>1. Read /\ Head(wire["toAgent"]).stream \in Streams \cup {None}
      BY <1>5, <1>1 DEF ReceiveData
    <2> QED BY <2>1, <1>5 DEF ReceiveData, TypeOK, At, server, pumps
  <1>6. CASE ReceiveClose
    <2>1. Read BY <1>6, <1>1 DEF ReceiveClose
    <2>2. PumpOK BY <1>6, Zenon DEF ReceiveClose, CloseTargets, TypeOK
    <2> QED BY <2>1, <2>2, <1>6 DEF ReceiveClose, TypeOK, server, pumps
  <1>7. CASE DialEnds
    <2>1. reader.stream \in Streams \cup {None} BY DEF TypeOK
    <2>2. PICK type \in {"ok", "fail"} :
            /\ Send(Reader, Msg(type, reader.stream))
            /\ reader' \in {At("starting", reader.stream), At("reading", None)}
      BY <1>7 DEF DialEnds
    <2>3. Msg(type, reader.stream) \in Messages BY <2>1, <2>2, MsgType
    <2>4. /\ wire' \in [Directions -> Seq(Messages)]
          /\ sending' \in [Senders -> Messages \cup {Nothing}]
          /\ connected' \in BOOLEAN
      BY <2>2, <2>3, SendType, SendersType DEF Send, TypeOK
    <2> QED BY <2>1, <2>2, <2>4, <1>7 DEF DialEnds, TypeOK, At, server, pumps
  <1>8. CASE PumpStarts
    BY <1>8 DEF PumpStarts, TypeOK, At, connection, server, pumps
  <1>9. CASE ReaderFails \/ Delivered
    BY <1>9 DEF ReaderFails, Delivered, TypeOK, At, connection, server, pumps
  <1> QED BY <1>2, <1>3, <1>4, <1>5, <1>6, <1>7, <1>8, <1>9 DEF ReaderSteps

\* The pumps from the targets.
LEMMA PumpType ==
    ASSUME TypeOK, NEW s \in Streams, PumpLeaves(s) \/ PumpEnds(s) \/ TargetSends(s)
    PROVE  TypeOK'
  <1>1. ASSUME NEW m \in Messages, Send(Pump(s), m)
        PROVE  /\ wire' \in [Directions -> Seq(Messages)]
               /\ sending' \in [Senders -> Messages \cup {Nothing}]
               /\ connected' \in BOOLEAN
    BY <1>1, SendType, SendersType DEF Send, TypeOK
  <1>2. CASE PumpLeaves(s)
    <2>1. Send(Pump(s), Msg("close", s)) BY <1>2 DEF PumpLeaves
    <2> QED BY <2>1, <1>1, <1>2, MsgType DEF PumpLeaves, TypeOK, server, pumps
  <1>3. CASE TargetSends(s)
    <2>1. Send(Pump(s), Msg("data", s)) BY <1>3 DEF TargetSends
    <2> QED BY <2>1, <1>1, <1>3, MsgType DEF TargetSends, TypeOK, server, pumps, agent
  <1>4. CASE PumpEnds(s)
    BY <1>4 DEF PumpEnds, TypeOK, connection, server, pumps
  <1> QED BY <1>2, <1>3, <1>4

\* Every step keeps the types.
LEMMA StepType == TypeOK /\ [Next]_vars => TypeOK'
  <1> SUFFICES ASSUME TypeOK, [Next]_vars PROVE TypeOK'
    OBVIOUS
  <1>1. CASE UNCHANGED vars
    BY <1>1 DEF vars, connection, server, pumps, agent, TypeOK
  <1> QED BY <1>1, ConnectionType, HandlerType, ReadLoopType, MainType, ReaderType, PumpType
       DEF Next

\* The state of the control connection and its goroutines is well typed.
THEOREM TypeCorrect == Spec => []TypeOK
  BY InitType, StepType, PTL DEF Spec

-------------------------------------------------------------------------------
(* The mutual wait *)

\* Send of anybody else finds no room and leaves the two readers where they are.
LEMMA SendStands ==
    ASSUME TypeOK, MutualWait, NEW g \in Senders, NEW m, Send(g, m)
    PROVE  MutualWait'
  <1>1. g # ReadLoop /\ g # Reader BY DEF Send, SendAfter, MutualWait
  <1>2. Full(wire[Out(g)]) BY DEF MutualWait, Out, Directions
  <1>3. wire' = wire /\ sending' = [sending EXCEPT ![g] = m] /\ UNCHANGED connected
    BY <1>2 DEF Send, SendAfter, MutualWait
  <1> QED BY <1>1, <1>3, SendersType DEF MutualWait, Free, Full, TypeOK

\* Each of the two readers is held up by what only the other can take away.
LEMMA WaitStands ==
    TypeOK /\ MutualWait /\ [Next]_vars => MutualWait' \/ ~connected'
  <1> SUFFICES ASSUME TypeOK, MutualWait, [Next]_vars PROVE MutualWait' \/ ~connected'
    OBVIOUS
  <1>1. ASSUME UNCHANGED connection PROVE MutualWait'
    BY <1>1 DEF connection, MutualWait, Free, Full
  <1>2. \A g \in Senders : ~Write(g) /\ ~WriteFails(g)
    BY DEF Write, WriteFails, MutualWait, Out, Directions
  <1>3. CASE UNCHANGED vars BY <1>3, <1>1 DEF vars
  <1>4. CASE ReadLoopSteps
    <2>1. UNCHANGED connection
      BY <1>4 DEF ReadLoopSteps, AnswerPing, RefusePing, ResolveOpen, ReadData, PushData, ReadClose,
         HandleConnReturns, Decodes, MutualWait
    <2> QED BY <2>1, <1>1
  <1>5. CASE ReaderSteps \/ Delivered
    <2>1. ASSUME NEW type PROVE ~Receives(type) BY DEF Receives, MutualWait
    <2>2. ~DialEnds BY DEF DialEnds, Send, SendAfter, MutualWait
    <2>3. UNCHANGED connection
      BY <1>5, <2>1, <2>2 DEF ReaderSteps, ReceivePong, ReceiveError, ReceiveOpen, ReceiveData,
         ReceiveClose, PumpStarts, ReaderFails, Delivered
    <2> QED BY <2>3, <1>1
  <1>6. CASE MainSteps
    BY <1>6, SendStands, SendersType DEF MainSteps, Tick, RunReturns, Disconnect
  <1>7. CASE ConnectionEnds BY <1>7 DEF ConnectionEnds, Disconnect
  <1>8. ASSUME NEW s \in Streams,
               OpenStream(s) \/ ClientSends(s) \/ CloseStream(s) \/ PumpLeaves(s) \/ TargetSends(s)
        PROVE  MutualWait'
    <2>1. PICK g \in {Handler(s), Upload(s), Pump(s)},
               m \in {Msg("open", s), Msg("data", s), Msg("close", s)} :
            Send(g, m)
      BY <1>8 DEF OpenStream, ClientSends, CloseStream, PumpLeaves, TargetSends
    <2> QED BY <2>1, SendStands, SendersType
  <1>9. ASSUME NEW s \in Streams, \/ OpenFails(s) \/ HandlerReturns(s)
                                \/ ClientLeaves(s) \/ ClientTakes(s) \/ PumpEnds(s)
        PROVE  MutualWait'
    BY <1>9, <1>1 DEF OpenFails, HandlerReturns, ClientLeaves, ClientTakes, PumpEnds
  <1> QED BY <1>2, <1>3, <1>4, <1>5, <1>6, <1>7, <1>8, <1>9 DEF Next

\* A mutual wait lasts as long as the connection: no client, target, dial or timeout
\* of the code resolves it.
THEOREM WaitIsForGood == Spec => StandsStill
  <1>1. TypeOK /\ [Next]_vars => [MutualWait => MutualWait' \/ ~connected']_vars
    BY WaitStands
  <1> QED BY <1>1, TypeCorrect, PTL DEF Spec, StandsStill

-------------------------------------------------------------------------------
(* The lock of the desktop program *)

Writers == {"announced", "announcedToAsk", "writing", "asking"}
HasLock(g) == worker[g] \in {"writing", "asking"}

\* What the RWMutex keeps: its writer is the one goroutine that has announced
\* itself, and who has the lock for writing has no reader beside it.
LockInv ==
    /\ \A g \in Workers : worker[g] \in Writers <=> writer = g
    /\ \A g \in Workers : HasLock(g) => NoReaders
    /\ \A g \in Workers : worker[g] = "waiting" => writer # Nobody
    /\ window \in {"waits", "snapshotWaits", "nestedWaits"} => writer # Nobody

DesktopInv == DesktopTypeOK /\ LockInv

\* The invariant holds in the beginning.
LEMMA DesktopInitially == DesktopInit => DesktopInv
  BY WorkersAssumption
  DEF DesktopInit, DesktopInv, DesktopTypeOK, LockInv, WorkerPoints, WindowPoints,
      Writers, HasLock, NoReaders, WindowReads, Reading

\* A goroutine that changes its place, and nothing else, without touching the lock.
LEMMA GotoInv ==
    ASSUME DesktopInv, NEW g \in Workers, NEW point \in WorkerPoints, Goto(g, point),
           UNCHANGED <<window, writer>>,
           worker[g] \in Writers <=> point \in Writers,
           point \in {"writing", "asking"} => NoReaders,
           point = "waiting" => writer # Nobody,
           point = "reading" => \A h \in Workers : ~HasLock(h)
    PROVE  DesktopInv'
  <1>1. /\ worker' \in [Workers -> WorkerPoints]
        /\ worker'[g] = point
        /\ \A h \in Workers \ {g} : worker'[h] = worker[h]
    BY DEF DesktopInv, DesktopTypeOK, Goto
  <1>2. DesktopTypeOK' BY <1>1 DEF DesktopInv, DesktopTypeOK
  <1>3. \A h \in Workers : (worker[h] \in Writers <=> writer = h)'
    BY <1>1 DEF DesktopInv, LockInv
  <1>4. ASSUME NEW h \in Workers, HasLock(h)' PROVE NoReaders'
    <2>1. HasLock(h) \/ (h = g /\ point \in {"writing", "asking"}) BY <1>1, <1>4 DEF HasLock
    <2>2. NoReaders BY <2>1 DEF DesktopInv, LockInv
    <2>3. point # "reading"
      BY <2>1 DEF HasLock
    <2> QED BY <2>2, <2>3, <1>1 DEF NoReaders, WindowReads, Reading
  <1>5. \A h \in Workers : (worker[h] = "waiting" => writer # Nobody)'
    BY <1>1 DEF DesktopInv, LockInv
  <1>6. (window \in {"waits", "snapshotWaits", "nestedWaits"} => writer # Nobody)'
    BY DEF DesktopInv, LockInv
  <1> QED BY <1>2, <1>3, <1>4, <1>5, <1>6 DEF DesktopInv, LockInv

\* A step of the window thread: it reads only while nobody has the lock to write.
LEMMA WindowToInv ==
    ASSUME DesktopInv, NEW point \in WindowPoints, WindowTo(point),
           point \in {"waits", "snapshotWaits", "nestedWaits"} => writer # Nobody,
           point \in {"reads", "snapshotReads", "nestedWaits", "nestedReads"}
             => WindowReads \/ writer = Nobody
    PROVE  DesktopInv'
  <1>1. UNCHANGED <<worker, writer>> /\ window' = point BY DEF WindowTo
  <1>2. DesktopTypeOK' BY <1>1 DEF DesktopInv, DesktopTypeOK
  <1>3. ASSUME NEW h \in Workers, HasLock(h)' PROVE NoReaders'
    <2>1. HasLock(h) /\ NoReaders BY <1>1, <1>3 DEF HasLock, DesktopInv, LockInv
    <2>2. writer = h BY <2>1 DEF HasLock, Writers, DesktopInv, LockInv
    <2>3. writer # Nobody BY <2>2, WorkersAssumption
    <2> QED BY <2>1, <2>3, <1>1 DEF NoReaders, WindowReads, Reading
  <1> QED BY <1>1, <1>2, <1>3 DEF DesktopInv, LockInv, HasLock

\* Unlock lets every reader in at once.
LEMMA UnlockInv ==
    ASSUME DesktopInv, NEW g \in Workers, Unlock(g)
    PROVE  DesktopInv'
  <1>1. worker[g] = "writing" /\ writer = g BY DEF Unlock, DesktopInv, LockInv, Writers
  <1>2. /\ worker' = [w \in Workers |->
                       IF w = g THEN "idle"
                       ELSE IF worker[w] = "waiting" THEN "reading" ELSE worker[w]]
        /\ writer' = Nobody
    BY DEF Unlock, Unlocked
  <1>3. window' \in WindowPoints \ {"waits", "snapshotWaits", "nestedWaits"}
    BY DEF Unlock, Unlocked, DesktopInv, DesktopTypeOK, WindowPoints
  <1>4. worker' \in [Workers -> WorkerPoints]
    BY <1>2 DEF DesktopInv, DesktopTypeOK, WorkerPoints
  <1>5. \A h \in Workers : worker[h] \in Writers <=> h = g
    BY <1>1 DEF DesktopInv, LockInv
  <1>6. \A h \in Workers : worker'[h] \notin Writers /\ worker'[h] # "waiting"
    BY <1>2, <1>5 DEF Writers
  <1>7. DesktopTypeOK' BY <1>2, <1>3, <1>4 DEF DesktopTypeOK
  <1> QED BY <1>2, <1>3, <1>6, <1>7, WorkersAssumption DEF DesktopInv, LockInv, HasLock, Writers

\* Announce takes the turn among the writers.
LEMMA AnnounceInv ==
    ASSUME DesktopInv, NEW g \in Workers, Announce(g)
    PROVE  DesktopInv'
  <1> DEFINE point == IF worker[g] = "queued" THEN "announced" ELSE "announcedToAsk"
  <1>1. /\ writer = Nobody /\ writer' = g /\ UNCHANGED window
        /\ worker' = [worker EXCEPT ![g] = point]
    BY DEF Announce, Goto
  <1>2. /\ worker' \in [Workers -> WorkerPoints]
        /\ worker'[g] \in {"announced", "announcedToAsk"}
        /\ \A h \in Workers \ {g} : worker'[h] = worker[h]
    BY <1>1 DEF DesktopInv, DesktopTypeOK, WorkerPoints
  <1>3. \A h \in Workers : worker[h] \notin Writers
    BY <1>1, WorkersAssumption DEF DesktopInv, LockInv
  <1>4. DesktopTypeOK' BY <1>1, <1>2 DEF DesktopInv, DesktopTypeOK
  <1> QED BY <1>1, <1>2, <1>3, <1>4, WorkersAssumption DEF DesktopInv, LockInv, HasLock, Writers

\* Every step keeps the invariant.
LEMMA DesktopStep == DesktopInv /\ [DesktopNext]_desktopVars => DesktopInv'
  <1> SUFFICES ASSUME DesktopInv, [DesktopNext]_desktopVars PROVE DesktopInv'
    OBVIOUS
  <1>1. CASE UNCHANGED desktopVars
    BY <1>1 DEF desktopVars, DesktopInv, DesktopTypeOK, LockInv, HasLock, NoReaders, WindowReads,
                Reading
  <1>2. CASE WindowAsks \/ Snapshot \/ StatusLink
    BY <1>2, WindowToInv DEF WindowAsks, Snapshot, StatusLink, ReaderGets, WindowPoints, WindowReads
  <1>3. CASE WindowReturns \/ SnapshotReturns
    BY <1>3, WindowToInv DEF WindowReturns, SnapshotReturns, WindowPoints
  <1>4. ASSUME NEW g \in Workers, WriteSection(g) \/ StartSection(g) \/ TestReads(g)
        PROVE  DesktopInv'
    <2>1. ASSUME writer = Nobody PROVE \A h \in Workers : ~HasLock(h)
      BY <2>1, WorkersAssumption DEF DesktopInv, LockInv, HasLock, Writers
    <2> QED BY <1>4, <2>1, GotoInv
         DEF WriteSection, StartSection, TestReads, ReaderGets, WorkerPoints, Writers
  <1>5. ASSUME NEW g \in Workers, Acquire(g) \/ WindowAnswers(g) \/ TestHasRead(g)
        PROVE  DesktopInv'
    <2>1. CASE Acquire(g)
      BY <2>1, GotoInv DEF Acquire, WorkerPoints, Writers
    <2>2. CASE WindowAnswers(g)
      BY <2>2, GotoInv DEF WindowAnswers, WorkerPoints, Writers, DesktopInv, LockInv, HasLock
    <2>3. CASE TestHasRead(g)
      BY <2>3, GotoInv DEF TestHasRead, Reading, WorkerPoints, Writers
    <2> QED BY <1>5, <2>1, <2>2, <2>3
  <1> QED BY <1>1, <1>2, <1>3, <1>4, <1>5, UnlockInv, AnnounceInv DEF DesktopNext, WindowSteps

\* The invariant of the proofs.
THEOREM DesktopInvariance == DesktopSpec => []DesktopInv
  BY DesktopInitially, DesktopStep, PTL DEF DesktopSpec

\* The state of the desktop program's lock and window is well typed.
THEOREM DesktopTypeCorrect == DesktopSpec => []DesktopTypeOK
  BY DesktopInvariance, PTL DEF DesktopInv

\* A section that writes is alone: no other goroutine writes or reads, nor does the
\* window thread (main.go:613-632, 973-974).
WritersAreAlone ==
    \A g \in Workers : HasLock(g) => NoReaders /\ \A h \in Workers \ {g} : ~HasLock(h)

\* Whoever writes is alone: the lock of the desktop program excludes.
THEOREM LockExcludes == DesktopSpec => []WritersAreAlone
  <1>1. DesktopInv => WritersAreAlone
    BY DEF DesktopInv, LockInv, WritersAreAlone, HasLock, Writers
  <1> QED BY <1>1, DesktopInvariance, PTL

\* A circle is closed: the writer that the window waits for can neither get the
\* lock nor give it back.
LEMMA CircleLasts == DesktopInv /\ Frozen /\ [DesktopNext]_desktopVars => Frozen'
  <1> SUFFICES ASSUME DesktopInv, Frozen, [DesktopNext]_desktopVars PROVE Frozen'
    OBVIOUS
  <1> DEFINE Circle(g) ==
        \/ window = "nestedWaits" /\ worker[g] \in {"announced", "announcedToAsk"}
        \/ window \in {"waits", "snapshotWaits"} /\ worker[g] = "asking"
  <1>1. PICK g \in Workers : Circle(g) BY DEF Frozen
  <1>2. writer = g BY <1>1 DEF DesktopInv, LockInv, Writers
  <1>3. \A h \in Workers : ~Unlock(h) /\ ~Announce(h)
    BY <1>1, <1>2, WorkersAssumption DEF Unlock, Announce, DesktopInv, LockInv, Writers
  <1>4. UNCHANGED window
    BY <1>1, <1>3 DEF DesktopNext, desktopVars, WindowAsks, Snapshot, WindowSteps, WindowReturns,
       StatusLink, SnapshotReturns, WriteSection, StartSection, TestReads, Acquire, WindowAnswers,
       TestHasRead
  <1>5. \A h \in Workers : ~WindowAnswers(h) BY <1>1 DEF WindowAnswers
  <1>6. ~Acquire(g)
    BY <1>1 DEF Acquire, NoReaders, WindowReads
  <1>7. worker'[g] = worker[g]
    <2>1. ASSUME NEW h \in Workers, NEW point, h # g, Goto(h, point) PROVE worker'[g] = worker[g]
      BY <2>1 DEF Goto, DesktopInv, DesktopTypeOK
    <2>2. ASSUME NEW h \in Workers,
                 WriteSection(h) \/ StartSection(h) \/ TestReads(h) \/ TestHasRead(h) \/ Acquire(h)
          PROVE  worker'[g] = worker[g]
      <3>1. h # g
        BY <2>2, <1>1, <1>6 DEF WriteSection, StartSection, TestReads, TestHasRead, Reading
      <3> QED BY <2>2, <2>1, <3>1
           DEF WriteSection, StartSection, TestReads, TestHasRead, Acquire
    <2> QED BY <2>2, <1>3, <1>5
         DEF DesktopNext, desktopVars, WindowAsks, Snapshot, WindowSteps, WindowReturns,
             StatusLink, SnapshotReturns, WindowTo
  <1>8. Circle(g)' BY <1>1, <1>4, <1>7
  <1> QED BY <1>8 DEF Frozen

\* Once in a circle, the desktop program stays in it: its window does not answer
\* again, whatever the goroutines do.
THEOREM FreezeIsForGood == DesktopSpec => FrozenForGood
  <1>1. DesktopInv /\ [DesktopNext]_desktopVars => [Frozen => Frozen']_desktopVars
    BY CircleLasts
  <1> QED BY <1>1, DesktopInvariance, PTL DEF DesktopSpec, FrozenForGood

-------------------------------------------------------------------------------
(* The composition *)

\* A step of a composition is one of each part or leaves it alone.
LEMMA PartsStep == [WaitsNext]_waitVars => [Next]_vars /\ [DesktopNext]_desktopVars
  BY DEF WaitsNext, waitVars

\* So is the start, but for a connection that is over.
LEMMA PartsInit == WaitsInit => TypeOK /\ DesktopInv
  <1>1. ASSUME RelayOver PROVE TypeOK
    <2>1. connected = FALSE BY <1>1 DEF RelayOver
    <2>2. wire \in [Directions -> Seq(Messages)]
      <3>1. <<>> \in Seq(Messages) OBVIOUS
      <3> QED BY <1>1, <3>1 DEF RelayOver
    <2>3. sending \in [Senders -> Messages \cup {Nothing}] BY <1>1 DEF RelayOver
    <2>4. /\ readLoop \in [at : {"reading", "pushing", "leaving", "ended"},
                           stream : Streams \cup {None}]
          /\ reader \in [at : {"reading", "dialing", "delivering", "starting", "ended"},
                         stream : Streams \cup {None}]
      BY <1>1 DEF RelayOver, At
    <2>5. /\ handler \in [Streams -> {"idle", "waiting", "open", "closing", "over"}]
          /\ main \in {"running", "returning", "ended"}
          /\ pump \in [Streams -> {"none", "running", "leaving", "closed", "ending", "ended"}]
          /\ upload \in [Streams -> {"none", "reading", "ended"}]
          /\ download \in [Streams -> {"none", "selecting", "writing", "ended"}]
          /\ done \subseteq Streams
      BY <1>1 DEF RelayOver
    <2> QED BY <2>1, <2>2, <2>3, <2>4, <2>5 DEF TypeOK
  <1> QED BY <1>1, InitType, DesktopInitially DEF WaitsInit

\* Whichever program runs: neither the mutual wait of the two readers nor a circle of
\* the desktop program is ever left.
THEOREM CirclesAreForGood == WaitsSpec => StandsStill /\ FrozenForGood
  <1>1. TypeOK /\ [Next]_vars => [MutualWait => MutualWait' \/ ~connected']_vars
    BY WaitStands
  <1>2. DesktopInv /\ [DesktopNext]_desktopVars => [Frozen => Frozen']_desktopVars
    BY CircleLasts
  <1>3. WaitsSpec => [](TypeOK /\ DesktopInv)
    BY PartsInit, PartsStep, StepType, DesktopStep, PTL DEF WaitsSpec
  <1>4. WaitsSpec => [][Next]_vars /\ [][DesktopNext]_desktopVars
    BY PartsStep, PTL DEF WaitsSpec
  <1> QED BY <1>1, <1>2, <1>3, <1>4, PTL DEF StandsStill, FrozenForGood
================================================================================
