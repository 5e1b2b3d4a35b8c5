--------------------------- MODULE ChildAgentProofs ---------------------------
(* What holds of the launcher and of the desktop program for any number of      *)
(* calls of start and stop.                                                     *)
EXTENDS MCChildAgent, SequenceTheorems, TLAPS

\* The inductive invariant: what app.proc holds is being watched.
IInv == TypeOK /\ HeldIsWatched

\* Calls of start take turns: at most one is between its two critical sections.
OneStarts == \A s, t \in Starts : Starting(s) /\ Starting(t) => s = t

\* What taking turns adds: a call of start that passed its check finds app.proc
\* as it left it.
TurnsInv == IInv /\ NoOrphan /\ \A s \in Starts : Starting(s) => proc = None

\* A call of stop takes turns with calls of start.
StopWaits == StopTakes \/ DesktopStopTakes => \A s \in Starts : ~Starting(s)

\* What that adds: while an agent is held, or about to be, nothing that stop left
\* behind is there to be mistaken for a call that asked for its end.
UnstoppedInv ==
    /\ IInv
    /\ program = "launcher" => ~stopping
    /\ program = "desktop" => status # "stopped"
    /\ proc # None \/ (\E s \in Starts : Starting(s)) => ~stopping /\ status # "stopped"

\* The unread lines of a process are lines, and within the bound.
LinesOK ==
    /\ lines \in [Starts -> Seq(LineKinds)]
    /\ \A s \in Starts : Len(lines[s]) <= MaxLines

\* Before the first start all three hold.
LEMMA Initially == Init => TurnsInv /\ UnstoppedInv
<1> SUFFICES ASSUME Init PROVE TurnsInv /\ UnstoppedInv
  OBVIOUS
<1>1. LinesOK
  <2>1. <<>> \in Seq(LineKinds) /\ Len(<<>>) = 0 /\ 0 <= MaxLines
    BY ChildAssumption
  <2> QED
    BY <2>1 DEF Init, LinesOK
<1>2. TypeOK
  BY <1>1 DEF Init, TypeOK, LinesOK
<1>3. HeldIsWatched /\ NoOrphan
  BY DEF Init, HeldIsWatched, NoOrphan
<1>4. \A s \in Starts : ~Starting(s)
  BY DEF Init, Starting
<1>5. ~stopping /\ status = "not started"
  BY DEF Init
<1> QED
  BY <1>2, <1>3, <1>4, <1>5 DEF TurnsInv, UnstoppedInv, IInv

\* The reader takes lines from the front, the closing of a pipe cuts some off at the
\* end, and the agent adds one where there is room.
LEMMA LinesStayBounded ==
  ASSUME LinesOK, NEW s \in Starts,
         \/ ReadLine(s) \/ DesktopReadLine(s)
         \/ WaitExit(s) \/ DesktopWaitExit(s)
         \/ Report(s)
  PROVE  LinesOK'
<1> DEFINE Fits(q) == q \in Seq(LineKinds) /\ Len(q) <= MaxLines
<1>0. MaxLines \in Nat /\ Fits(lines[s]) /\ Len(lines[s]) \in Nat
  BY ChildAssumption DEF LinesOK
<1>1. SUFFICES ASSUME NEW q, Fits(q), lines' = [lines EXCEPT ![s] = q]
               PROVE  LinesOK'
  <2>1. CASE ReadLine(s) \/ DesktopReadLine(s)
    <3>1. lines[s] # <<>> /\ lines' = [lines EXCEPT ![s] = Tail(lines[s])]
      BY <2>1 DEF ReadLine, DesktopReadLine, CanRead
    <3>2. Fits(Tail(lines[s]))
      BY <1>0, <3>1, HeadTailProperties
    <3> QED
      BY <1>1, <3>1, <3>2
  <2>2. CASE WaitExit(s) \/ DesktopWaitExit(s)
    <3>1. PICK n \in 0..Len(lines[s]) :
             lines' = [lines EXCEPT ![s] = SubSeq(lines[s], 1, n)]
      BY <2>2 DEF WaitExit, DesktopWaitExit, ExitSeen
    <3>2. \A i \in 1..n : lines[s][i] \in LineKinds
      BY <1>0
    <3>3. /\ SubSeq(lines[s], 1, n) \in Seq(LineKinds)
          /\ Len(SubSeq(lines[s], 1, n)) = IF 1 <= n THEN n - 1 + 1 ELSE 0
      BY <1>0, <3>2, SubSeqProperties
    <3>4. Fits(SubSeq(lines[s], 1, n))
      BY <1>0, <3>3
    <3> QED
      BY <1>1, <3>1, <3>4
  <2>3. CASE Report(s)
    <3>1. PICK line \in LineKinds :
             lines' = [lines EXCEPT ![s] = Append(lines[s], line)]
      BY <2>3 DEF Report
    <3>2. Len(lines[s]) < MaxLines
      BY <2>3 DEF Report
    <3>3. Fits(Append(lines[s], line))
      BY <1>0, <3>2
    <3> QED
      BY <1>1, <3>1, <3>3
  <2> QED
    BY <2>1, <2>2, <2>3
<1> QED
  BY <1>1 DEF LinesOK

\* Every step keeps the types and what app.proc holds watched.
LEMMA StepKeepsIInv == IInv /\ [Next]_vars => IInv'
<1> SUFFICES ASSUME IInv, [Next]_vars PROVE IInv'
  OBVIOUS
<1>L. LinesOK
  BY DEF IInv, TypeOK, LinesOK
<1> USE ChildAssumption DEF IInv, TypeOK, HeldIsWatched, Goto
<1>1. ASSUME NEW s \in Starts, StartChecks(s) PROVE IInv'
  BY <1>1 DEF StartChecks
<1>2. ASSUME NEW s \in Starts, DesktopStartChecks(s) PROVE IInv'
  BY <1>2 DEF DesktopStartChecks
<1>3. ASSUME NEW s \in Starts, StartFails(s) PROVE IInv'
  BY <1>3 DEF StartFails
<1>4. ASSUME NEW s \in Starts, Spawn(s) PROVE IInv'
  BY <1>4 DEF Spawn
<1>5. ASSUME NEW s \in Starts, StoreProc(s) PROVE IInv'
  BY <1>5 DEF StoreProc
<1>6. ASSUME StopTakes PROVE IInv'
  BY <1>6 DEF StopTakes
<1>7. ASSUME DesktopStopTakes PROVE IInv'
  BY <1>7 DEF DesktopStopTakes
<1>8. ASSUME NEW s \in Starts, Kill(s) PROVE IInv'
  BY <1>8 DEF Kill
<1>9. ASSUME NEW s \in Starts, ReadLine(s) PROVE IInv'
  <2>1. LinesOK'
    BY <1>9, <1>L, LinesStayBounded
  <2> QED
    BY <1>9, <2>1 DEF ReadLine, CanRead, LinesOK
<1>10. ASSUME NEW s \in Starts, DesktopReadLine(s) PROVE IInv'
  <2>1. LinesOK'
    BY <1>10, <1>L, LinesStayBounded
  <2> QED
    BY <1>10, <2>1 DEF DesktopReadLine, DesktopStatus, CanRead, LinesOK
<1>11. ASSUME NEW s \in Starts, WaitExit(s) PROVE IInv'
  <2>1. LinesOK'
    BY <1>11, <1>L, LinesStayBounded
  <2> QED
    BY <1>11, <2>1 DEF WaitExit, ExitSeen, LinesOK
<1>12. ASSUME NEW s \in Starts, DesktopWaitExit(s) PROVE IInv'
  <2>1. LinesOK'
    BY <1>12, <1>L, LinesStayBounded
  <2> QED
    BY <1>12, <2>1 DEF DesktopWaitExit, ExitSeen, LinesOK
<1>13. ASSUME NEW s \in Starts, Report(s) PROVE IInv'
  <2>1. LinesOK'
    BY <1>13, <1>L, LinesStayBounded
  <2> QED
    BY <1>13, <2>1 DEF Report, LinesOK
<1>14. ASSUME NEW s \in Starts, AgentEnds(s) PROVE IInv'
  BY <1>14 DEF AgentEnds
<1>15. CASE UNCHANGED vars
  BY <1>15 DEF vars
<1> QED
  BY <1>1, <1>2, <1>3, <1>4, <1>5, <1>6, <1>7, <1>8, <1>9, <1>10, <1>11, <1>12,
     <1>13, <1>14, <1>15 DEF Next

\* Both ends of start matter here: the check finds nobody else on the way, and the
\* store overwrites nothing.
LEMMA StepKeepsTurns == TurnsInv /\ OneStarts /\ OneStarts' /\ [Next]_vars => TurnsInv'
<1> SUFFICES ASSUME TurnsInv, OneStarts, OneStarts', [Next]_vars PROVE TurnsInv'
  OBVIOUS
<1>0. IInv /\ IInv'
  BY StepKeepsIInv DEF TurnsInv
<1> SUFFICES NoOrphan' /\ \A s \in Starts : Starting(s)' => proc' = None
  BY <1>0 DEF TurnsInv
<1> DEFINE Turns == NoOrphan /\ \A s \in Starts : Starting(s) => proc = None
<1>T. Turns /\ IInv /\ IInv'
  BY <1>0 DEF TurnsInv
<1> USE <1>T DEF IInv, TypeOK, HeldIsWatched, NoOrphan, Starting, OneStarts, Goto
<1>1. ASSUME NEW s \in Starts, StartChecks(s) PROVE Turns'
  BY <1>1 DEF StartChecks
<1>2. ASSUME NEW s \in Starts, DesktopStartChecks(s) PROVE Turns'
  BY <1>2 DEF DesktopStartChecks
<1>3. ASSUME NEW s \in Starts, StartFails(s) PROVE Turns'
  BY <1>3 DEF StartFails
<1>4. ASSUME NEW s \in Starts, Spawn(s) PROVE Turns'
  BY <1>4 DEF Spawn
<1>5. ASSUME NEW s \in Starts, StoreProc(s) PROVE Turns'
  <2>1. proc = None /\ \A t \in Starts \ {s} : ~Starting(t)
    BY <1>5 DEF StoreProc
  <2>2. proc' = s /\ alive' = alive /\ toKill' = toKill
    BY <1>5 DEF StoreProc
  <2>3. pc'[s] = "watched" /\ \A t \in Starts \ {s} : pc'[t] = pc[t]
    BY <1>5 DEF StoreProc
  <2>4. None \notin alive
    BY ChildAssumption
  <2> QED
    BY <2>1, <2>2, <2>3, <2>4
<1>6. ASSUME StopTakes PROVE Turns'
  BY <1>6 DEF StopTakes
<1>7. ASSUME DesktopStopTakes PROVE Turns'
  BY <1>7 DEF DesktopStopTakes
<1>8. ASSUME NEW s \in Starts, Kill(s) PROVE Turns'
  BY <1>8 DEF Kill
<1>9. ASSUME NEW s \in Starts, ReadLine(s) PROVE Turns'
  BY <1>9 DEF ReadLine, CanRead
<1>10. ASSUME NEW s \in Starts, DesktopReadLine(s) PROVE Turns'
  BY <1>10 DEF DesktopReadLine, CanRead, DesktopStatus
<1>11. ASSUME NEW s \in Starts, WaitExit(s) PROVE Turns'
  BY <1>11 DEF WaitExit, ExitSeen
<1>12. ASSUME NEW s \in Starts, DesktopWaitExit(s) PROVE Turns'
  BY <1>12 DEF DesktopWaitExit, ExitSeen
<1>13. ASSUME NEW s \in Starts, Report(s) PROVE Turns'
  BY <1>13 DEF Report
<1>14. ASSUME NEW s \in Starts, AgentEnds(s) PROVE Turns'
  BY <1>14 DEF AgentEnds
<1>15. CASE UNCHANGED vars
  BY <1>15 DEF vars
<1> QED
  BY <1>1, <1>2, <1>3, <1>4, <1>5, <1>6, <1>7, <1>8, <1>9, <1>10, <1>11, <1>12,
     <1>13, <1>14, <1>15 DEF Next

\* A start forgets the last stop, and no stop comes before the agent is held: what
\* the exit of an earlier agent does to the flag or to the status is then harmless.
LEMMA StepKeepsUnstopped == UnstoppedInv /\ [Next]_vars /\ [StopWaits]_vars => UnstoppedInv'
<1> SUFFICES ASSUME UnstoppedInv, [Next]_vars, [StopWaits]_vars PROVE UnstoppedInv'
  OBVIOUS
<1>0. IInv /\ IInv'
  BY StepKeepsIInv DEF UnstoppedInv
<1> DEFINE Unstopped ==
      /\ program = "launcher" => ~stopping
      /\ program = "desktop" => status # "stopped"
      /\ proc # None \/ (\E s \in Starts : Starting(s)) => ~stopping /\ status # "stopped"
<1> SUFFICES Unstopped'
  BY <1>0 DEF UnstoppedInv
<1>T. Unstopped /\ IInv
  BY DEF UnstoppedInv
<1> USE <1>T DEF IInv, TypeOK, Starting, Goto
<1>1. ASSUME NEW s \in Starts, StartChecks(s) PROVE Unstopped'
  BY <1>1 DEF StartChecks
<1>2. ASSUME NEW s \in Starts, DesktopStartChecks(s) PROVE Unstopped'
  BY <1>2 DEF DesktopStartChecks
<1>3. ASSUME NEW s \in Starts, StartFails(s) PROVE Unstopped'
  BY <1>3 DEF StartFails
<1>4. ASSUME NEW s \in Starts, Spawn(s) PROVE Unstopped'
  BY <1>4 DEF Spawn
<1>5. ASSUME NEW s \in Starts, StoreProc(s) PROVE Unstopped'
  BY <1>5 DEF StoreProc
<1>6. ASSUME StopTakes PROVE Unstopped'
  <2>1. CASE UNCHANGED vars
    BY <2>1 DEF vars
  <2>2. CASE StopWaits
    <3>1. \A t \in Starts : ~Starting(t)
      BY <1>6, <2>2 DEF StopWaits
    <3>2. proc' = None /\ pc' = pc /\ program' = program
      BY <1>6 DEF StopTakes
    <3> QED
      BY <1>6, <3>1, <3>2 DEF StopTakes
  <2> QED
    BY <2>1, <2>2
<1>7. ASSUME DesktopStopTakes PROVE Unstopped'
  <2>1. CASE UNCHANGED vars
    BY <2>1 DEF vars
  <2>2. CASE StopWaits
    <3>1. \A t \in Starts : ~Starting(t)
      BY <1>7, <2>2 DEF StopWaits
    <3>2. proc' = None /\ pc' = pc /\ program' = program
      BY <1>7 DEF DesktopStopTakes
    <3> QED
      BY <1>7, <3>1, <3>2 DEF DesktopStopTakes
  <2> QED
    BY <2>1, <2>2
<1>8. ASSUME NEW s \in Starts, Kill(s) PROVE Unstopped'
  BY <1>8 DEF Kill
<1>9. ASSUME NEW s \in Starts, ReadLine(s) PROVE Unstopped'
  BY <1>9 DEF ReadLine, CanRead
<1>10. ASSUME NEW s \in Starts, DesktopReadLine(s) PROVE Unstopped'
  BY <1>10 DEF DesktopReadLine, CanRead, DesktopStatus
<1>11. ASSUME NEW s \in Starts, WaitExit(s) PROVE Unstopped'
  BY <1>11 DEF WaitExit, ExitSeen
<1>12. ASSUME NEW s \in Starts, DesktopWaitExit(s) PROVE Unstopped'
  BY <1>12 DEF DesktopWaitExit, ExitSeen
<1>13. ASSUME NEW s \in Starts, Report(s) PROVE Unstopped'
  BY <1>13 DEF Report
<1>14. ASSUME NEW s \in Starts, AgentEnds(s) PROVE Unstopped'
  BY <1>14 DEF AgentEnds
<1>15. CASE UNCHANGED vars
  BY <1>15 DEF vars
<1> QED
  BY <1>1, <1>2, <1>3, <1>4, <1>5, <1>6, <1>7, <1>8, <1>9, <1>10, <1>11, <1>12,
     <1>13, <1>14, <1>15 DEF Next

\* Whoever clears app.proc without a stop shows the loss.
LEMMA ClearingStep == UnstoppedInv /\ [Next]_vars => ClearingShows
<1> SUFFICES ASSUME UnstoppedInv, [Next]_vars, NEW s \in Starts,
                    proc = s, proc' = None, s \notin toKill'
             PROVE  status' = "interrupted"
  BY DEF ClearingShows
<1>1. s # None /\ ~stopping /\ status # "stopped"
  BY ChildAssumption DEF UnstoppedInv
<1>2. ~StopTakes /\ ~DesktopStopTakes
  BY <1>1 DEF StopTakes, DesktopStopTakes
<1>3. PICK t \in Starts : WaitExit(t) \/ DesktopWaitExit(t)
  BY <1>1, <1>2, ChildAssumption
     DEF Next, StartChecks, DesktopStartChecks, StartFails, Spawn, StoreProc, Kill,
         ReadLine, DesktopReadLine, Report, AgentEnds, vars
<1> QED
  BY <1>1, <1>3 DEF WaitExit, DesktopWaitExit

\* The state of either program is well typed, and only processes whose goroutines
\* have been started run or are killed.
THEOREM TypeCorrect == Spec => []TypeOK
<1>1. Init => IInv
  BY Initially DEF TurnsInv
<1>2. IInv => TypeOK
  BY DEF IInv
<1> QED
  BY <1>1, <1>2, StepKeepsIInv, PTL DEF Spec

\* However calls of start and stop, exits and output interleave, app.proc never
\* holds a process that nobody waits for: start is not refused for good.
THEOREM HeldAlwaysWatched == Spec => []HeldIsWatched
<1>1. Init => IInv
  BY Initially DEF TurnsInv
<1>2. IInv => HeldIsWatched
  BY DEF IInv
<1> QED
  BY <1>1, <1>2, StepKeepsIInv, PTL DEF Spec

-------------------------------------------------------------------------------
(* The history of a behaviour: did calls take turns so far? *)

HistoryInv ==
    /\ ~overlapped => OneStarts /\ TurnsInv
    /\ ~hurried => UnstoppedInv

\* A step whose calls took turns is one of those above.
LEMMA HistoryStep ==
  ASSUME HistoryInv, TurnsNext
  PROVE  HistoryInv' /\ (~hurried => ClearingShows)
<1>1. [Next]_vars
  BY DEF TurnsNext
<1>2. ~overlapped' => ~overlapped /\ OneStarts'
  BY DEF TurnsNext, OneStarts
<1>3. ~hurried' => ~hurried /\ StopWaits
  BY DEF TurnsNext, StopWaits
<1>4. ~overlapped' => TurnsInv'
  BY <1>1, <1>2, StepKeepsTurns DEF HistoryInv
<1>5. ~hurried' => UnstoppedInv'
  BY <1>1, <1>3, StepKeepsUnstopped DEF HistoryInv
<1>6. ~hurried => ClearingShows
  BY <1>1, ClearingStep DEF HistoryInv
<1> QED
  BY <1>2, <1>4, <1>5, <1>6 DEF HistoryInv

\* Stuttering changes neither.
LEMMA HistoryStutters == HistoryInv /\ UNCHANGED <<vars, overlapped, hurried>> => HistoryInv'
<1> SUFFICES ASSUME HistoryInv, UNCHANGED <<vars, overlapped, hurried>> PROVE HistoryInv'
  OBVIOUS
<1>1. OneStarts => OneStarts'
  BY DEF vars, OneStarts, Starting
<1>2. ~overlapped => TurnsInv'
  BY <1>1, StepKeepsTurns DEF HistoryInv
<1>3. ~hurried => UnstoppedInv'
  BY StepKeepsUnstopped DEF HistoryInv
<1> QED
  BY <1>1, <1>2, <1>3 DEF HistoryInv

\* It holds from the beginning on.
LEMMA HistoryInvariance == TurnsSpec => []HistoryInv
<1>1. TurnsInit => HistoryInv
  <2> SUFFICES ASSUME TurnsInit PROVE HistoryInv
    OBVIOUS
  <2>1. Init /\ TurnsInv /\ UnstoppedInv
    BY Initially DEF TurnsInit
  <2>2. OneStarts
    BY <2>1 DEF Init, OneStarts, Starting
  <2> QED
    BY <2>1, <2>2 DEF HistoryInv
<1>2. HistoryInv /\ [TurnsNext]_<<vars, overlapped, hurried>> => HistoryInv'
  BY HistoryStep, HistoryStutters
<1> QED
  BY <1>1, <1>2, PTL DEF TurnsSpec

\* As long as no two calls of start were between their critical sections at once, stop
\* can reach every process that runs (main.go:153).
THEOREM NoOrphanIfOneStarts == TurnsSpec => []NoOrphanInTurns
<1>1. HistoryInv => NoOrphanInTurns
  BY DEF HistoryInv, TurnsInv, NoOrphanInTurns
<1> QED
  BY <1>1, HistoryInvariance, PTL

\* As long as no stop came in the middle of a start, an agent that ends without being
\* stopped is shown as interrupted, whatever earlier agents, their exits and their
\* output do.
THEOREM LossIsShown == TurnsSpec => UnaskedExitIsShown
<1>1. HistoryInv /\ [TurnsNext]_<<vars, overlapped, hurried>>
        => [~hurried => ClearingShows]_vars
  BY HistoryStep DEF vars
<1> QED
  BY <1>1, HistoryInvariance, PTL DEF TurnsSpec, UnaskedExitIsShown
================================================================================
