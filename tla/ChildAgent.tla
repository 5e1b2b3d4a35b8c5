------------------------------ MODULE ChildAgent ------------------------------
(* The two programs that run tunnel-agent as a child process: the browser       *)
(* launcher (cmd/tunnel-launcher/main.go) and the Windows desktop program       *)
(* (cmd/tunnel-desktop/main.go).  Their handlers call start and stop from       *)
(* goroutines of their own; each process that was started has goroutines that   *)
(* read its output and wait for its exit.  A call of start is named by the      *)
(* process it makes.  The programs share most of the code; where they differ,   *)
(* each has an action of its own.                                               *)
EXTENDS Naturals, Sequences

CONSTANTS Starts,      \* calls of start, and the processes they make
          None,        \* no process
          MaxLines     \* bound: unread lines of a process

ASSUME ChildAssumption ==
    None \notin Starts /\ MaxLines \in Nat \ {0}

\* What the agent prints: the proxy ID of its state file when it starts, the same ID
\* at every registration and every pong, and that it lost the relay.
LineKinds == {"history", "up", "down"}

VARIABLES program,     \* which of the two programs this is
          pc,          \* where the call of start and its goroutines are
          alive,       \* processes that run
          silent,      \* processes that have printed nothing yet
          lines,       \* unread lines of each process
          toKill,      \* processes that a call of stop is about to kill
          proc,        \* app.proc
          stopping,    \* desktopApp.stopping
          status       \* app.status

vars == <<program, pc, alive, silent, lines, toKill, proc, stopping, status>>

Init ==
    /\ program \in {"launcher", "desktop"}
    /\ pc = [s \in Starts |-> "idle"]
    /\ alive = {}
    /\ silent = Starts
    /\ lines = [s \in Starts |-> <<>>]
    /\ toKill = {}
    /\ proc = None
    /\ stopping = FALSE
    /\ status = "not started"

Goto(s, point) == pc' = [pc EXCEPT ![s] = point]

-------------------------------------------------------------------------------
\* start: refused while app.proc is set.
StartChecks(s) ==
    /\ program = "launcher"
    /\ pc[s] = "idle"
    /\ proc = None
    /\ status' = "starting"
    /\ Goto(s, "checked")
    /\ UNCHANGED <<program, alive, silent, lines, toKill, proc, stopping>>

\* MUTANT: a stop that found no process still counts when the next one ends.
DesktopStartChecksKeepsStopping(s) ==
    /\ program = "desktop"
    /\ pc[s] = "idle"
    /\ proc = None
    /\ status' = "starting"
    /\ Goto(s, "checked")
    /\ UNCHANGED <<program, alive, silent, lines, toKill, proc, stopping>>

\* The desktop program forgets that stop was called.
DesktopStartChecks(s) ==
    /\ program = "desktop"
    /\ pc[s] = "idle"
    /\ proc = None
    /\ status' = "starting"
    /\ stopping' = FALSE
    /\ Goto(s, "checked")
    /\ UNCHANGED <<program, alive, silent, lines, toKill, proc>>

\* MUTANT: an error after cmd.Start, and the process is left to itself.
StartFailsLate(s) ==
    /\ pc[s] \in {"checked", "spawned"}
    /\ status' = "failed"
    /\ Goto(s, "over")
    /\ UNCHANGED <<program, alive, silent, lines, toKill, proc, stopping>>

\* No executable, no pipe or no process: setStatus, in a critical section of its own.
StartFails(s) ==
    /\ pc[s] = "checked"
    /\ status' = "failed"
    /\ Goto(s, "over")
    /\ UNCHANGED <<program, alive, silent, lines, toKill, proc, stopping>>

\* cmd.Start: the process runs before app.proc holds it.
Spawn(s) ==
    /\ pc[s] = "checked"
    /\ alive' = alive \cup {s}
    /\ Goto(s, "spawned")
    /\ UNCHANGED <<program, silent, lines, toKill, proc, stopping, status>>

\* start stores the process, then starts the goroutines that watch it.
StoreProc(s) ==
    /\ pc[s] = "spawned"
    /\ proc' = s
    /\ Goto(s, "watched")
    /\ UNCHANGED <<program, alive, silent, lines, toKill, stopping, status>>

\* stop: takes the process out of app.proc, and kills it after the unlock.
StopTakes ==
    /\ program = "launcher"
    /\ proc' = None
    /\ status' = "stopped"
    /\ toKill' = toKill \cup ({proc} \ {None})
    /\ UNCHANGED <<program, pc, alive, silent, lines, stopping>>

\* The desktop program shows that it is ready to start again, and remembers the stop.
DesktopStopTakes ==
    /\ program = "desktop"
    /\ proc' = None
    /\ stopping' = TRUE
    /\ status' = "not started"
    /\ toKill' = toKill \cup ({proc} \ {None})
    /\ UNCHANGED <<program, pc, alive, silent, lines>>

Kill(s) ==
    /\ s \in toKill
    /\ toKill' = toKill \ {s}
    /\ alive' = alive \ {s}
    /\ UNCHANGED <<program, pc, silent, lines, proc, stopping, status>>

-------------------------------------------------------------------------------
CanRead(s) == pc[s] \in {"watched", "over"} /\ lines[s] # <<>>

\* readPipe: a line with a proxy ID means that the proxy is up, whoever wrote it.
ReadLine(s) ==
    /\ program = "launcher"
    /\ CanRead(s)
    /\ lines' = [lines EXCEPT ![s] = Tail(@)]
    /\ status' = IF Head(lines[s]) = "down" THEN status ELSE "started"
    /\ UNCHANGED <<program, pc, alive, silent, toKill, proc, stopping>>

\* The desktop program also looks for the words of the line; an ID alone does not end
\* an interruption.
DesktopStatus(line) ==
    IF line = "down" \/ (line = "history" /\ status = "interrupted")
    THEN "interrupted"
    ELSE "started"

DesktopReadLine(s) ==
    /\ program = "desktop"
    /\ CanRead(s)
    /\ lines' = [lines EXCEPT ![s] = Tail(@)]
    /\ status' = DesktopStatus(Head(lines[s]))
    /\ UNCHANGED <<program, pc, alive, silent, toKill, proc, stopping>>

\* cmd.Wait returns and closes the pipes; what the scanner has already taken from
\* them it still delivers.
ExitSeen(s) ==
    /\ pc[s] = "watched"
    /\ s \notin alive
    /\ \E n \in 0..Len(lines[s]) : lines' = [lines EXCEPT ![s] = SubSeq(@, 1, n)]
    /\ Goto(s, "over")
    /\ UNCHANGED <<program, alive, silent, toKill>>

\* MUTANT: only stop clears app.proc.
WaitExitKeepsProc(s) ==
    /\ program = "launcher"
    /\ ExitSeen(s)
    /\ status' = IF proc = s /\ status # "stopped" THEN "interrupted" ELSE status
    /\ UNCHANGED <<proc, stopping>>

WaitExit(s) ==
    /\ program = "launcher"
    /\ ExitSeen(s)
    /\ proc' = IF proc = s THEN None ELSE proc
    /\ status' = IF proc = s /\ status # "stopped" THEN "interrupted" ELSE status
    /\ UNCHANGED stopping

\* MUTANT: any exit clears app.proc.
DesktopWaitExitClears(s) ==
    /\ program = "desktop"
    /\ ExitSeen(s)
    /\ proc' = None
    /\ status' = IF stopping THEN status ELSE "interrupted"
    /\ stopping' = FALSE

\* The desktop program asks whether stop was called, not whose exit this is.
DesktopWaitExit(s) ==
    /\ program = "desktop"
    /\ ExitSeen(s)
    /\ proc' = IF proc = s THEN None ELSE proc
    /\ status' = IF stopping THEN status ELSE "interrupted"
    /\ stopping' = FALSE

-------------------------------------------------------------------------------
\* The agent prints a line, or ends on its own.  What is in its state file it prints
\* before anything else.
Report(s) ==
    /\ s \in alive
    /\ Len(lines[s]) < MaxLines
    /\ \E line \in LineKinds :
          /\ line = "history" => s \in silent
          /\ lines' = [lines EXCEPT ![s] = Append(@, line)]
    /\ silent' = silent \ {s}
    /\ UNCHANGED <<program, pc, alive, toKill, proc, stopping, status>>

AgentEnds(s) ==
    /\ s \in alive
    /\ alive' = alive \ {s}
    /\ UNCHANGED <<program, pc, silent, lines, toKill, proc, stopping, status>>

Next ==
    \/ \E s \in Starts :
          \/ StartChecks(s) \/ DesktopStartChecks(s)
          \/ StartFails(s) \/ Spawn(s) \/ StoreProc(s)
          \/ Kill(s)
          \/ ReadLine(s) \/ DesktopReadLine(s)
          \/ WaitExit(s) \/ DesktopWaitExit(s)
          \/ Report(s) \/ AgentEnds(s)
    \/ StopTakes \/ DesktopStopTakes

\* The goroutines of a process and of a call that has begun do not stop half-way;
\* nobody has to call start or stop, and an agent may run forever.  That is so of the
\* launcher, whose lock is held over no call that waits.  In the desktop program all
\* but the kill needs a lock that may never come back (FreezeIsForGood in
\* DesktopLock), so nothing else of it is promised here.
Fairness ==
    \A s \in Starts :
        /\ WF_vars(program = "launcher" /\ (StartFails(s) \/ Spawn(s)))
        /\ WF_vars(program = "launcher" /\ StoreProc(s))
        /\ WF_vars(Kill(s))
        /\ WF_vars(ReadLine(s))
        /\ WF_vars(WaitExit(s))

\* The premise that the desktop program is not frozen: a goroutine of waitExit gets
\* the lock.
DesktopLockComesBack == \A s \in Starts : WF_vars(DesktopWaitExit(s))

Spec == Init /\ [][Next]_vars /\ Fairness

-------------------------------------------------------------------------------
\* The types, and that only a process whose goroutines have been started is killed.
TypeOK ==
    /\ program \in {"launcher", "desktop"}
    /\ pc \in [Starts -> {"idle", "checked", "spawned", "watched", "over"}]
    /\ alive \subseteq Starts
    /\ silent \subseteq Starts
    /\ lines \in [Starts -> Seq(LineKinds)]
    /\ \A s \in Starts : Len(lines[s]) <= MaxLines
    /\ toKill \subseteq Starts
    /\ proc \in Starts \cup {None}
    /\ stopping \in BOOLEAN
    /\ status \in {"not started", "starting", "failed", "started", "interrupted", "stopped"}
    /\ \A s \in alive : pc[s] \in {"spawned", "watched"}
    /\ \A s \in toKill : pc[s] \in {"watched", "over"}

\* app.proc is never a process that nobody waits for any more: start would be
\* refused until somebody calls stop (main.go:153).
HeldIsWatched == proc # None => pc[proc] = "watched"

\* A process that runs is in app.proc, or a call is about to put it there or to
\* kill it: there is none that stop cannot reach.
NoOrphan == \A s \in alive : s = proc \/ pc[s] = "spawned" \/ s \in toKill

\* A call of start is between its two critical sections.
Starting(s) == pc[s] \in {"checked", "spawned"}

\* A step that clears app.proc is a call of stop, or shows that the agent was lost.
ClearingShows ==
    \A s \in Starts : proc = s /\ proc' = None /\ s \notin toKill' => status' = "interrupted"

================================================================================
