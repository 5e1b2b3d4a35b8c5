----------------------------- MODULE MCChildAgent -----------------------------
(* TLC instances of ChildAgent, and history variables that tell whether calls   *)
(* of start took turns with each other and with calls of stop.                  *)
EXTENDS ChildAgent

VARIABLES overlapped,   \* two calls of start were under way at once
          hurried       \* stop was called while a call of start was under way

TurnsInit == Init /\ overlapped = FALSE /\ hurried = FALSE

TurnsNext ==
    /\ Next
    /\ overlapped' = (overlapped \/ \E s, t \in Starts : s # t /\ Starting(s)' /\ Starting(t)')
    /\ hurried' = (hurried \/ ((StopTakes \/ DesktopStopTakes) /\ \E s \in Starts : Starting(s)))

TurnsSpec == TurnsInit /\ [][TurnsNext]_<<vars, overlapped, hurried>> /\ Fairness

\* start refuses while a process runs (main.go:153), but looks at app.proc in
\* one critical section and sets it in another.  As long as calls of start take
\* turns, that keeps every process within reach of stop.
NoOrphanInTurns == ~overlapped => NoOrphan

\* An agent that nobody stopped is shown as interrupted when it ends, though the
\* launcher goes by the status it shows and the desktop program by a flag that the
\* exit of an earlier agent may clear or leave; only a stop in the middle of a start
\* is kept for the next exit.
UnaskedExitIsShown == [][~hurried => ClearingShows]_vars
================================================================================
