------------------------------ MODULE DesktopLock ------------------------------
(* Who waits for whom in the Windows desktop program                            *)
(* (cmd/tunnel-desktop/main.go): desktopApp.mu, a sync.RWMutex, and the window,  *)
(* which answers only while its thread is in the message loop.  The window       *)
(* thread takes the lock for reading when it paints, copies and refreshes; start, *)
(* stop, waitExit, test, checkUpdate and readPipe run in goroutines and take it   *)
(* for one short section after another.  What they do to the status, the process  *)
(* and the proxy ID is in ChildAgent.                                            *)
EXTENDS Naturals

CONSTANTS Workers,    \* goroutines
          Nobody

ASSUME WorkersAssumption == Nobody \notin Workers

VARIABLES
    worker,     \* where a goroutine is
    window,     \* where the window thread is
    writer      \* who has the lock for writing, or waits for its readers only

desktopVars == <<worker, window, writer>>

\* A goroutine is between two sections, or it waits for its turn to write, has
\* announced itself and waits for the readers, has the lock, asks the window for a
\* text with the lock, waits to read, reads.
WorkerPoints == {"idle", "queued", "queuedToAsk", "announced", "announcedToAsk", "writing",
                 "asking", "waiting", "reading"}

\* The window thread is in the message loop, waits to read, reads once; or, in
\* snapshot, waits, reads, waits to read for the second time in statusLink, reads
\* twice.
WindowPoints == {"loop", "waits", "reads", "snapshotWaits", "snapshotReads", "nestedWaits",
                 "nestedReads"}

DesktopInit ==
    /\ worker = [g \in Workers |-> "idle"]
    /\ window = "loop"
    /\ writer = Nobody

-------------------------------------------------------------------------------
(* sync.RWMutex *)

\* Readers that the writer has to wait for.
WindowReads == window \in {"reads", "snapshotReads", "nestedWaits", "nestedReads"}
Reading(g) == worker[g] = "reading"
NoReaders == ~WindowReads /\ \A g \in Workers : ~Reading(g)

Goto(g, point) == worker' = [worker EXCEPT ![g] = point]

\* A writer that has announced itself keeps new readers out.
ReaderGets(granted, waits) == IF writer = Nobody THEN granted ELSE waits

\* Lock: a turn among the writers, then the readers have to leave.
Announce(g) ==
    /\ worker[g] \in {"queued", "queuedToAsk"}
    /\ writer = Nobody
    /\ writer' = g
    /\ Goto(g, IF worker[g] = "queued" THEN "announced" ELSE "announcedToAsk")
    /\ UNCHANGED window

Acquire(g) ==
    /\ worker[g] \in {"announced", "announcedToAsk"}
    /\ NoReaders
    /\ Goto(g, IF worker[g] = "announced" THEN "writing" ELSE "asking")
    /\ UNCHANGED <<window, writer>>

\* Unlock lets in the readers that wait, before any other writer.
Unlocked(g) ==
    /\ writer' = Nobody
    /\ worker' = [w \in Workers |->
                    IF w = g THEN "idle"
                    ELSE IF worker[w] = "waiting" THEN "reading" ELSE worker[w]]
    /\ window' = CASE window = "waits" -> "reads"
                   [] window = "snapshotWaits" -> "snapshotReads"
                   [] window = "nestedWaits" -> "nestedReads"
                   [] OTHER -> window

-------------------------------------------------------------------------------
(* The goroutines *)

\* Every write section but the first of start: stop, waitExit, setStatus, log, the
\* results of test and checkUpdate, the lines of readPipe.
WriteSection(g) ==
    /\ worker[g] = "idle"
    /\ Goto(g, "queued")
    /\ UNCHANGED <<window, writer>>

\* MUTANT: stop waits with the lock until the process has ended.
UnlockAfterExit(g) == worker[g] = "writing" /\ UNCHANGED desktopVars

Unlock(g) == worker[g] = "writing" /\ Unlocked(g)

\* The first section of start, if it is not refused at once.
StartSection(g) ==
    /\ worker[g] = "idle"
    /\ Goto(g, "queuedToAsk")
    /\ UNCHANGED <<window, writer>>

\* windowText is a message to the window: its thread answers in the message loop.
WindowAnswers(g) ==
    /\ worker[g] = "asking"
    /\ window = "loop"
    /\ Goto(g, "writing")
    /\ UNCHANGED <<window, writer>>

\* test reads the proxy ID.
TestReads(g) ==
    /\ worker[g] = "idle"
    /\ Goto(g, ReaderGets("reading", "waiting"))
    /\ UNCHANGED <<window, writer>>

TestHasRead(g) ==
    /\ Reading(g)
    /\ Goto(g, "idle")
    /\ UNCHANGED <<window, writer>>

-------------------------------------------------------------------------------
(* The window thread *)

WindowTo(point) == window' = point /\ UNCHANGED <<worker, writer>>

\* Painting asks for currentStatus, the buttons for currentProxyID and statusLink.
WindowAsks == window = "loop" /\ WindowTo(ReaderGets("reads", "waits"))

WindowReturns == window = "reads" /\ WindowTo("loop")

\* The timer: syncFromApp takes a snapshot, and snapshot asks for the statusLink
\* with the lock.
Snapshot == window = "loop" /\ WindowTo(ReaderGets("snapshotReads", "snapshotWaits"))

StatusLink == window = "snapshotReads" /\ WindowTo(ReaderGets("nestedReads", "nestedWaits"))

SnapshotReturns == window = "nestedReads" /\ WindowTo("loop")

WindowSteps == WindowReturns \/ StatusLink \/ SnapshotReturns

\* The two circles: the refresh waits behind a writer that waits for the refresh,
\* and start waits with the lock for a window that waits for the lock.
Frozen ==
    \/ window = "nestedWaits" /\ \E g \in Workers : worker[g] \in {"announced", "announcedToAsk"}
    \/ window \in {"waits", "snapshotWaits"} /\ \E g \in Workers : worker[g] = "asking"

DesktopNext ==
    \/ WindowAsks \/ Snapshot \/ WindowSteps
    \/ \E g \in Workers :
         WriteSection(g) \/ StartSection(g) \/ TestReads(g)
         \/ Announce(g) \/ Acquire(g) \/ WindowAnswers(g) \/ Unlock(g) \/ TestHasRead(g)
    \/ Frozen /\ UNCHANGED desktopVars   \* until the user ends the program

DesktopSpec == DesktopInit /\ [][DesktopNext]_desktopVars

\* A section that has begun goes on, and so does the window thread.  Who gets the
\* next turn is left to the mutex among the writers.
DesktopFairness ==
    /\ WF_desktopVars(WindowSteps)
    /\ \A g \in Workers :
         WF_desktopVars(Acquire(g) \/ WindowAnswers(g) \/ Unlock(g) \/ TestHasRead(g))

-------------------------------------------------------------------------------
(* Properties *)

\* The values the variables take.
DesktopTypeOK ==
    /\ worker \in [Workers -> WorkerPoints]
    /\ window \in WindowPoints
    /\ writer \in Workers \cup {Nobody}

\* Again and again the lock comes back from its writers, and the window thread to its
\* message loop, unless the program is in one of the two circles: nothing else in the order
\* of locks and messages can stop it.
DesktopGoesOn ==
    /\ []<>(writer = Nobody \/ Frozen)
    /\ []<>(window = "loop" \/ Frozen)

\* And it never leaves a circle: the user has to end the program.
FrozenForGood == [][Frozen => Frozen']_desktopVars
================================================================================
