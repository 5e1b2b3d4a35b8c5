-------------------------------- MODULE MCWaits --------------------------------
(* TLC instances of the two places where goroutines may wait in a circle: the    *)
(* control connection between server and agent, and the lock of the desktop      *)
(* program.  The two share nothing; a behaviour is one of either.                *)
EXTENDS ControlPipe, DesktopLock

VARIABLE program

waitVars == <<vars, desktopVars, program>>

\* The other program stands still: the connection is over, the lock is free.
RelayOver ==
    /\ wire = [d \in Directions |-> <<>>] /\ connected = FALSE
    /\ sending = [g \in Senders |-> Nothing]
    /\ readLoop = At("ended", None) /\ handler = [s \in Streams |-> "idle"]
    /\ upload = [s \in Streams |-> "none"] /\ download = [s \in Streams |-> "none"]
    /\ done = {}
    /\ main = "ended" /\ reader = At("ended", None) /\ pump = [s \in Streams |-> "none"]

WaitsInit ==
    /\ DesktopInit
    /\ \/ program = "relay" /\ Init
       \/ program = "desktop" /\ RelayOver

WaitsNext ==
    \/ program = "relay" /\ Next /\ UNCHANGED <<desktopVars, program>>
    \/ program = "desktop" /\ DesktopNext /\ UNCHANGED <<vars, program>>

WaitsSpec == WaitsInit /\ [][WaitsNext]_waitVars /\ Fairness /\ DesktopFairness
================================================================================
