SPECIFICATION TurnsSpec
CONSTANTS
    Starts = {s1, s2}
    None = None
    MaxLines = 2
INVARIANT TypeOK
INVARIANT HeldIsWatched
INVARIANT NoOrphanInTurns
PROPERTY UnaskedExitIsShown
 
