SPECIFICATION Spec
CONSTANTS
    Streams = {s1, s2}
    DataCap = 1
    MaxDown = 3
    MaxUp = 2
    MaxFaults = 1
    None = None
CONSTRAINT Bounded
SYMMETRY Symmetric
INVARIANT TypeOK
INVARIANT DataAfterAnswer
INVARIANT OrphansAreTimeouts
INVARIANT NoLeakedEntry
INVARIANT ResolveNeverBlocks
PROPERTY DownPromise
PROPERTY UpPromise
