SPECIFICATION Spec
CONSTANTS
    Streams = {s1}
    DataCap = 1
    MaxDown = 2
    MaxUp = 0
    MaxFaults = 1
    None = None
INVARIANT NoPanic
