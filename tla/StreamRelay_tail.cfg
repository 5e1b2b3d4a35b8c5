SPECIFICATION Spec
CONSTANTS
    Streams = {s1}
    DataCap = 2
    MaxDown = 2
    MaxUp = 0
    MaxFaults = 0
    None = None
INVARIANT CleanEndDelivers
