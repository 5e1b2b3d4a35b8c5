SPECIFICATION FairSpec
CONSTANTS
    Streams = {s1}
    DataCap = 1
    MaxDown = 2
    MaxUp = 1
    MaxFaults = 1
    None = None
PROPERTY HandlersEndWithSession
PROPERTY NothingOutlivesHandler
PROPERTY TargetsEndWithAgent
