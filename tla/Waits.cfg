SPECIFICATION WaitsSpec
CONSTANTS
    Streams = {s1, s2}
    Reachable = {s1}
    Cap = 1
    None = None
    Workers = {w1, w2}
    Nobody = Nobody
PROPERTY RoomAgain
PROPERTY EndFreesEverybody
PROPERTY StandsStill
PROPERTY DesktopGoesOn
