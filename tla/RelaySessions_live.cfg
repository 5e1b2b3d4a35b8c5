SPECIFICATION FairSpec
CONSTANTS
    Conns = {c1, c2}
    Agents = {a1, a2}
    Proxies = {p1, p2}
    None = None
PROPERTY SessionEnds
PROPERTY RegistrationCompletes
