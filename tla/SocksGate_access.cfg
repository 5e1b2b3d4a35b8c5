SPECIFICATION GateSpec
CONSTANTS
    Proxies = {p1, p2}
    Clients = {c1, c2}
    LastMoment = 1
SYMMETRY Symmetric
INVARIANT BarredStayOut
