SPECIFICATION Spec
CONSTANTS
    Conns = {c1, c2, c3}
    Agents = {a1, a2}
    Proxies = {p1, p2}
    None = None
SYMMETRY Symmetric
INVARIANT TypeOK
INVARIANT NoStaleEntry
INVARIANT NeverLost
INVARIANT ShutdownClosesAll
PROPERTY OnlyOwnerUnregisters
