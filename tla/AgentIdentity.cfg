SPECIFICATION Spec
CONSTANTS
    Agents = {a1, a2, a3}
    Proxies = {p1, p2, p3}
    Machines = {m1, m2}
    MaxLate = 2
    None = None
SYMMETRY Symmetric
INVARIANT RequestsAreOwn
INVARIANT ProxyIsKept
