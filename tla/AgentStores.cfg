SPECIFICATION StoresSpec
CONSTANTS
    Agents = {a1, a2}
    Proxies = {p1, p2}
    Records = {r1, r2, r3}
    Calls = {c1, c2}
    None = None
SYMMETRY Symmetric
INVARIANT MapsAgree
INVARIANT AskedProxyIsGiven
INVARIANT NoEntryIsLost
INVARIANT LookupsAreExact
INVARIANT ExclusiveInTurns
PROPERTY BeatsKeepBindingsInTurns
PROPERTY AgentsAreServed
