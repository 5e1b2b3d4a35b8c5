SPECIFICATION Spec
CONSTANTS
    Proxies = {p1, p2}
    LastMoment = 2
    Calls = {r1, r2}
    MaxEach = 1
    NoProxy = NoProxy
    Minute = 2
    Offset = 1
    Others <- SomeEntries
    TypedDates <- SomeDates
SYMMETRY Symmetric
INVARIANT TypeOK
INVARIANT PageIsTrue
PROPERTY NoteKeepsTheRest
INVARIANT GrantIsByTheWallClock
