\* Liveness, hence without symmetry: three tasks, some of whose calls force a fresh fetch.
SPECIFICATION FairSpec
CONSTANTS
    ann = ann
    a1 = a1
    a2 = a2
    None = None
    Users = {ann}
    Tokens = {a1}
    Owner <- OwnerOfOne
    Callers = {c1, c2, c3}
    TTLs = {0, 2}
    MaxClock = 1
    MaxInvalidations = 0
    Closers <- NoClosers
    Clients = {h1}
INVARIANT WithinOwnTTL
PROPERTIES FetchedWhenDue EveryFetchReturns
