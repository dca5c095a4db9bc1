\* Three tasks, and an httpx client that two more close while fetches rebuild it.
SPECIFICATION Spec
CONSTANTS
    ann = ann
    a1 = a1
    a2 = a2
    None = None
    Users = {ann}
    Tokens = {a1}
    Owner <- OwnerOfOne
    Callers = {c1, c2, c3}
    TTLs = {1}
    MaxClock = 1
    MaxInvalidations = 1
    Closers = {x1, x2}
    Clients = {h1, h2, h3}
SYMMETRY Interchangeable
INVARIANTS TypeOK LockAccounted OneGetAtATime WithinOwnTTL
