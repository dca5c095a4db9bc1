\* invalidate during a fetch of the async client.
SPECIFICATION Spec
CONSTANTS
    ann = ann
    a1 = a1
    a2 = a2
    None = None
    Users = {ann}
    Tokens = {a1}
    Owner <- OwnerOfOne
    Callers = {c1, c2}
    TTLs = {2}
    MaxClock = 3
    MaxInvalidations = 1
    Closers <- NoClosers
    Clients = {h1}
SYMMETRY Interchangeable
INVARIANT NoRowFromBeforeInvalidate
