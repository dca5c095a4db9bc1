\* Two threads, two tokens of one user.
SPECIFICATION Spec
CONSTANTS
    ann = ann
    a1 = a1
    a2 = a2
    None = None
    Users = {ann}
    Tokens = {a1, a2}
    Owner <- OwnerOfTwo
    Callers = {c1, c2}
    TTLs = {0, 2}
    MaxClock = 2
    MaxInvalidations = 1
SYMMETRY Interchangeable
INVARIANTS NoRowFromBeforeInvalidate WithinOwnTTL
PROPERTY FetchedWhenDue
