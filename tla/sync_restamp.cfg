\* A follower stores what it re-read as if it had been fetched now.
SPECIFICATION Spec
CONSTANTS
    old = old
    new = new
    None = None
    Urls = {u1}
    Kids = {old, new}
    Callers = {c1, c2}
    Documents <- OldOnly
    OverrideSets <- NoOverrides
    CacheTTL = 0
    StaleTTL = 1
    UnknownKidTTL = 0
    MaxUrls = 1
    MaxClock = 2
SYMMETRY Interchangeable
INVARIANT KeyServedWithinStale
