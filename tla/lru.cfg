\* Five URLs for a cache of three.
SPECIFICATION LRUSpec
CONSTANTS
    k1 = k1
    None = None
    Urls = {u1, u2, u3, u4, u5}
    Kids = {k1}
    Callers = {c1}
    Documents <- AnyDocument
    OverrideSets <- NoOverrides
    CacheTTL = 1
    StaleTTL = 1
    UnknownKidTTL = 1
    MaxUrls = 3
    MaxClock = 0
INVARIANTS WithinCap EvictsLeastRecentlyUsed
