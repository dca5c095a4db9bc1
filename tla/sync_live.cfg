\* Two threads over a clock on which entries become stale; overrides; liveness,
\* hence without symmetry.
SPECIFICATION FairSpec
CONSTANTS
    old = old
    new = new
    None = None
    Urls = {u1}
    Kids = {old, new}
    Callers = {c1, c2}
    Documents <- OldOnly
    OverrideSets <- OverrideNew
    CacheTTL = 0
    StaleTTL = 1
    UnknownKidTTL = 0
    MaxUrls = 1
    MaxClock = 1
INVARIANTS SingleFlight NoOrphans StableKeyServed
PROPERTY FollowersNotPinned
