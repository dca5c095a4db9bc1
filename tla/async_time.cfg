\* Two tasks over a clock long enough for entries to become stale and to
\* expire; a provider that at times serves an unusable document; overrides;
\* liveness, hence without symmetry.
SPECIFICATION FairSpec
CONSTANTS
    old = old
    new = new
    None = None
    Urls = {u1}
    Kids = {old, new}
    Callers = {c1, c2}
    Documents <- StableOld
    OverrideSets <- OverrideNew
    CacheTTL = 0
    StaleTTL = 1
    UnknownKidTTL = 1
    MaxUrls = 1
    MaxClock = 2
INVARIANTS SingleFlight NoOrphans StampHonest KeyServedWithinStale StableKeyServed
PROPERTIES EntriesNeverRegress RejectedKidNotProbed EveryCallReturns
