\* A browser and another request, over a clock on which entries become stale.
SPECIFICATION FlaskSpec
CONSTANTS
    old = old
    new = new
    None = None
    Urls = {u1}
    Kids = {old, new}
    Callers = {c1, c2}
    Documents <- OldOnly
    OverrideSets <- NoOverrides
    CacheTTL = 0
    StaleTTL = 1
    UnknownKidTTL = 0
    MaxUrls = 1
    MaxClock = 1
    Browsers = {c1}
    JwksUrl = u1
    Requests <- Pages
    OpenRequests <- Start
    MaxHops = 1
    Leeway = 1
    Ahead = {1}
    Life = 2
INVARIANTS FlaskTypeOK StableTokenAccepted
VIEW WithoutResidue
