\* A browser whose token outlives the key that signed it, or expires, and a task of the
\* application that uses the same key cache.
SPECIFICATION AuthSpec
CONSTANTS
    old = old
    new = new
    None = None
    Urls = {u1}
    Kids = {old, new}
    Callers = {c1, c2}
    Documents <- NewComesAndGoes
    OverrideSets <- NoOverrides
    CacheTTL = 0
    StaleTTL = 1
    UnknownKidTTL = 0
    MaxUrls = 1
    MaxClock = 2
    Browsers = {c1}
    JwksUrl = u1
    PublicPaths <- Views
    Requests <- Pages
    Leeway = 1
    Ahead = {0, 1}
    Life = 1
    MaxHops = 1
INVARIANTS AuthTypeOK LoopsOnlyWithoutCookie WithdrawnKeyDies StableTokenAccepted
PROPERTY KeepsPromise
VIEW WithoutResidue
