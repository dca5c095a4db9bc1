\* Two updates of one subscription and one that the provider rejects, two
\* handlers; the token is not configured at first, and is rotated once; any answer
\* may be lost, or replaced by an error of a gateway.
SPECIFICATION FairSpec
CONSTANTS
    sold = sold
    ended = ended
    broken = broken
    None = None
    Events = {sold, ended, broken}
    Handlers = {h1, h2}
    Fields = {"tier", "customer"}
    Update <- Updates
    Malformed = {broken}
    t1 = t1
    Tokens = {t1, t2}
    FirstToken = t1
    MaxRotations = 1
INVARIANTS TypeOK AppliedOnce
PROPERTIES NothingDropped NothingErased AllSettled
CHECK_DEADLOCK FALSE
