\* Two users, one of whom deletes the account, two workers so that a retry can
\* overtake; the service token is rotated once.
SPECIFICATION FairSpec
CONSTANTS
    u1 = u1
    u2 = u2
    None = None
    Sentinel = sentinel
    Users = {u1, u2}
    Leaving = {u1}
    Jobs = {j1, j2}
    Connections = {script, w1, w2}
    Script = script
    Workers = {w1, w2}
    Secrets = {s1, s2}
    Counters <- Undated
    SplitAgain = FALSE
    MaxScans = 2
    MaxRotations = 1
INVARIANTS CountsCarriedOver CascadedRowsGone
PROPERTIES AllOrNothing CascadeCompletes
CHECK_DEADLOCK FALSE
