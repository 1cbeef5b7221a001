SPECIFICATION FairSpec
CONSTANTS
    Workspaces = {w1}
    Requests = {r1}
    Workers = {k1}
    Manual <- OneEntry
    Cap = 1
    Horizon = 2
    Copies = 2
INVARIANTS
    TypeOK
    TrackedWithinWallClock
PROPERTY
    OverdueStops
CHECK_DEADLOCK FALSE
