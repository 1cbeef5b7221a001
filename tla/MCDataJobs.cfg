SPECIFICATION FairSpec
CONSTANTS
    Exports = {e1, e2}
    TenantExports = {t1}
    Imports = {i1}
    Workers = {w1, w2}
    Batch = 1
    MaxJobs = 2
    MaxFaults = 1
    None = None
INVARIANTS
    TypeOK
    ReadyHasFile
    CancelledNotRun
PROPERTIES
    Settles
    FilesPurged
    LifeKept
CHECK_DEADLOCK FALSE
