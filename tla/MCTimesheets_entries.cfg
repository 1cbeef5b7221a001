SPECIFICATION HSpec
CONSTANTS
    N = 2
    Grains = {}
    Logs = {l1}
    Rests = {x1, x2}
    Amendments = {}
    Requests = {r1, r2}
    MaxAudit = 2
    None = None
SYMMETRY Symmetry
INVARIANT
    AuditReplay
PROPERTY
    EntryWritesSeen
