SPECIFICATION HSpec
CONSTANTS
    N = 3
    Grains = {}
    Logs = {l1}
    Rests = {x1}
    Amendments = {}
    Requests = {r1, r2}
    MaxAudit = 1
    None = None
SYMMETRY Symmetry
PROPERTY
    RejectionsAnsweredSeen
