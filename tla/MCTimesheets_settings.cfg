SPECIFICATION HSpec
CONSTANTS
    N = 2
    Grains = {"daily", "weekly"}
    Logs = {}
    Rests = {}
    Amendments = {}
    Requests = {r1, r2}
    MaxAudit = 0
    None = None
SYMMETRY Symmetry
PROPERTY
    UnlockOnlyByDecision
