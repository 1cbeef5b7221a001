SPECIFICATION HSpec
CONSTANTS
    N = 1
    Grains = {}
    Logs = {}
    Rests = {}
    Amendments = {a1, a2}
    Requests = {r1, r2, r3}
    MaxAudit = 0
    None = None
SYMMETRY Symmetry
INVARIANTS
    HTypeOK
    OnePendingAmendment
    FieldsMatchStatus
PROPERTIES
    DecisionsFinal
    ReviewWritesSeen
    SubmitWritesSeen
    UnlockOnlyByDecision
