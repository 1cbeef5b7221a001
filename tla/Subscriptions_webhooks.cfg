SPECIFICATION FairSpec
CONSTANTS
    MaxEvents = 3
    Reached = {"active", "unpaid", "canceled"}
    Deliveries = {d1, d2}
    Processes = {p1}
    Staff = {s1}
    MaxByHand = 1
    GraceDays = 2
INVARIANTS
    TypeOK
    HandledOnce
PROPERTIES
    NeverSuspendedEarly
    CanceledForGood
    FollowsStripe
    LedgerKept
