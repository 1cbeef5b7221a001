SPECIFICATION Spec
CONSTANTS
    MaxEvents = 3
    Reached = {"active", "past_due"}
    Deliveries = {d1}
    Processes = {p1}
    Staff = {}
    MaxByHand = 0
    GraceDays = 2
PROPERTY
    SuspendedAfterGrace
