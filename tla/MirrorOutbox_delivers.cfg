CONSTANTS
    w1 = w1
    d1 = d1
    None = None
    Run = {"run"}
    Alert = {"alert"}
    Writer = {w1}
    Deliverer = {d1}
    Rejected = {"run"}
    Limit = 1
    MaxVersion = 3
    MaxFaults = 2
SPECIFICATION FairSpec
INVARIANTS
    TypeOK
    DeliveredWasWritten
    DeliveredIsShown
PROPERTIES
    ResolvedStaysResolved
    PendingIsDelivered
CHECK_DEADLOCK FALSE
