CONSTANTS
    d1 = d1
    d2 = d2
    Deliveries = {d1, d2}
    MaxAttempts = 3
SPECIFICATION FairSpec
INVARIANTS
    DeliveredWasAccepted
PROPERTIES
    DeliveryEnds
CHECK_DEADLOCK FALSE
