SPECIFICATION FairSpec
CONSTANTS
    t1 = t1  t2 = t2
    None = None
    Trigger = {t1, t2}
    MaxDeliveries = 2
    MaxAttempts = 2
    BatchSize = 2
INVARIANTS
    DeliveryAccounted
    TurnsBounded
    OneCopy
PROPERTIES
    ImplementsQueue
    EveryDeliverySettled
CHECK_DEADLOCK FALSE
