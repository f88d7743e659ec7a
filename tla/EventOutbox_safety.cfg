SPECIFICATION Spec
CONSTANTS
    w1 = w1
    w2 = w2
    t1 = t1
    t2 = t2
    None = None
    Workers = {w1, w2}
    Targets = {t1, t2}
    MaxEvents = 1
    Routed <- Broadcast
    MAX_DELIVERY_ATTEMPTS = 2
    BatchLimit = 2
    Threshold = 1
    Faults = {"crash", "stall"}
    Switches = {TRUE}
SYMMETRY Symmetry
INVARIANTS
    OutboxInv
PROPERTIES
    ClosedOnEvidence
    ImplementsAtLeastOnce
CHECK_DEADLOCK FALSE
