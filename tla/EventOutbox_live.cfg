SPECIFICATION FairSpec
CONSTANTS
    w1 = w1
    w2 = w2
    t1 = t1
    t2 = t2
    None = None
    Workers = {w1, w2}
    Targets = {t1, t2}
    MaxEvents = 2
    Routed <- FirstToBoth
    MAX_DELIVERY_ATTEMPTS = 2
    BatchLimit = 1
    Threshold = 2
    Faults = {}
    Switches = {FALSE}
PROPERTIES
    EveryEventCloses
CHECK_DEADLOCK FALSE
