SPECIFICATION Spec
CONSTANTS
    p = p
    w1 = w1
    w2 = w2
    None = None
    PRs = {p}
    Workers = {w1, w2}
    MoveTargets = {"UNSTARTED", "REVIEW"}
    MaxEvents = 4
    Histories <- Both
    MaxReceipts = 3
    MaxFaults = 2
    MAX_FAILURES = 2
SYMMETRY Symmetry
INVARIANTS
    InboundInv
PROPERTIES
    ProcessedForGood
    LateCloseMovesNothing
    RolledBackByAMover
