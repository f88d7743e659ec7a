SPECIFICATION GateFairSpec
CONSTANTS
    i1 = i1
    i2 = i2
    g1 = g1
    g2 = g2
    Item = {i1, i2}
    Bug = {i1}
    Incident = {i2}
    Sweep = {g1, g2}
    MaxItemRuns <- Reworked
    BUG_GATE_BATCH = 1
INVARIANTS
    GateTypeOK
PROPERTIES
    AcceptsWhatStands
    TakenBackStaysWithPeople
    NobodyCrowdedOut
