SPECIFICATION Spec
CONSTANTS
    e1 = e1
    w1 = w1
    w2 = w2
    v1 = v1
    v2 = v2
    None = None
    Field = {"scope"}
    AutoField = {"scope"}
    DigestField = {"scope"}
    Value = {v1, v2}
    MaxAmendments = 2
    Evidence = {e1}
    Criterion = {"c"}
    Covers <- CoversAll
    Worker = {w1, w2}
    MaxRuns = 1
    MaxCommit = 2
SYMMETRY Symmetry
INVARIANTS
    EvidenceInv
PROPERTIES
    NothingOverwrittenUnseen
    VerdictStands
