SPECIFICATION Spec
CONSTANTS
    s1 = s1
    s2 = s2
    s3 = s3
    a = a
    b = b
    h = h
    k1 = k1
    k2 = k2
    k3 = k3
    r1 = r1
    r2 = r2
    r3 = r3
    None = None
    Agents = {a}
    Sessions = {s1, s2}
    Humans = {h}
    AgentOf <- SameAgent
    Claims = {k1, k2}
    Runs = {r1, r2}
    Leases = {1}
    LateWindow = 1
    MaxTime = 3
    MoveTargets = {"UNSTARTED", "COMPLETED"}
    Reported = {"QUEUED", "RUNNING", "COMPLETED", "FAILED"}
SYMMETRY SymmetryOfSessions
INVARIANTS
    TypeOK
    OneExecution
    OnlyHolderReports
PROPERTIES
    SupersededSilenced
    NoCompletionOverLiveLease
    ImplementsLease
