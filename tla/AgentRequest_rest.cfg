SPECIFICATION FairSpec
CONSTANTS
    a1 = a1
    a2 = a2
    a3 = a3
    p1 = p1
    p2 = p2
    s1 = s1
    s2 = s2
    w1 = w1
    w2 = w2
    None = None
    Agents = {a1, a2, a3}
    People = {p1, p2}
    Successor <- Cycle
    OwnerOf <- Ownerless
    TeamOwners <- TwoOwners
    CannotAnswer = {}
    Sessions = {s1}
    ActorOf <- BothOfA1
    Sweepers = {w1, w2}
    NeedInfoTargets = {p1}
    MaxRoots = 1
    MaxHop = 4
    MaxGeneration = 1
    MAX_HANDOFF_HOPS = 2
    EXPIRY_BATCH_SIZE = 1
PROPERTIES
    ChainLeavesTheAgents
CHECK_DEADLOCK FALSE
