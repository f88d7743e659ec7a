SPECIFICATION Spec
CONSTANTS
  Node = {a, b, c}
  Kind = {"DECISION", "ISSUE"}
  NoNode = NoNode
  NoSnap = NoSnap
  Request = {r1, r2}
  MaxDeletes = 2
  MaxBlocks = 2
SYMMETRY Symmetric
INVARIANTS
    GraphInv
    NoCycleButThroughRestored
    UndoRestores
PROPERTIES
    RestoreKeepsTheRest
CHECK_DEADLOCK FALSE
