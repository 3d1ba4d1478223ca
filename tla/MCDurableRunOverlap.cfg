SPECIFICATION Spec
CONSTANTS
  Node <- GateNode
  Kind <- GateKind
  Edges <- GateEdges
  Start = "s"
  NoNode = "none"
  Executor = {e1, e2, e3}
  Approver = {d1}
  MayCancel = TRUE
  Faults = {"crash", "throw", "lapse"}
  MaxFaults = 1
  MaxAttempts = 2
  MaxClaims = 1
SYMMETRY Symmetry
INVARIANT AdvancersAccounted
PROPERTY EndedStaysEnded
CHECK_DEADLOCK FALSE
