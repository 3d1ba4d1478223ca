SPECIFICATION Spec
CONSTANTS
  Node <- GateNode
  Kind <- GateKind
  Edges <- GateEdges
  Start = "s"
  NoNode = "none"
  Executor = {e1}
  Approver = {d1}
  MayCancel = FALSE
  Faults = {"crash"}
  MaxFaults = 1
  MaxAttempts = 2
  MaxClaims = 1
INVARIANT CompletedMeansFinished
CHECK_DEADLOCK FALSE
