SPECIFICATION FairSpec
CONSTANTS
  Node <- GateNode
  Kind <- GateKind
  Edges <- GateEdges
  Start = "s"
  NoNode = "none"
  Executor = {e1, e2}
  Approver = {d1}
  MayCancel = FALSE
  Faults = {}
  MaxFaults = 0
  MaxAttempts = 2
  MaxClaims = 1
PROPERTY DecisionResumes
CHECK_DEADLOCK FALSE
