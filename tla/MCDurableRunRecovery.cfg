SPECIFICATION FairSpec
CONSTANTS
  Node <- ChainNode
  Kind <- ChainKind
  Edges <- ChainEdges
  Start = "s"
  NoNode = "none"
  Executor = {e1}
  Approver = {d1}
  MayCancel = TRUE
  Faults = {"crash", "throw"}
  MaxFaults = 2
  MaxAttempts = 3
  MaxClaims = 3
PROPERTY CancelAtRestIsFinal
PROPERTY DecisionResumes
PROPERTY TimerResumes
CHECK_DEADLOCK FALSE
