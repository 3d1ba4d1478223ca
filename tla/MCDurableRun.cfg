SPECIFICATION FairSpec
CONSTANTS
  Node <- WholeNode
  Kind <- WholeKind
  Edges <- WholeEdges
  Start = "s"
  NoNode = "none"
  Executor = {e1, e2}
  Approver = {d1, d2}
  MayCancel = FALSE
  Faults = {}
  MaxFaults = 0
  MaxAttempts = 2
  MaxClaims = 1
INVARIANT TypeOK
INVARIANT FinishedUntilFault
PROPERTY RunSettles
CHECK_DEADLOCK FALSE
