SPECIFICATION Spec
CONSTANTS
  Node <- TwiceNode
  Kind <- TwiceKind
  Edges <- TwiceEdges
  Start = "s"
  NoNode = "none"
  Executor = {e1, e2}
  Approver = {d1}
  MayCancel = FALSE
  Faults = {"crash", "throw", "lapse"}
  MaxFaults = 1
  MaxAttempts = 2
  MaxClaims = 2
SYMMETRY Symmetry
INVARIANT RunsInOrder
INVARIANT GatesHold
INVARIANT EffectsAccounted
CHECK_DEADLOCK FALSE
