SPECIFICATION Spec
CONSTANTS
  Workflow = {w1}
  Editor = {e1}
  TriggerSets <- OneOfTwo
  MaxVersions = 1
  MaxNow = 1
  Signal = {1, 2, 3}
  Own = {}
  Interval = 1
  Worker = {i1, i2}
  BatchLimit = 2
  MaxFaults = 0
  None = None
SYMMETRY Symmetry
INVARIANT NoWorkLost
