SPECIFICATION Spec
CONSTANTS
  Workflow = {w1}
  Editor = {e1, e2}
  TriggerSets <- SignalOnly
  MaxVersions = 1
  MaxNow = 1
  Signal = {1, 2}
  Own = {1}
  Interval = 1
  Worker = {i1, i2}
  BatchLimit = 1
  MaxFaults = 0
  None = None
SYMMETRY Symmetry
INVARIANT TypeOK
INVARIANT NothingSkipped
PROPERTY CursorForward
INVARIANT ActiveIsRunnable
PROPERTY ArchivedAtRestIsFinal
