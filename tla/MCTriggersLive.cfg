SPECIFICATION FairSpec
CONSTANTS
  Workflow = {w1}
  Editor = {e1}
  TriggerSets <- OneOfTwo
  MaxVersions = 1
  MaxNow = 3
  Signal = {1, 2}
  Own = {}
  Interval = 2
  Worker = {i1}
  BatchLimit = 1
  MaxFaults = 1
  None = None
INVARIANT FiredOnTime
PROPERTY SignalsFire
PROPERTY SchedulesFire
