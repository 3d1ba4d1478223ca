SPECIFICATION Spec
CONSTANTS
  Job = {j1}
  Invocation = {i1, i2}
  Abroad = {}
  RegionOf <- OneRegion
  None = None
  LeaseMs = 1
  BackoffMs = 1
  BatchSize = 1
  MaxAttempts = 2
  MaxClock = 4
SYMMETRY Symmetry
PROPERTY LostLeaseCannotFinalize
