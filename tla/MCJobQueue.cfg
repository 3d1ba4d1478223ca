SPECIFICATION FairSpec
CONSTANTS
  Job = {j1}
  Invocation = {i1, i2, i3}
  Abroad = {i3}
  RegionOf <- TwoRegions
  None = None
  LeaseMs = 1
  BackoffMs = 1
  BatchSize = 1
  MaxAttempts = 2
  MaxClock = 2
INVARIANT TypeOK
INVARIANT LeaseIffRunning
INVARIANT RetryBudget
INVARIANT LeaseExclusion
PROPERTY SettledIsFinal
PROPERTY LeasesHoldAcrossRegions
PROPERTY DeliversAtLeastOnce
PROPERTY EveryJobSettles
