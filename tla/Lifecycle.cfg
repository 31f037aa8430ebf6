SPECIFICATION FairSpec
CONSTANTS
  ProcessTimes = {2, 6}
  VisibilityTimes = {13, 17}
  ShutdownTimes = {3, 8, 13}
  LeaseTimes = {12, 16}
  Margin = 10
  ClaimTimeout = 5
  AckTimeout = 5
  CleanupTimeout = 3
  HeaderTimeout = 5
  ReadTimeout = 10
  StopTimeout = 12
INVARIANTS
  HoldCoversWork
  PoolClosedLast
  StopIsOrderly
PROPERTIES
  DrainCutsNothing
  StopEnds
