SPECIFICATION FairSpec
CONSTANTS
  g1 = g1
  g2 = g2
  Instances = {i1, i2}
  Steady = {i2}
  Messages = {1, 2, 3}
  Group <- Groups
  Refused = {1}
  Concurrency = 2
  MaxReceive = 2
  MaxFaults = 1
INVARIANTS
  AckedOnlyIfCommitted
  DeadOnlyWithCause
PROPERTIES
  MessagesSettle
