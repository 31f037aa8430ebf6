SPECIFICATION Spec
CONSTANTS
  i1 = i1
  i2 = i2
  Instances = {i1}
  Deployments <- Alone
  Steady = {i1}
  Nobody = nobody
  Events = {1, 2}
  Tokens = {1, 2, 3}
  Batch = 2
  MaxFaults = 0
INVARIANTS
  SentInOrder
