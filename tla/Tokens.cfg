SPECIFICATION FairSpec
CONSTANTS
  Callers = {c1, c2}
  Boot = boot
  Nobody = nobody
  Kids = {k1, k2}
  TTL = 2
  GetTimeout = 1
  MaxRotations = 2
  MaxFaults = 1
PROPERTIES
  NoStaleKey
  CallsAnswered
  KeysLearned
