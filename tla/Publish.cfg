SPECIFICATION FairSpec
CONSTANTS
  i1 = i1
  i2 = i2
  Instances = {i1, i2}
  Deployments <- Pairs
  Steady = {i2}
  Nobody = nobody
  Events = {1, 2}
  Tokens = {1, 2, 3, 4, 5, 6}
  Batch = 2
  MaxFaults = 1
INVARIANTS
  TypeOK
  NothingLost
  OneHolder
  SentOnceUnlessFaulty
PROPERTIES
  PublishedFinal
  EventsPublished
