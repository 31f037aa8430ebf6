SPECIFICATION FairSpec
CONSTANTS
  Names <- Strings
  MaxInt = 3
  Handlers = {h1}
  Resolvers = {r1}
  Nobody = nobody
  Accounts <- OneWallet
  Requests <- PairRequests
  TxIds = {1, 2, 3}
  MaxAttempts = 2
  MaxFaults = 1
PROPERTIES
  PendingResolves
