SPECIFICATION FairSpec
CONSTANTS
  Names <- Strings
  MaxInt = 3
  Handlers = {h1, h2}
  Resolvers = {r1}
  Nobody = nobody
  Accounts <- TwoWallets
  Requests <- WaitingRequests
  TxIds = {1, 2, 3, 4}
  MaxAttempts = 1
  MaxFaults = 0
PROPERTIES
  CommandsAnswered
