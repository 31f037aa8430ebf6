SPECIFICATION Spec
CONSTANTS
  Names <- Strings
  MaxInt = 3
  Handlers = {h1}
  Resolvers = {r1}
  Nobody = nobody
  Accounts <- OneWallet
  Requests <- ReversalRequests
  TxIds = {1, 2, 3, 4, 5, 6}
  MaxAttempts = 1
  MaxFaults = 0
INVARIANTS
  OutboxMatches
  NetOfReversals
  RowsReadable
  GuardsSilent
  LatestResultIsWallet
SYMMETRY Sessions
