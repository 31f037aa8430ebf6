SPECIFICATION Spec
CONSTANTS
  Names <- Strings
  MaxInt = 3
  Handlers = {h1, h2}
  Resolvers = {r1}
  Nobody = nobody
  Accounts <- TwoWallets
  Requests <- CrossRequests
  TxIds = {1, 2, 3, 4, 5, 6}
  MaxAttempts = 1
  MaxFaults = 0
INVARIANTS
  ConflictIsVisible
PROPERTIES
  IsSerial
SYMMETRY Sessions
