SPECIFICATION Spec
CONSTANTS
  Names <- Strings
  MaxInt = 3
  Handlers = {h1, h2}
  Resolvers = {r1, r2}
  Nobody = nobody
  Accounts <- OneWallet
  Requests <- ContentionRequests
  TxIds = {1, 2, 3, 4}
  MaxAttempts = 1
  MaxFaults = 1
INVARIANTS
  TypeOK
  LockedWalletIsCurrent
  LedgerChain
  IdentityUnique
  InboxPointsHome
  AnswersAreTrue
  OneEntryPerMovement
PROPERTIES
  TerminalFrozen
  WalletIsolated
SYMMETRY Sessions
