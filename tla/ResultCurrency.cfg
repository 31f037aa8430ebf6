SPECIFICATION Spec
CONSTANTS
  Names <- Strings
  MaxInt = 3
  Handlers = {h1}
  Resolvers = {}
  Nobody = nobody
  Accounts <- OneWallet
  Requests <- CurrencyRequests
  TxIds = {1, 2}
  MaxAttempts = 1
  MaxFaults = 0
INVARIANTS
  ResultInWagerCurrency
