SPECIFICATION HttpSpec
CONSTANTS
  Names <- Strings
  MaxInt = 150
  Accounts <- TwoWallets
  Requests <- Messages1
  TxIds = {1, 2, 3}
  EntryIds = {1, 2, 3}
  Calls <- AllCalls
  Texts <- AllTexts
  MaxSteps = 1
  MaxFaults = 1
INVARIANTS
  WalkComplete
  ReconcilesAlways
  AnswersOnChain
  RefusalIsTrue
  MoneyExact
