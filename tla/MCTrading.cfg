SPECIFICATION Spec
CONSTANTS
  MaxIn = 900
  MaxTrades = 2
  MaxOthers = 1
  Funds = 1000
  Amounts = {1, 60}
  OthersAmounts = {60}
  Refs <- MCRefs
  Pools <- MCPools
INVARIANTS
  TypeOK
  PriceFavoursPool
  DifferencesAreTheTrades
