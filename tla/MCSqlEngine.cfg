SPECIFICATION FairEngineSpec
CONSTANTS
  LeafMax = 4
  NonLeafMax = 4
  IntMin <- MCIntMin
  IntMax = 7
  Key <- Ints
  Rid <- Nat
  NoEntry = NoEntry
  MaxCalls = 20
  MaxFaults = 1
  Abandons = TRUE
  Value = {1, 2}
  NoNumber = NoNumber
  NoComma = NoComma
  LoadFiles <- MCLoadFiles
  Queries <- MCQueries
  FdMax = 3
  TableFaults = {"append", "read"}
  MaxCommands = 3
INVARIANTS
  EngineTypeOK
  IndexedAreRows
  IndexIsComplete
  ReadsAreSet
  TableIsClosed
  NoRowTwice
  ScanIsAnswer
  IndexIsAnswer
PROPERTY CommandReturns
