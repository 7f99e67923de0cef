SPECIFICATION FairSpec
CONSTANTS
  Key <- Keys9
  LeafMax = 2
  NonLeafMax = 4
  Rid = {r}
  NoEntry = NoEntry
  IntMin = 0
  IntMax = 10
  MaxCalls = 9
  MaxFaults = 1
  Abandons = TRUE
ACTION_CONSTRAINT Loads
INVARIANTS
  NoDangling
  DescentIsTyped
  SavedOnChain
  LocateIsNotLate
PROPERTY InsertReturns
