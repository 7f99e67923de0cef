SPECIFICATION Spec
CONSTANTS
  Key <- Keys4
  LeafMax = 2
  NonLeafMax = 4
  Rid = {r}
  NoEntry = NoEntry
  IntMin = 0
  IntMax = 10
  MaxCalls = 4
  MaxFaults = 0
  Abandons = TRUE
INVARIANT LocateFindsSaved
