SPECIFICATION Spec
CONSTANTS
  Key <- Keys9
  LeafMax = 2
  NonLeafMax = 4
  Rid = {r}
  NoEntry = NoEntry
  IntMin = 0
  IntMax = 10
  MaxCalls = 9
  MaxFaults = 0
  Abandons = FALSE
ACTION_CONSTRAINT Loads
INVARIANT LocateFindsStored
