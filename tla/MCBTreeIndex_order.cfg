SPECIFICATION OrderlySpec
CONSTANTS
  Key <- Keys6
  LeafMax = 2
  NonLeafMax = 4
  Rid = {r}
  NoEntry = NoEntry
  IntMin = 0
  IntMax = 10
  MaxCalls = 6
  MaxFaults = 1
  Abandons = TRUE
INVARIANTS
  TypeOK
  LocateFindsStored
PROPERTY IsIndex
