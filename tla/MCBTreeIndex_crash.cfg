SPECIFICATION Spec
CONSTANTS
  Key <- Keys3
  LeafMax = 2
  NonLeafMax = 4
  Rid = {r1, r2}
  NoEntry = NoEntry
  IntMin = 0
  IntMax = 10
  MaxCalls = 4
  MaxFaults = 1
  Abandons = TRUE
SYMMETRY RidSymmetry
INVARIANTS
  NoDangling
  DescentIsTyped
  ChainEnds
  SavedOnChain
  LocateIsNotLate
  HeaderCovers
