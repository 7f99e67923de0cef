SPECIFICATION Spec
CONSTANTS
  LeafMax = 4
  NonLeafMax = 4
  Key = {1, 2, 3, 4, 5}
  Rid = {r1, r2}
INVARIANTS
  LeafSplitHalves
  InsertKeepsOrder
  InsertRoutes
  SplitRoutes
  ReinsertedIsInserted
