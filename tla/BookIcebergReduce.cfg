SPECIFICATION Spec
CONSTANTS
  NumTicks = 1
  PoolCap = 1
  GenMod = 4
  MaxQty = 2
  MaxGen = 3
PROPERTY ReduceReturnsRemoved
