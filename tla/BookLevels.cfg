SPECIFICATION Spec
CONSTANTS
  NumTicks = 3
  PoolCap = 3
  GenMod = 4
  MaxQty = 2
  MaxGen = 3
INVARIANTS
  BestCached
  NotCrossed
  LevelsMatchBitmaps
  AggregateExact
  SlotAccounting
