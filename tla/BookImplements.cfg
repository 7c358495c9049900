SPECIFICATION Spec
CONSTANTS
  NumTicks = 2
  PoolCap = 2
  GenMod = 4
  MaxQty = 3
  MaxGen = 3
INVARIANTS
  StaleIdRejected
  CallsKeepPromise
PROPERTIES
  CallReturns
  ImplementsPriceTimeBook
  UsesLadder
