SPECIFICATION Spec
CONSTANTS
  WordBits = 3
  NumTicks = 27
  PoolCap = 3
  Lots = Lots
  Garbage = Garbage
INVARIANT SearchesExact
PROPERTY ImplementsLadder
