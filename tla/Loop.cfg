SPECIFICATION LoopSpec
CONSTANTS
  Tops <- MCTops
  EmptyTop <- MCEmptyTop
  Capacity = 1
  MaxSeq = 4
  NMsgs = 4
  FeedBids = {1, 2}
  FeedAsks = {4}
  FeedLots = {1}
  CollarLo = 1
  CollarHi = 5
  ArenaCap = 1
  OrdCap = 3
INVARIANTS
  NothingCrosses
  NewestQuoteWins
  RestingWithinRisk
  
PROPERTY
  LoopEnds
