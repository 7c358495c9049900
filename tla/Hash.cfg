SPECIFICATION FairSpec
CONSTANTS
  CapacityPow2 = 4
  MaxLoadPct = 75
  Keys = {1, 2, 3, 4}
  Vals = {v, w}
  Homes <- SortedHomes
  NoKey = NoKey
  NoVal = NoVal
INVARIANTS
  RoomToStop
  OlderInTheWay
PROPERTIES
  ImplementsMap
