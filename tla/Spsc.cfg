SPECIFICATION FairSpec
CONSTANTS
  Cap = 2
  MaxSeq = 5
  Items = {x, y}
  Torn = Torn
INVARIANTS
  NoSlotRace
PROPERTIES
  ImplementsBoundedQueue
