SPECIFICATION SigSpec
CONSTANTS
  Tops <- SomeTops
  EmptyTop <- Empty
  Capacity = 2
  MaxSeq = 6
  TickParts = 256
INVARIANTS
  GapsExact
  DrainedIsCurrent
  WindowIsDifference
  MicroInSpread
