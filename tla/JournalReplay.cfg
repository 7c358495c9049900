SPECIFICATION Spec
CONSTANTS
  Cap = 5
  Sizes = {1, 2, 3}
  ArenaCap = 2
  MaxFrames = 4
  Blank = Blank
  Torn = Torn
INVARIANTS
  NeverTorn
  ReplayCoversEngine
  DropsCounted
