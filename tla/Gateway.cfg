SPECIFICATION Spec
CONSTANTS
  NMsgs = 4
  Shares = {2, 3}
  MaxExec = 2
  LoadCap = 2
  RingCap = 2
  UpdateCap = 1
INVARIANTS
  EnginesAgree
  SamplesPaired
  DrainLeavesNothing
  ReplayDeterministic
PROPERTIES
  
  SessionEnds
