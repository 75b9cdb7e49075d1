CONSTANTS
  NBlocks = 3
  VReg = {v1}
  MaxInsts = 2
SPECIFICATION MCSpec
INVARIANTS
  ExactAtEnd
  SolutionAtEnd
  CoversLiveRange
  UsesPartitioned
PROPERTIES
  OnlyGrows
  IntervalsReady
CHECK_DEADLOCK FALSE
