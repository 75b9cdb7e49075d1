SPECIFICATION Spec
CONSTANTS
  Var = {"x", "y"}
  NumBlocks = 3
  Branches <- MCBranches
  Programs <- MCPrograms
  MaxInsts = 16
  MaxPasses = 2
INVARIANTS OnlyWalkTouchesDeleted PassesKeepValues
PROPERTIES ImplementsContents
CHECK_DEADLOCK FALSE
