SPECIFICATION Spec
CONSTANTS
  Func = {"main", "f", "g", "h"}
  Main = "main"
  Saved <- MCSaved
  Locals <- MCLocals
  Spills <- MCSpills
  Site = {"one", "two"}
  Value = {1, 2}
  StackTop = 11
  MaxDepth = 3
INVARIANTS FramesAdjoin
PROPERTIES ImplementsActivations RuntimeUntouched
CHECK_DEADLOCK FALSE
