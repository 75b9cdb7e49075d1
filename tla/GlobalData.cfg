SPECIFICATION Spec
CONSTANTS
  Half = 4
  Literals = {0, 3}
  Binary = {"sub", "div"}
  Garbage <- MCGarbage
  MaxGlobals = 2
  MaxTokens = 4
INVARIANTS InitialisersArrive FoldsStraightLineText
PROPERTIES StopsOnlyForReasons
CHECK_DEADLOCK FALSE
