CONSTANTS
  Vars = {a, b}
  ConstVars = {}
  Funcs = {f, g}
  MaxParams = 2
  MaxDeclarators = 2
  MaxDepth = 2
  MaxStmts = 6
SYMMETRY Symmetry
SPECIFICATION StorageSpec
INVARIANTS
  OnlyParamsLeak
  RejectsOnlyErrors
  LocalsAreLocal
  AccessesWork
  OnlyFirstParamsArrive
CHECK_DEADLOCK FALSE
