SPECIFICATION SelSpec
CONSTANTS
  Undef = Undef
  Locals = {a}
  Globals = {g}
  Consts <- MCConsts
  Initial <- MCInitial
  Width = 3
  ArgRegs = 2
  CmpImmediate = 2
  MaxOperands = 2
  MaxNodes = 2
  MaxStmts = 1
INVARIANT IntConditionsTested
CHECK_DEADLOCK FALSE
