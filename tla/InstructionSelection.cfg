SPECIFICATION SelSpec
CONSTANTS
  Undef = Undef
  Locals = {a}
  Globals = {g}
  Consts <- MCConsts
  Initial <- MCInitial
  Width = 3
  ArgRegs = 2
  CmpImmediate = 2
  MaxOperands = 3
  MaxNodes = 5
  MaxStmts = 1
INVARIANTS ValuesRight EffectsRight UndefinedOnlyAfterConversion
CHECK_DEADLOCK FALSE
