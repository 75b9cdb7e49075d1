CONSTANTS
  Statements <- WhileAndStatements
  Conditions <- WhileAndConditions
  Program <- WhileAndProgram
SPECIFICATION CFSpec
INVARIANTS
  InStep
CHECK_DEADLOCK FALSE
