CONSTANTS
  Statements <- MCStatements
  Conditions <- MCConditions
  Program <- MCProgram
SPECIFICATION FairCFSpec
INVARIANTS
  EdgesMatchCode
  ListsNamePlaceholders
  InStep
PROPERTIES
  NeverStalls
CHECK_DEADLOCK FALSE
