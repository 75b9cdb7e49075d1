SPECIFICATION CheckSpec
CONSTANTS
  Literals = {0, 2}
  Named = {0}
  Signatures <- MCSignatures
  MaxOperands = 3
  MaxNodes = 4
  MaxChecked = 2
  MaxFuncs = 2
CHECK_DEADLOCK FALSE
INVARIANTS
  TypeOK FoldingIsRight RejectsOnlyWrong AcceptedErrorsAreKnown
