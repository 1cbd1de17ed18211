SPECIFICATION FoldingSpec
CONSTANTS
  x = x
  MaxNodes = 6
  Names <- MCNames
  Values <- MCValues
  Unbound = Unbound
  UserNames <- MCUserNames
  DeclTypes = {"i32", "float"}
  Literals <- MCLiterals
  Operators = {"add", "sdiv", "lt"}
  Signatures <- MCSignatures
  FunctionNames <- MCFunctionNames
  NegIdxExcept = 1
  Width = 3
  Starts = {0, 1}
INVARIANTS
  FoldingPreserves
  FoldedWellTyped
CHECK_DEADLOCK FALSE
