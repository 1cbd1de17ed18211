SPECIFICATION ExpressionsSpec
CONSTANTS
  x = x
  y = y
  MaxNodes = 5
  Names <- MCNames
  Values <- MCValues
  Unbound = Unbound
  UserNames <- MCUserNames
  DeclTypes = {"i32", "float", "[i32]"}
  Literals <- MCLiterals
  Operators = {"add", "lt"}
  Signatures <- MCSignatures
  FunctionNames <- MCFunctionNames
  NegIdxExcept = 1
SYMMETRY Symmetric
INVARIANTS
  WellTyped
  DefinitionsDominate
  TruncatedWhereStated
PROPERTIES
  LexicalScoping
CHECK_DEADLOCK FALSE
