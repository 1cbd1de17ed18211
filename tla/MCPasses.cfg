SPECIFICATION PassesSpec
CONSTANTS
  MaxNodes = 4
  Segments <- MCSegments
  Prologues <- MCPrologues
  Forms <- FlowForms
INVARIANTS
  LoopsNatural
  LoopQueriesCorrect
  PredecessorsCurrent
  NothingExecutableErased
  OnlyLoopsLeft
  HoistKeepsShape
  OperandsPrecede
  InvariantsHoisted
PROPERTIES
  PassesEnd
