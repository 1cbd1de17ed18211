SPECIFICATION PipelineSpec
CONSTANTS
  MaxNodes = 5
  Segments <- MCSegments
  Prologues <- MCPrologues
  Forms <- FlowForms
INVARIANTS
  AssertsHold
  IdomCorrect
  FrontierCorrect
PROPERTIES
  DominatorsTerminate
