SPECIFICATION PassesSpec
CONSTANTS
  MaxNodes = 4
  Segments <- MCSegments
  Prologues <- MCPrologues
  Forms <- FlowForms
PROPERTIES
  HoistSearchEnds
