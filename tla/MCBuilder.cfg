SPECIFICATION BuilderSpec
CONSTANTS
  MaxNodes = 5
  Segments <- MCSegments
  Prologues <- MCPrologues
  Forms <- AllForms
INVARIANTS
  TypeOK
  OpenInsertBlock
  WellTerminated
  EdgesConsistent
  ScopesBalanced
  NoBlockForgotten
  StructuredLoops
PROPERTIES
  ClosedBlocksStayClosed
