SPECIFICATION PromotionSpec
CONSTANTS
  MaxNodes = 6
  Ticks = 2
  Segments <- CopyChain
  Prologues <- Initialised
  Forms <- LoopForms
  Locals <- MCLocals
  Globals <- MCGlobals
INVARIANTS
  StacksBalanced
  ProgramsAgree
  LivenessExact
