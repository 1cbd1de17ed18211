SPECIFICATION PromotionSpec
CONSTANTS
  MaxNodes = 5
  Ticks = 1
  Segments <- Copies
  Prologues <- Uninitialised
  Forms <- BranchForms
  Locals <- MCLocals
  Globals <- MCGlobals
INVARIANTS
  
  
  AccessesRemoved
  ProgramsAgree
