SPECIFICATION NamingSpec
CONSTANTS
  b = b
  i1 = i1
  i2 = i2
  i3 = i3
  Leaves <- MCLeaves
  Named <- MCNamed
  Instrs <- MCInstrs
  MaxOperands = 2
SYMMETRY Symmetric
INVARIANTS
  
  UsesComplete
  
PROPERTIES
  ReplacesEveryUse
CHECK_DEADLOCK FALSE
