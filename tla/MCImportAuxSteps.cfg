CONSTANTS
  Mods = {mA, mB, mC}
  NoFile = NoFile
  MaxRoots = 2
  MaxImports = 2
SPECIFICATION Spec
CHECK_DEADLOCK FALSE
INVARIANTS
  TypeOK
  AgreesWithRecursive
PROPERTY
  Terminates
