CONSTANTS
  NKeys = 9
  Vals = {v1, v2}
  NoValue = NoValue
SPECIFICATION Spec
INVARIANTS
  TypeOK
  FindAgrees
  Balanced
  FoldComplete
