CONSTANTS
  NKeys = 9
  Vals = {v1, v2}
  InitBuckets = 8
  NoValue = NoValue
  NameHash <- MCNameHash
SPECIFICATION Spec
INVARIANTS
  TypeOK
  FindAgrees
  WellFormed
