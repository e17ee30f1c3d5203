CONSTANTS
  NKeys = 4
  Vals = {v1, v2}
  NoValue = NoValue
  NameHash <- MCSMapHash
SPECIFICATION Spec
PROPERTY AbsSpecHolds
