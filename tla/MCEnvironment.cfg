CONSTANTS
  PExtNames = {px}
  Entries = {e1, e2}
  ConstNames = {1}
  ConstVals = {v1, v2}
  Mods = {mA, mB}
  Modifications = {md}
  CppVals = {u1}
  MaxExts = 3
  MaxEntries = 2
  MaxModifs = 1
  MaxRoots = 2
  MaxSessions = 2
  CallerImportsDuringInit = FALSE
  NoEnv = NoEnv
  NoFile = NoFile
  NoState = NoState
  NoValue = NoValue
  Garbage = Garbage
  NameHash <- MCEnvNameHash
SPECIFICATION Spec
SYMMETRY MCSymmetry
INVARIANTS
  TypeOK
  SlotsCover
  SlotsTyped
  StateCacheCoherent
  ImportRoundTrip
  ModuleIdxConsistent
  WrittenDecls
PROPERTY
  PersistentRefines
