CONSTANTS
  PExtNames = {px}
  Entries = {e1}
  ConstNames = {1}
  ConstVals = {v1}
  Mods = {mA, mB, mC}
  Modifications = {}
  CppVals = {}
  MaxExts = 2
  MaxEntries = 1
  MaxModifs = 0
  MaxRoots = 2
  MaxSessions = 4
  CallerImportsDuringInit = FALSE
  NoEnv = NoEnv
  NoFile = NoFile
  NoState = NoState
  NoValue = NoValue
  Garbage = Garbage
  NameHash <- MCEnvNameHash
SPECIFICATION Spec
SYMMETRY MCSymmetry
INVARIANTS
  ImportRoundTrip
  DeclRoundTrip
  ImportTopological
