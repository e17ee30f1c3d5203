\* spec.md 4.5 on mkModuleData against foldStage2: one module, two
\* sessions, no extensions beyond the modification list.
CONSTANTS
  PExtNames = {px}
  Entries = {e1}
  ConstNames = {1}
  ConstVals = {v1}
  Mods = {mA}
  Modifications = {}
  CppVals = {}
  MaxExts = 1
  MaxEntries = 0
  MaxModifs = 0
  MaxRoots = 1
  MaxSessions = 2
  CallerImportsDuringInit = FALSE
  NoEnv = NoEnv
  NoFile = NoFile
  NoState = NoState
  NoValue = NoValue
  Garbage = Garbage
  NameHash <- MCEnvNameHash
SPECIFICATION Spec
SYMMETRY MCSymmetry
INVARIANT
  AllAddedDeclsWritten
