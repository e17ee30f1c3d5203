\* Two persistent extensions; declarations play no part here (env_core
\* and env_import cover them), so none is declared.
CONSTANTS
  PExtNames = {px, py}
  Entries = {e1}
  ConstNames = {}
  ConstVals = {v1}
  Mods = {mA, mB}
  Modifications = {}
  CppVals = {u1}
  MaxExts = 4
  MaxEntries = 2
  MaxModifs = 0
  MaxRoots = 2
  MaxSessions = 3
  CallerImportsDuringInit = FALSE
  NoEnv = NoEnv
  NoFile = NoFile
  NoState = NoState
  NoValue = NoValue
  Garbage = Garbage
  NameHash <- MCEnvNameHash
SPECIFICATION Spec
SYMMETRY MCSymmetry
INVARIANTS
  StateCacheCoherent
  ImportRoundTrip
