\* Three pp names over three locals give a name shadowed twice, a rename to
\* a name a later local shadows, and a third name the rename must leave
\* alone; two goals show the goals after the head are kept.
CONSTANTS
  PPNames = {a, b, c}
  MaxLocals = 3
  MaxGoals = 2
SYMMETRY Symm
SPECIFICATION Spec
INVARIANTS
  NamesAgree
PROPERTY
  RenameResolves
