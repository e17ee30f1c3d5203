\* Three slots let a copy-assign target, its source and a third holder of
\* the same object coexist; four cells give a two-level constructor whose field
\* is a constructor shared twice; two fields make mk_cnstr share an argument.
CONSTANTS
  Slots = {s1, s2, s3}
  Objs = {o1, o2, o3, o4}
  MaxFields = 2
  Null = Null
  Dead = Dead
SYMMETRY Symm
SPECIFICATION Spec
INVARIANTS
  MemorySafe
  RcExact
