----------------------------- MODULE MCObjectRef -----------------------------
EXTENDS ObjectRef, TLC

\* Slots and cells are interchangeable: no action tells two apart.
Symm == Permutations(Slots) \cup Permutations(Objs)
=============================================================================
