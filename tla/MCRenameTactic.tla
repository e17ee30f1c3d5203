---------------------------- MODULE MCRenameTactic ----------------------------
EXTENDS RenameTactic, TLC

\* The pp names are interchangeable: the tactic only compares them.
Symm == Permutations(PPNames)
=============================================================================
