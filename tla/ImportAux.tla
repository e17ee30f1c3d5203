----------------------------- MODULE ImportAux -----------------------------
(***************************************************************************)
(* importModulesAux (environment.lean, compiled in src/util/object_ref.h) *)
(* as a recursive operator over the module files on disk: olean[m] is the *)
(* module data of m (only its imports are read here), or NoFile when      *)
(* findOLean fails.  The result records whether the import got through,  *)
(* the visited set and the modules read, in the order they are pushed.    *)
(***************************************************************************)
EXTENDS Sequences

CONSTANT NoFile   \* a module whose .olean findOLean cannot find
VARIABLE olean    \* the module data file of each module, or NoFile

\* Bug variant of ImportModulesAux: a module is appended before its imports.
RECURSIVE ImportModulesAuxPreOrder(_, _, _)
ImportModulesAuxPreOrder(ms, s, mods) ==
  IF ms = <<>> THEN [ok |-> TRUE, s |-> s, mods |-> mods]
  ELSE LET m == Head(ms) IN
    IF m \in s THEN ImportModulesAuxPreOrder(Tail(ms), s, mods)
    ELSE IF olean[m] = NoFile THEN [ok |-> FALSE, s |-> s, mods |-> mods]
    ELSE LET r == ImportModulesAuxPreOrder(olean[m].imports, s \cup {m}, Append(mods, m))
         IN  IF ~r.ok THEN r ELSE ImportModulesAuxPreOrder(Tail(ms), r.s, r.mods)

\* importModulesAux: depth first, marking a module visited before its
\* imports, appending it after them.  A module without a file aborts the
\* whole import (findOLean throws).
RECURSIVE ImportModulesAux(_, _, _)
ImportModulesAux(ms, s, mods) ==
  IF ms = <<>> THEN [ok |-> TRUE, s |-> s, mods |-> mods]
  ELSE LET m == Head(ms) IN
    IF m \in s THEN ImportModulesAux(Tail(ms), s, mods)
    ELSE IF olean[m] = NoFile THEN [ok |-> FALSE, s |-> s, mods |-> mods]
    ELSE LET r == ImportModulesAux(olean[m].imports, s \cup {m}, mods)
         IN  IF ~r.ok THEN r
             ELSE ImportModulesAux(Tail(ms), r.s, Append(r.mods, m))

=============================================================================
