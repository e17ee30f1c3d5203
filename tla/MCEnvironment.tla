--------------------------- MODULE MCEnvironment ---------------------------
(* Instantiation of Environment for TLC: the bounds are in the .cfg files. *)
EXTENDS Environment

(* Every opaque value is only ever compared for equality (the modelled    *)
(* folds keep entries in order but never look inside them), so renaming   *)
(* them consistently maps behaviours to behaviours.                       *)
MCSymmetry ==
  Permutations(Mods) \cup Permutations(ConstVals) \cup Permutations(Entries)
    \cup Permutations(PExtNames) \cup Permutations(CppVals)

\* Declaration names are naturals (their rank in Name.quickLt); each hashes
\* to itself, so names land in distinct buckets of the 8-bucket indexes.
MCEnvNameHash(k) == k

=============================================================================
