\* Three hypotheses give every shape of dependency chain and two rec
\* hypotheses to clear in one clear_recs; seven metavariables allow a
\* clear_recs over the full context after two clears.  A proof may stop
\* calling tactics at any point, so a state with no step is not an error;
\* a clear_recs that cannot finish is caught by ClearRecsTerminates.
CONSTANTS
  NHyps = 3
  MaxMVars = 7
SPECIFICATION Spec
CHECK_DEADLOCK FALSE
INVARIANTS
  WellScoped
  AssignmentsAreClears
  RecsResult
PROPERTY
  ClearRecsTerminates
