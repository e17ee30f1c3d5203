------------------------- MODULE PersistentExtension -------------------------
(***************************************************************************)
(* What a persistent environment extension promises the code that uses    *)
(* it (spec.md, persistent extensions): in every environment, the state   *)
(* getState returns is the extension's initial state folded with the      *)
(* entries of the imported modules, in module order and marked imported,  *)
(* and then with the entries addEntry added to this environment, oldest   *)
(* first and marked local.  Whether the state is memoized, computed at    *)
(* import or forced later, is invisible.                                   *)
(*                                                                         *)
(* view is NoEnv when no environment is held, otherwise a function from   *)
(* each registered extension to what a user of it can observe.            *)
(***************************************************************************)
EXTENDS Sequences, SequencesExt

CONSTANTS
  Entries,   \* entry values
  NoEnv      \* no environment

VARIABLES
  registered,  \* the extensions registered so far
  view

pvars == <<registered, view>>

\* addEntryFn of the modelled extensions: record the entry and whether it
\* came from an imported module.
Step(isImported, s, a) == Append(s, <<isImported, a>>)

\* The state an extension has in a fresh environment: its initial state
\* folded with the flattened imported entries.
Fresh(v) ==
  /\ v.local = <<>>
  /\ v.state = FoldLeft(LAMBDA s, a : Step(TRUE, s, a), v.init,
                        FlattenSeq(v.imported))

PInit == registered = {} /\ view = NoEnv

\* Extensions are registered only while no environment is held.
Register ==
  /\ view = NoEnv
  /\ registered \subseteq registered'
  /\ UNCHANGED view

\* mkEmptyEnvironment or importModules: a new environment replaces the
\* one held, and every extension starts from its imported state.
Open ==
  /\ view' # NoEnv
  /\ DOMAIN view' = registered
  /\ \A p \in registered : Fresh(view'[p])
  /\ UNCHANGED registered

\* addEntry(p, a): only extension p observes it, and its state advances
\* by exactly one local step.
AddEntry(p, a) ==
  /\ view # NoEnv
  /\ view' = [view EXCEPT ![p].local = Append(@, a),
                          ![p].state = Step(FALSE, @, a)]
  /\ UNCHANGED registered

\* The environment is dropped (after writeModule).
Close == view' = NoEnv /\ UNCHANGED registered

PNext ==
  \/ Register \/ Open \/ Close
  \/ \E p \in registered, a \in Entries : AddEntry(p, a)

PSpec == PInit /\ [][PNext]_pvars

=============================================================================
