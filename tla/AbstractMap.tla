---------------------------- MODULE AbstractMap ----------------------------
(***************************************************************************)
(* What a declaration index promises its users (Environment.add, find,    *)
(* contains): a finite map from names to values in which the last value   *)
(* stored under a name is the one found.  How it is stored, and whether   *)
(* it was switched to its second stage, is invisible.                      *)
(***************************************************************************)
EXTENDS TLC

CONSTANTS Keys, Vals

VARIABLES
  dict,   \* the names stored so far, each with its last value
  lastOp  \* the last call made: <<"put", k, v>> or <<"other">>

AbsInit == dict = [k \in {} |-> k] /\ lastOp = <<"other">>

\* Storing v under k replaces whatever k held.
Put(k, v) == dict' = (k :> v) @@ dict /\ lastOp' = <<"put", k, v>>

\* A call that stores nothing leaves every name's value as it was.
Other == UNCHANGED dict /\ lastOp' = <<"other">>

AbsNext == (\E k \in Keys, v \in Vals : Put(k, v)) \/ Other

AbsSpec == AbsInit /\ [][AbsNext]_<<dict, lastOp>>

=============================================================================
