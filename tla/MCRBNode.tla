------------------------------ MODULE MCRBNode ------------------------------
(***************************************************************************)
(* The declaration index of an environment after the switch: a sequence   *)
(* of Environment.add calls, each an SMap.insert into map2, i.e. an        *)
(* RBNode.insert.  A reference function records what find must return.    *)
(***************************************************************************)
EXTENDS RBNode, FiniteSets, TLC

CONSTANTS
  NKeys,      \* declaration names are 1..NKeys in quickLt order
  Vals        \* declarations of those names

Keys == 1 .. NKeys

VARIABLES
  tree,       \* the RBNode of map2
  ref         \* the value last added under each name (history)

vars == <<tree, ref>>

Init == tree = Leaf /\ ref = [k \in {} |-> NoValue]

\* Environment.add after the switch: SMap.insert into map2.
Add(k, v) ==
  /\ tree' = Insert(tree, k, v)
  /\ ref' = (k :> v) @@ ref

Next == \E k \in Keys, v \in Vals : Add(k, v)

Spec == Init /\ [][Next]_vars

\* Every node is a well-formed node over the key and value sets.
RECURSIVE IsTree(_)
IsTree(t) ==
  t = Leaf \/ /\ DOMAIN t = {"c", "l", "k", "v", "r"}
              /\ t.c \in {Red, Black} /\ t.k \in Keys /\ t.v \in Vals
              /\ IsTree(t.l) /\ IsTree(t.r)

TypeOK == IsTree(tree) /\ ref \in [DOMAIN ref -> Vals] /\ DOMAIN ref \subseteq Keys

(* Lookup is exact: after any sequence of adds, RBNode.find returns the   *)
(* value last added under each name, and nothing for names never added;   *)
(* the tree is a search tree (its in-order keys strictly increase), so    *)
(* the rotations of balance1/balance2 never move a key to the wrong side. *)
FindAgrees ==
  /\ \A k \in Keys :
       Find(tree, k) = IF k \in DOMAIN ref THEN ref[k] ELSE NoValue
  /\ LET ks == InOrderKeys(tree)
     IN  \A i \in 1 .. Len(ks) - 1 : ks[i] < ks[i + 1]

(* The red-black shape holds after every insertion: no red node has a red *)
(* child and every path has the same number of black nodes.  ins lets a   *)
(* red-red pair rise to the nearest black ancestor, where balance1 or      *)
(* balance2 must remove it, and insert must blacken a red root.           *)
Balanced == NoRedRed(tree) /\ BlackHeight(tree) >= 0

(* mkModuleData's in-order fold writes every declaration of map2 exactly *)
(* once, in key order.                                                    *)
FoldComplete ==
  FoldValues(<<>>, tree) = [i \in 1 .. Cardinality(DOMAIN ref) |->
                              ref[InOrderKeys(tree)[i]]]

=============================================================================
