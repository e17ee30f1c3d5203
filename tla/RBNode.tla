------------------------------- MODULE RBNode -------------------------------
(***************************************************************************)
(* The red-black tree that holds the second stage of the declaration      *)
(* index (SMap's map2), as compiled into init.lean.environment             *)
(* (src/util/object_ref.h): RBNode.ins with balance1 and balance2 inlined, *)
(* RBNode.insert, RBNode.find and the in-order fold of mkModuleData, all   *)
(* specialized at Name with Name.quickLt.                                  *)
(*                                                                         *)
(* A key stands for its rank in the quickLt order, so quickLt is `<` on    *)
(* naturals.  A node is a record; the leaf is a record of its own kind.   *)
(***************************************************************************)
EXTENDS Integers, Sequences

CONSTANT NoValue    \* RBNode.find finding nothing (Option.none)

Red   == "red"      \* colour scalar 0 in the compiled code
Black == "black"    \* colour scalar 1

\* RBNode.leaf (constructor tag 0)
Leaf == [c |-> "leaf"]

\* RBNode.node (constructor tag 1): colour, left, key, value, right.
Node(c, l, k, v, r) == [c |-> c, l |-> l, k |-> k, v |-> v, r |-> r]

\* RBNode.isRed
IsRed(t) == t # Leaf /\ t.c = Red

\* RBNode.setBlack
SetBlack(t) == IF t = Leaf THEN t ELSE [t EXCEPT !.c = Black]

\* balance1 (inlined where ins descends left of a black node whose left
\* child is red): t = ins a, then key k, value v and right subtree b.
\* The colour of t itself is never inspected.

\* t's left child is red: rotate right, blackening that grandchild.
Balance1RedLeft(t, k, v, b) ==
  Node(Red, SetBlack(t.l), t.k, t.v, Node(Black, t.r, k, v, b))

\* t's right child is red: double rotation through that grandchild.
Balance1RedRight(t, k, v, b) ==
  Node(Red, Node(Black, t.l, t.k, t.v, t.r.l), t.r.k, t.r.v,
       Node(Black, t.r.r, k, v, b))

\* Bug variant of Balance1Recolour: key and value stored in each other's
\* place.
Balance1RecolourKVSwapped(t, k, v, b) ==
  Node(Black, [t EXCEPT !.c = Red], v, k, b)

\* No red grandchild: t is rebuilt red under a black node.
Balance1Recolour(t, k, v, b) == Node(Black, [t EXCEPT !.c = Red], k, v, b)

Balance1(t, k, v, b) ==
  CASE t = Leaf    -> Leaf
    [] IsRed(t.l)  -> Balance1RedLeft(t, k, v, b)
    [] IsRed(t.r)  -> Balance1RedRight(t, k, v, b)
    [] OTHER       -> Balance1Recolour(t, k, v, b)

\* balance2, the mirror image, where ins descends right: left subtree a,
\* key k, value v, then t = ins b.

\* Bug variant of Balance2RedLeft: the inner subtrees exchanged.
Balance2RedLeftInnerSwapped(a, k, v, t) ==
  Node(Red, Node(Black, a, k, v, t.l.r), t.l.k, t.l.v,
       Node(Black, t.l.l, t.k, t.v, t.r))

\* t's left child is red: double rotation through that grandchild.
Balance2RedLeft(a, k, v, t) ==
  Node(Red, Node(Black, a, k, v, t.l.l), t.l.k, t.l.v,
       Node(Black, t.l.r, t.k, t.v, t.r))

\* Bug variant of Balance2RedRight: the red grandchild keeps its colour.
Balance2RedRightNoRecolour(a, k, v, t) ==
  Node(Red, Node(Black, a, k, v, t.l), t.k, t.v, t.r)

\* t's right child is red: rotate left, blackening that grandchild.
Balance2RedRight(a, k, v, t) ==
  Node(Red, Node(Black, a, k, v, t.l), t.k, t.v, SetBlack(t.r))

\* No red grandchild: t is rebuilt red under a black node.
Balance2Recolour(a, k, v, t) == Node(Black, a, k, v, [t EXCEPT !.c = Red])

Balance2(a, k, v, t) ==
  CASE t = Leaf    -> Leaf
    [] IsRed(t.l)  -> Balance2RedLeft(a, k, v, t)
    [] IsRed(t.r)  -> Balance2RedRight(a, k, v, t)
    [] OTHER       -> Balance2Recolour(a, k, v, t)

\* RBNode.ins: a red node is descended into without rebalancing; a black
\* node rebalances when the child ins descends into is red; an equal key
\* replaces key and value in place, keeping the colour.
RECURSIVE Ins(_, _, _)
Ins(t, x, vx) ==
  IF t = Leaf THEN Node(Red, Leaf, x, vx, Leaf)
  ELSE IF x < t.k THEN
    IF t.c = Black /\ IsRed(t.l) THEN Balance1(Ins(t.l, x, vx), t.k, t.v, t.r)
    ELSE [t EXCEPT !.l = Ins(t.l, x, vx)]
  ELSE IF t.k < x THEN
    IF t.c = Black /\ IsRed(t.r) THEN Balance2(t.l, t.k, t.v, Ins(t.r, x, vx))
    ELSE [t EXCEPT !.r = Ins(t.r, x, vx)]
  ELSE [t EXCEPT !.k = x, !.v = vx]

\* RBNode.insert: a red root is blackened after the insertion.
Insert(t, k, v) ==
  IF IsRed(t) THEN SetBlack(Ins(t, k, v)) ELSE Ins(t, k, v)

\* RBNode.find
RECURSIVE Find(_, _)
Find(t, x) ==
  IF t = Leaf THEN NoValue
  ELSE IF x < t.k THEN Find(t.l, x)
  ELSE IF t.k < x THEN Find(t.r, x)
  ELSE t.v

\* Bug variant of FoldValues: the node's value pushed before its left
\* subtree.
RECURSIVE FoldValuesPreOrder(_, _)
FoldValuesPreOrder(acc, t) ==
  IF t = Leaf THEN acc
  ELSE FoldValuesPreOrder(FoldValuesPreOrder(Append(acc, t.v), t.l), t.r)

\* RBNode.fold as mkModuleData uses it (foldStage2 pushing every value):
\* left subtree, the node's value, then the right subtree.
RECURSIVE FoldValues(_, _)
FoldValues(acc, t) ==
  IF t = Leaf THEN acc ELSE FoldValues(Append(FoldValues(acc, t.l), t.v), t.r)

-----------------------------------------------------------------------------
(* Structural predicates, used by properties.                             *)

\* The keys of a tree, in order.
RECURSIVE InOrderKeys(_)
InOrderKeys(t) ==
  IF t = Leaf THEN <<>> ELSE InOrderKeys(t.l) \o <<t.k>> \o InOrderKeys(t.r)

\* No red node has a red child.
RECURSIVE NoRedRed(_)
NoRedRed(t) ==
  t = Leaf \/ /\ t.c = Red => ~IsRed(t.l) /\ ~IsRed(t.r)
              /\ NoRedRed(t.l) /\ NoRedRed(t.r)

\* The black height of every path from t to a leaf, or -1 if two differ.
RECURSIVE BlackHeight(_)
BlackHeight(t) ==
  IF t = Leaf THEN 0
  ELSE LET hl == BlackHeight(t.l)
           hr == BlackHeight(t.r)
       IN  IF hl = -1 \/ hl # hr THEN -1
           ELSE hl + (IF t.c = Black THEN 1 ELSE 0)

=============================================================================
