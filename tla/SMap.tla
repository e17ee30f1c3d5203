-------------------------------- MODULE SMap --------------------------------
(***************************************************************************)
(* The staged map that indexes an Environment's declarations              *)
(* (SMap Name ConstantInfo Name.quickLt), as compiled into                *)
(* init.lean.environment (src/util/object_ref.h).  Stage 1 (the flag set) *)
(* inserts into and looks up in a HashMap (map1); after the one-way       *)
(* switch, inserts go to a red-black tree (map2) and a lookup tries map2   *)
(* first, then map1.                                                      *)
(***************************************************************************)
EXTENDS Naturals

CONSTANT NoValue     \* a lookup that finds nothing (Option.none)
CONSTANT NameHash(_) \* lean_name_hash_usize

INSTANCE HashMap
INSTANCE RBNode

\* SMap.empty: stage 1, mkHashMap with its default 8 buckets, an empty tree.
SMapEmpty == [stage1 |-> TRUE, map1 |-> MkHashMapImp(8), map2 |-> Leaf]

\* SMap.insert into whichever store the stage selects.
SMapInsert(m, k, v) ==
  IF m.stage1 THEN [m EXCEPT !.map1 = HMInsert(@, k, v)]
              ELSE [m EXCEPT !.map2 = Insert(@, k, v)]

\* Bug variant of SMapFind: after the switch, map1 is consulted first.
SMapFindStage1First(m, k) ==
  IF m.stage1 THEN HMFind(m.map1, k)
  ELSE LET r == HMFind(m.map1, k)
       IN  IF r = NoValue THEN Find(m.map2, k) ELSE r

\* SMap.find: in stage 1 only map1; after the switch map2, then map1.
SMapFind(m, k) ==
  IF m.stage1 THEN HMFind(m.map1, k)
  ELSE LET r == Find(m.map2, k)
       IN  IF r = NoValue THEN HMFind(m.map1, k) ELSE r

\* SMap.switch: a map already switched is returned as it is.
SMapSwitch(m) == [m EXCEPT !.stage1 = FALSE]

\* SMap.foldStage2 pushing every value, as mkModuleData calls it: the
\* values of map2 in key order.
SMapStage2(m) == FoldValues(<<>>, m.map2)

=============================================================================
