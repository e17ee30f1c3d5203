----------------------------- MODULE MCHashMap -----------------------------
(***************************************************************************)
(* const2ModIdx or the first stage of the declaration index: a sequence   *)
(* of HashMap.insert calls from mkHashMap (8 buckets), each new name or a *)
(* name inserted again.  A reference function records what find must      *)
(* return.                                                                *)
(***************************************************************************)
EXTENDS HashMap, FiniteSets, TLC

CONSTANTS
  NKeys,       \* names are 1..NKeys
  Vals,        \* the values inserted
  InitBuckets  \* mkHashMap's default capacity

Keys == 1 .. NKeys

\* Name hashes chosen so that names collide in groups of three modulo 8
\* and part of each group separates modulo 16, after the expansion.
MCNameHash(k) == <<3, 11, 19, 5, 13, 21, 7, 15, 23>>[k]

VARIABLES
  map,   \* the HashMapImp
  ref    \* the value last inserted under each name (history)

vars == <<map, ref>>

Init == map = MkHashMapImp(InitBuckets) /\ ref = [k \in {} |-> NoValue]

\* HashMap.insert of a name and a value.
Insert(k, v) ==
  /\ map' = HMInsert(map, k, v)
  /\ ref' = (k :> v) @@ ref

Next == \E k \in Keys, v \in Vals : Insert(k, v)

Spec == Init /\ [][Next]_vars

TypeOK ==
  /\ map.size \in Nat
  /\ \A i \in DOMAIN map.buckets : map.buckets[i] \in Seq(Keys \X Vals)
  /\ DOMAIN ref \subseteq Keys

(* find returns the value last inserted under every name, across bucket   *)
(* collisions and every expansion, and nothing for a name never inserted. *)
FindAgrees ==
  \A k \in Keys : HMFind(map, k) = IF k \in DOMAIN ref THEN ref[k] ELSE NoValue

(* The representation stays sound: every pair sits in the bucket of its  *)
(* hash modulo the current number of buckets (so expand rehashed it), a   *)
(* name occurs at most once, the size field counts the pairs, and the     *)
(* number of buckets never falls below the size.                          *)
WellFormed ==
  /\ \A i \in DOMAIN map.buckets : \A j \in DOMAIN map.buckets[i] :
       LET k == map.buckets[i][j][1] IN
         /\ BucketOf(k, Len(map.buckets)) = i
         /\ \A j2 \in DOMAIN map.buckets[i] : map.buckets[i][j2][1] = k => j2 = j
  /\ map.size = Cardinality(DOMAIN ref)
  /\ HMKeys(map) = DOMAIN ref
  /\ map.size <= Len(map.buckets)

=============================================================================
