------------------------------ MODULE HashMap ------------------------------
(***************************************************************************)
(* HashMapImp specialized at Name, as compiled into init.lean.environment  *)
(* (src/util/object_ref.h): the first stage of the declaration index and  *)
(* const2ModIdx.  A map is its size and an array of buckets; a bucket is  *)
(* an AssocList, here a sequence of <<key, value>> pairs, head first.     *)
(* The bucket of a key is its name hash modulo the number of buckets      *)
(* (usize_modn); inserting a new key that brings the size past the number *)
(* of buckets doubles the array and moves every entry (expand,            *)
(* moveEntries).                                                          *)
(***************************************************************************)
EXTENDS Naturals, Sequences, SequencesExt

CONSTANT NoValue     \* find finding nothing (Option.none)
CONSTANT NameHash(_) \* lean_name_hash_usize

\* mkHashMapImp n: n empty buckets (the declaration indexes use n = 8).
MkHashMapImp(n) == [size |-> 0, buckets |-> [i \in 1 .. n |-> <<>>]]

\* The array position (1-based) of key k's bucket in an array of n buckets.
BucketOf(k, n) == (NameHash(k) % n) + 1

\* AssocList.contains
AssocContains(k, l) == \E i \in DOMAIN l : l[i][1] = k

\* AssocList.find: the value of the first pair with key k.
AssocFind(k, l) ==
  LET i == SelectInSeq(l, LAMBDA e : e[1] = k)
  IN  IF i = 0 THEN NoValue ELSE l[i][2]

\* AssocList.replace: the first pair with key k becomes <<k, v>>, in place.
AssocReplace(k, v, l) ==
  LET i == SelectInSeq(l, LAMBDA e : e[1] = k)
  IN  IF i = 0 THEN l ELSE [l EXCEPT ![i] = <<k, v>>]

\* Bug variant of MoveBucket: the index computed for the old array size.
MoveBucketStaleIndex(target, l) ==
  FoldLeft(LAMBDA t, e : LET j == BucketOf(e[1], Len(t) \div 2)
                         IN  [t EXCEPT ![j] = <<e>> \o @],
           target, l)

\* AssocList.foldl as moveEntries uses it: each pair of l, head first, is
\* consed onto the head of its bucket in the new array.
MoveBucket(target, l) ==
  FoldLeft(LAMBDA t, e : LET j == BucketOf(e[1], Len(t))
                         IN  [t EXCEPT ![j] = <<e>> \o @],
           target, l)

\* HashMapImp.moveEntries: every old bucket, in array order.
MoveEntries(buckets, target) == FoldLeft(MoveBucket, target, buckets)

\* HashMapImp.expand: twice as many buckets.
Expand(size, buckets) ==
  [size    |-> size,
   buckets |-> MoveEntries(buckets, [i \in 1 .. 2 * Len(buckets) |-> <<>>])]

\* Bug variant of HMInsert: the pair built as <<value, key>>.
HMInsertPairSwapped(m, k, v) ==
  LET i == BucketOf(k, Len(m.buckets))
      b == m.buckets[i]
  IN  IF ~AssocContains(k, b)
      THEN LET size == m.size + 1
               bs   == [m.buckets EXCEPT ![i] = <<<<v, k>>>> \o b]
           IN  IF size <= Len(m.buckets) THEN [size |-> size, buckets |-> bs]
               ELSE Expand(size, bs)
      ELSE [m EXCEPT !.buckets[i] = AssocReplace(k, v, b)]

\* Bug variant of HMInsert: no contains check, an existing name is consed
\* again as if new.
HMInsertNoContains(m, k, v) ==
  LET i    == BucketOf(k, Len(m.buckets))
      size == m.size + 1
      bs   == [m.buckets EXCEPT ![i] = <<<<k, v>>>> \o @]
  IN  IF size <= Len(m.buckets) THEN [size |-> size, buckets |-> bs]
      ELSE Expand(size, bs)

\* HashMapImp.insert
HMInsert(m, k, v) ==
  LET i == BucketOf(k, Len(m.buckets))
      b == m.buckets[i]
  IN  IF ~AssocContains(k, b)
      THEN LET size == m.size + 1
               bs   == [m.buckets EXCEPT ![i] = <<<<k, v>>>> \o b]
           IN  IF size <= Len(m.buckets) THEN [size |-> size, buckets |-> bs]
               ELSE Expand(size, bs)
      ELSE [m EXCEPT !.buckets[i] = AssocReplace(k, v, b)]

\* HashMapImp.find
HMFind(m, k) == AssocFind(k, m.buckets[BucketOf(k, Len(m.buckets))])

\* The keys held (used by properties and by the composed modules).
HMKeys(m) == UNION {{e[1] : e \in Range(m.buckets[i])} : i \in DOMAIN m.buckets}

=============================================================================
