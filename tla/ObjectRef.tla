------------------------------ MODULE ObjectRef ------------------------------
(***************************************************************************)
(* src/util/object_ref.h and object_ref.cpp: the object_ref smart pointer *)
(* that C++ code uses to hold Lean objects, and mk_cnstr.                 *)
(*                                                                         *)
(* A slot is one object_ref variable (a local, a member, a temporary);    *)
(* Dead when it is not constructed, otherwise its m_obj: Null or an       *)
(* object.  The heap gives each object its reference count (0: free) and  *)
(* its constructor fields, and records a use after free: inc or dec of an *)
(* object whose count is 0.  A source of a copy is a slot, or the i-th    *)
(* field of the constructor a slot holds, which cnstr_obj_ref returns as  *)
(* an `object_ref const &` aliasing the object's own memory.  inc, dec    *)
(* and alloc_cnstr are in runtime/object.h, which this repository does    *)
(* not contain; they are modelled by what the runtime documents: dec of   *)
(* the last reference frees the object and decs its fields.               *)
(***************************************************************************)
EXTENDS Naturals, Sequences, FiniteSets, SequencesExt

CONSTANTS
  Slots,      \* object_ref variables
  Objs,       \* heap cells
  MaxFields,  \* bound on the fields mk_cnstr is given
  Null,       \* nullptr
  Dead        \* a slot outside its lifetime

VARIABLES
  ref,        \* m_obj of each slot
  heap        \* [rc, fields, uaf]

vars == <<ref, heap>>

Live(s) == ref[s] # Dead

Init ==
  /\ ref = [s \in Slots |-> Dead]
  /\ heap = [rc |-> [o \in Objs |-> 0], fields |-> [o \in Objs |-> <<>>],
             uaf |-> FALSE]

\* inc(o): a use after free when o is already free.
IncObj(h, o) ==
  IF h.rc[o] = 0 THEN [h EXCEPT !.uaf = TRUE] ELSE [h EXCEPT !.rc[o] = @ + 1]

\* Bug variant of DecObj: the last dec frees the cell but not its fields.
DecObjNoCascade(h, o) ==
  CASE h.rc[o] = 0 -> [h EXCEPT !.uaf = TRUE]
    [] OTHER       -> [h EXCEPT !.rc[o] = @ - 1]

\* dec(o): the last reference frees o, then decs each of its fields.
RECURSIVE DecObj(_, _)
DecObj(h, o) ==
  CASE h.rc[o] = 0 -> [h EXCEPT !.uaf = TRUE]
    [] h.rc[o] = 1 -> FoldLeft(DecObj, [h EXCEPT !.rc[o] = 0], h.fields[o])
    [] OTHER       -> [h EXCEPT !.rc[o] = @ - 1]

\* `if (m_obj) inc(m_obj)` and `if (m_obj) dec(m_obj)`.
Retain(h, p) == IF p = Null THEN h ELSE IncObj(h, p)
Release(h, p) == IF p = Null THEN h ELSE DecObj(h, p)

\* The sources a copy can read: a live slot, or cnstr_obj_ref(slot, i).
Sources ==
  {[slot |-> s, field |-> 0] : s \in {t \in Slots : Live(t)}}
  \cup UNION {{[slot |-> s, field |-> i] : i \in DOMAIN heap.fields[ref[s]]} :
                s \in {t \in Slots : ref[t] \in Objs}}

\* cnstr_obj_ref(ref, i): the object_ref stored in field i of ref's object.
Value(src) ==
  IF src.field = 0 THEN ref[src.slot]
  ELSE heap.fields[ref[src.slot]][src.field]

\* object_ref(): m_obj(nullptr).
DefaultCtor(s) ==
  /\ ~Live(s)
  /\ ref' = [ref EXCEPT ![s] = Null]
  /\ UNCHANGED heap

\* mk_cnstr(tag, n, objs): object_ref r(alloc_cnstr(..)) owns a fresh cell
\* with count 1 (the explicit constructor); each objs[i] is inc'ed and
\* stored as field i.  The result initialises slot s, or is move-assigned
\* to it (`s = mk_cnstr(..)`), which decs what s held after the incs.
MkCnstr(s, o, args) ==
  LET vals == [i \in DOMAIN args |-> Value(args[i])]
      made == FoldLeft(IncObj, [heap EXCEPT !.rc[o] = 1, !.fields[o] = vals],
                       vals)
  IN  /\ heap.rc[o] = 0
      /\ \A i \in DOMAIN vals : vals[i] # Null
      /\ heap' = IF Live(s) THEN Release(made, ref[s]) ELSE made
      /\ ref' = [ref EXCEPT ![s] = o]

\* object_ref(object_ref const & s): share s's object.
CopyCtor(s, src) ==
  /\ ~Live(s)
  /\ ref' = [ref EXCEPT ![s] = Value(src)]
  /\ heap' = Retain(heap, Value(src))

\* Bug variant of MoveCtor: the source keeps its pointer.
MoveCtorKeepSource(s, t) ==
  /\ ~Live(s) /\ Live(t)
  /\ ref' = [ref EXCEPT ![s] = ref[t]]
  /\ UNCHANGED heap

\* object_ref(object_ref && s): steal s's pointer and null it.
MoveCtor(s, t) ==
  /\ ~Live(s) /\ Live(t)
  /\ ref' = [ref EXCEPT ![s] = ref[t], ![t] = Null]
  /\ UNCHANGED heap

\* ~object_ref().
Destroy(s) ==
  /\ Live(s)
  /\ heap' = Release(heap, ref[s])
  /\ ref' = [ref EXCEPT ![s] = Dead]

\* Bug variant of CopyAssign: the old object is released before the new
\* one is retained.
CopyAssignDecFirst(s, src) ==
  /\ Live(s)
  /\ heap' = Retain(Release(heap, ref[s]), Value(src))
  /\ ref' = [ref EXCEPT ![s] = Value(src)]

\* operator=(object_ref const & s): inc the new object, then dec the old.
CopyAssign(s, src) ==
  /\ Live(s)
  /\ heap' = Release(Retain(heap, Value(src)), ref[s])
  /\ ref' = [ref EXCEPT ![s] = Value(src)]

\* operator=(object_ref && s): dec the old object, take s's pointer, then
\* null s (so `x = std::move(x)` leaves x null).
MoveAssign(s, t) ==
  /\ Live(s) /\ Live(t)
  /\ heap' = Release(heap, ref[s])
  /\ ref' = [[ref EXCEPT ![s] = ref[t]] EXCEPT ![t] = Null]

\* object_ref::swap(a, b).
Swap(a, b) ==
  /\ Live(a) /\ Live(b)
  /\ ref' = [ref EXCEPT ![a] = ref[b], ![b] = ref[a]]
  /\ UNCHANGED heap

Next ==
  \E s \in Slots :
    \/ DefaultCtor(s)
    \/ Destroy(s)
    \/ \E o \in Objs, n \in 0 .. MaxFields :
         \E args \in [1 .. n -> Sources] : MkCnstr(s, o, args)
    \/ \E src \in Sources : CopyCtor(s, src) \/ CopyAssign(s, src)
    \/ \E t \in Slots : MoveCtor(s, t) \/ MoveAssign(s, t) \/ Swap(s, t)

Spec == Init /\ [][Next]_vars

-----------------------------------------------------------------------------

\* The references to o: slots holding it and fields of live cells naming it.
Refs(o) ==
  Cardinality({s \in Slots : ref[s] = o})
  + Cardinality({<<p, i>> \in Objs \X (1 .. MaxFields) :
                   /\ heap.rc[p] > 0
                   /\ i \in DOMAIN heap.fields[p]
                   /\ heap.fields[p][i] = o})

\* Every object's count is exactly the number of slots and live fields
\* that point to it, across any sequence of constructions, copies, moves,
\* assignments (self-assignment and assignment from a field of the
\* assigned object included), swaps, destructions and mk_cnstr calls:
\* no slot or field points to a freed cell, and no cell nothing points to
\* stays allocated.
RcExact == \A o \in Objs : heap.rc[o] = Refs(o)

\* No inc or dec ever touches a freed cell: operator= is safe when the
\* source is the target itself or lives inside the object the target
\* releases.
MemorySafe == ~heap.uaf

=============================================================================
