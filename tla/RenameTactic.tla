----------------------------- MODULE RenameTactic -----------------------------
(***************************************************************************)
(* src/library/tactic/rename_tactic.cpp: rename_tactic(from, to).          *)
(*                                                                         *)
(* A goal is its local context, the arguments of its metavariable          *)
(* application, and the locals its type mentions.  A local is its unique  *)
(* name (mlocal_name), taken here as its position in the context, and its  *)
(* pretty-printing name (local_pp_name), which later locals may shadow.    *)
(* ctx[i] is the pp name of local i; type maps each local the type         *)
(* mentions to the pp name that occurrence carries.  Local types and       *)
(* local info are carried along unchanged by the tactic and are left out. *)
(* lastOp records the call a step made, for the action property.           *)
(***************************************************************************)
EXTENDS Naturals, Sequences, FiniteSets

CONSTANTS
  PPNames,     \* pretty-printing names
  MaxLocals,   \* bound on the locals of a goal
  MaxGoals     \* bound on the goals of the proof state

VARIABLES
  goals,       \* s.get_goals()
  lastOp       \* [from, to, ok] of the last call, or [ok |-> "none"]

vars == <<goals, lastOp>>

Contexts == UNION {[1 .. n -> PPNames] : n \in 0 .. MaxLocals}

\* A goal whose type mentions the locals u with the names they were
\* declared with.
GoalsOf(ctx) == {[ctx |-> ctx, type |-> [u \in U |-> ctx[u]]] :
                   U \in SUBSET DOMAIN ctx}

Init ==
  /\ \E n \in 0 .. MaxGoals :
       goals \in [1 .. n -> UNION {GoalsOf(c) : c \in Contexts}]
  /\ lastOp = [ok |-> "none"]

\* The local a pp name resolves to: the last local of ctx with that name,
\* 0 if none.
Resolve(ctx, n) ==
  LET is == {i \in DOMAIN ctx : ctx[i] = n}
  IN  IF is = {} THEN 0 ELSE CHOOSE i \in is : \A j \in is : j <= i

\* Bug variant of LastLocalNamed: the scan runs from the first local.
FirstLocalNamed(ctx, from) ==
  LET is == {i \in DOMAIN ctx : ctx[i] = from}
  IN  IF is = {} THEN 0 ELSE CHOOSE i \in is : \A j \in is : i <= j

\* while (i > 0) { --i; if (local_pp_name(locals[i]) == from) break; }
LastLocalNamed(ctx, from) ==
  LET RECURSIVE Scan(_)
      Scan(i) == IF i = 0 THEN 0
                 ELSE IF ctx[i] = from THEN i ELSE Scan(i - 1)
  IN  Scan(Len(ctx))

\* Bug variant of RenamedGoal: only the metavariable is rewritten.
RenamedGoalMetaOnly(g, i, to) == [g EXCEPT !.ctx[i] = to]

\* goal new_g(replace(meta, fn), replace(type, fn)): fn replaces every
\* local whose unique name is local i by to_local, which has the same
\* unique name and the pp name `to`.
RenamedGoal(g, i, to) ==
  [ctx  |-> [g.ctx EXCEPT ![i] = to],
   type |-> [u \in DOMAIN g.type |-> IF u = i THEN to ELSE g.type[u]]]

\* The tactic succeeds: the head goal is rewritten, the others are kept.
Rename(from, to) ==
  LET g == Head(goals)
      i == LastLocalNamed(g.ctx, from)
  IN  /\ goals # <<>>
      /\ i # 0
      /\ goals' = <<RenamedGoal(g, i, to)>> \o Tail(goals)
      /\ lastOp' = [from |-> from, to |-> to, ok |-> "yes"]

\* The tactic fails (none_proof_state): no goals, or no local named from.
RenameFails(from, to) ==
  /\ IF goals = <<>> THEN TRUE ELSE LastLocalNamed(Head(goals).ctx, from) = 0
  /\ lastOp' = [from |-> from, to |-> to, ok |-> "no"]
  /\ UNCHANGED goals

Next == \E from, to \in PPNames : Rename(from, to) \/ RenameFails(from, to)

Spec == Init /\ [][Next]_vars

-----------------------------------------------------------------------------

\* Every occurrence of a local in a goal's type carries the pp name the
\* goal's context gives that local, after any sequence of renames.
NamesAgree ==
  \A k \in DOMAIN goals :
    \A u \in DOMAIN goals[k].type : goals[k].type[u] = goals[k].ctx[u]

\* A successful rename(from, to), from # to, makes `to` resolve in the head
\* goal to the later of the local `from` resolved to and the local `to`
\* already resolved to (a later `to` still shadows the renamed local);
\* `from` now resolves to an earlier local, and every other name resolves
\* as before.
RenameResolves ==
  [][lastOp'.ok = "yes" /\ lastOp'.from # lastOp'.to =>
       LET f == lastOp'.from
           t == lastOp'.to
           c == Head(goals).ctx
           c2 == Head(goals').ctx
       IN  /\ Resolve(c2, t) = IF Resolve(c, t) > Resolve(c, f)
                               THEN Resolve(c, t) ELSE Resolve(c, f)
           /\ Resolve(c2, f) < Resolve(c, f)
           /\ \A n \in PPNames \ {f, t} : Resolve(c2, n) = Resolve(c, n)]_vars

=============================================================================
