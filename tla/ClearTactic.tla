----------------------------- MODULE ClearTactic -----------------------------
(***************************************************************************)
(* src/library/tactic/clear_tactic.cpp: clear, clear_rec_core and         *)
(* clear_recs over a metavariable context.                                 *)
(*                                                                         *)
(* Hypotheses are the positions 1..NHyps of the goal's local context, in  *)
(* declaration order; a hypothesis can depend only on earlier ones        *)
(* (deps holds <<i, j>> when j's type or value mentions i), and the goal's *)
(* type mentions the hypotheses tdeps.  A metavariable declaration is its *)
(* local context (a set of positions) and its type (kept as tdeps: clear  *)
(* never changes a type).  depends_on and has_dependencies are read off   *)
(* deps and tdeps; assigned metavariables do not add dependencies here.   *)
(*                                                                         *)
(* The functions take `metavar_context &` and throw.  clear throws       *)
(* before it touches mctx; clear_recs does not undo the clears its loop   *)
(* made before one throws, so they stay in mctx.  What a caller does with *)
(* that mctx is outside this file: the goal it works on stays the one it  *)
(* passed.                                                                *)
(***************************************************************************)
EXTENDS Naturals, Sequences, FiniteSets

CONSTANTS
  NHyps,     \* hypotheses in the initial goal's local context
  MaxMVars   \* bound on the metavariables declared in one behaviour

Hyps == 1 .. NHyps

VARIABLES
  deps,      \* <<i, j>>: hypothesis j depends on hypothesis i (i < j)
  isRec,     \* hypotheses whose local info is_rec
  mdecls,    \* metavariable declarations: [ctx, tdeps], index = metavariable
  assigned,  \* the assignment of each metavariable, 0 if unassigned
  goal,      \* the goal the tactics work on
  loop,      \* clear_recs in progress: [active, curr]
  recsDone,  \* history: the goal clear_recs returned last, 0 if none
  recsFrom   \* history: the goal that call of clear_recs started from

vars == <<deps, isRec, mdecls, assigned, goal, loop, recsDone, recsFrom>>

Init ==
  /\ deps \in SUBSET {<<i, j>> \in Hyps \X Hyps : i < j}
  /\ isRec \in SUBSET Hyps
  /\ \E td \in SUBSET Hyps : mdecls = <<[ctx |-> Hyps, tdeps |-> td]>>
  /\ assigned = <<0>>
  /\ goal = 1
  /\ loop = [active |-> FALSE, curr |-> 0]
  /\ recsDone = 0 /\ recsFrom = 0

\* lctx.has_dependencies(d, mctx): a hypothesis of lctx that depends on h.
HasDependencies(ctx, h) == \E j \in ctx : <<h, j>> \in deps

\* Bug variant of ClearThrows: has_dependencies is not consulted.
ClearThrowsNoDepCheck(m, h) ==
  LET g == mdecls[m] IN h \notin g.ctx \/ h \in g.tdeps

\* clear(mctx, mvar, H) throws: H is not in the goal's context, the target
\* depends on H, or a hypothesis of the context depends on H.
ClearThrows(m, h) ==
  LET g == mdecls[m] IN
  h \notin g.ctx \/ h \in g.tdeps \/ HasDependencies(g.ctx, h)

\* Bug variant of ClearResult: the declaration is made from lctx before
\* lctx.clear(*d).
ClearResultBeforeClear(m, h) == mdecls[m]

\* The declaration clear makes otherwise: the context without H, the same
\* type.
ClearResult(m, h) ==
  [ctx |-> mdecls[m].ctx \ {h}, tdeps |-> mdecls[m].tdeps]

\* The successful clear: mk_metavar_decl, then mctx.assign(mvar, new_mvar).
DoClear(m, h) ==
  /\ Len(mdecls) < MaxMVars
  /\ mdecls' = Append(mdecls, ClearResult(m, h))
  /\ assigned' = Append([assigned EXCEPT ![m] = Len(mdecls) + 1], 0)

\* The clear tactic on the goal, succeeding: the goal becomes the new
\* metavariable.
Clear(h) ==
  /\ ~loop.active
  /\ ~ClearThrows(goal, h)
  /\ DoClear(goal, h)
  /\ goal' = Len(mdecls) + 1
  /\ UNCHANGED <<deps, isRec, loop, recsDone, recsFrom>>

\* clear throws: the tactic fails, nothing changes.
ClearFails(h) ==
  /\ ~loop.active
  /\ ClearThrows(goal, h)
  /\ UNCHANGED vars

\* clear_recs is called on the goal.  It declares at most one
\* metavariable per hypothesis, which must fit in MaxMVars.
ClearRecsStart ==
  /\ ~loop.active
  /\ Len(mdecls) + Cardinality(mdecls[goal].ctx) <= MaxMVars
  /\ loop' = [active |-> TRUE, curr |-> goal]
  /\ UNCHANGED <<deps, isRec, mdecls, assigned, goal, recsDone, recsFrom>>

\* clear_rec_core: lctx.find_if finds the first rec hypothesis, in
\* declaration order.
FirstRec(m) ==
  LET rs == mdecls[m].ctx \cap isRec
  IN  IF rs = {} THEN 0 ELSE CHOOSE r \in rs : \A q \in rs : r <= q

\* Bug variant of ClearRecsIter: clear_recs returns after the first clear.
ClearRecsIterOnce ==
  LET r == FirstRec(loop.curr) IN
  /\ loop.active
  /\ r # 0 /\ ~ClearThrows(loop.curr, r)
  /\ DoClear(loop.curr, r)
  /\ goal' = Len(mdecls) + 1 /\ recsDone' = Len(mdecls) + 1
  /\ recsFrom' = goal
  /\ loop' = [loop EXCEPT !.active = FALSE]
  /\ UNCHANGED <<deps, isRec>>

\* One iteration of the clear_recs loop that clears a rec hypothesis.
ClearRecsIter ==
  LET r == FirstRec(loop.curr) IN
  /\ loop.active
  /\ r # 0 /\ ~ClearThrows(loop.curr, r)
  /\ DoClear(loop.curr, r)
  /\ loop' = [loop EXCEPT !.curr = Len(mdecls) + 1]
  /\ UNCHANGED <<deps, isRec, goal, recsDone, recsFrom>>

\* Bug variant of ClearRecsReturn: the loop stops only once the context is
\* empty, not when no rec hypothesis is left.
ClearRecsReturnEmptyOnly ==
  /\ loop.active
  /\ mdecls[loop.curr].ctx = {}
  /\ goal' = loop.curr /\ recsDone' = loop.curr /\ recsFrom' = goal
  /\ loop' = [loop EXCEPT !.active = FALSE]
  /\ UNCHANGED <<deps, isRec, mdecls, assigned>>

\* clear_rec_core returned its argument (next == curr): clear_recs returns
\* it and the tactic continues on it.
ClearRecsReturn ==
  /\ loop.active
  /\ FirstRec(loop.curr) = 0
  /\ goal' = loop.curr /\ recsDone' = loop.curr /\ recsFrom' = goal
  /\ loop' = [loop EXCEPT !.active = FALSE]
  /\ UNCHANGED <<deps, isRec, mdecls, assigned>>

\* clear throws inside clear_rec_core: the exception leaves clear_recs
\* (lines 41-49 catch nothing), and the declarations and assignments of
\* the iterations before it stay in mctx.
ClearRecsFails ==
  LET r == FirstRec(loop.curr) IN
  /\ loop.active
  /\ r # 0 /\ ClearThrows(loop.curr, r)
  /\ loop' = [loop EXCEPT !.active = FALSE]
  /\ UNCHANGED <<deps, isRec, mdecls, assigned, goal, recsDone, recsFrom>>

Next ==
  \/ \E h \in Hyps : Clear(h) \/ ClearFails(h)
  \/ ClearRecsStart \/ ClearRecsIter \/ ClearRecsReturn \/ ClearRecsFails

\* clear_recs runs to its end once called (a plain loop, no waiting).
Spec == Init /\ [][Next]_vars /\ WF_vars(ClearRecsIter \/ ClearRecsReturn \/ ClearRecsFails)

-----------------------------------------------------------------------------

(* Every goal ever declared is well scoped: its local context holds every *)
(* hypothesis that a hypothesis of it depends on, and every hypothesis    *)
(* its type mentions.  clear must refuse (throw) rather than drop a       *)
(* hypothesis something still needs.                                      *)
WellScoped ==
  \A m \in DOMAIN mdecls :
    /\ mdecls[m].tdeps \subseteq mdecls[m].ctx
    /\ \A d \in deps : d[2] \in mdecls[m].ctx => d[1] \in mdecls[m].ctx

(* Every assignment in mctx records one complete clear, also those a     *)
(* clear_recs left behind when it threw halfway: m is assigned a later    *)
(* metavariable with m's type whose context is m's minus exactly one      *)
(* hypothesis, one that neither m's type nor any other hypothesis of m's  *)
(* context depends on.  mk_metavar_decl and assign must both have run on  *)
(* the cleared context before anything can throw.                         *)
AssignmentsAreClears ==
  \A m \in DOMAIN assigned :
    LET n == assigned[m] IN
    n # 0 =>
      /\ n > m
      /\ mdecls[n].tdeps = mdecls[m].tdeps
      /\ \E h \in mdecls[m].ctx :
           /\ mdecls[n].ctx = mdecls[m].ctx \ {h}
           /\ h \notin mdecls[m].tdeps
           /\ ~HasDependencies(mdecls[m].ctx, h)

(* A clear_recs that returns has removed exactly the rec hypotheses of the *)
(* goal it started from, and no other hypothesis.                          *)
RecsResult ==
  recsDone # 0 => mdecls[recsDone].ctx = mdecls[recsFrom].ctx \ isRec

(* clear_recs, once called, returns or throws: its loop ends.             *)
ClearRecsTerminates == loop.active ~> ~loop.active

=============================================================================
