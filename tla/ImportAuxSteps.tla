--------------------------- MODULE ImportAuxSteps ---------------------------
(***************************************************************************)
(* importModulesAux as the compiled code runs it (object_ref.h,           *)
(* l_Lean_importModulesAux___main): one call frame per recursive call on  *)
(* a module's imports, the tail call on the rest of a list as a loop.     *)
(* The files on disk are arbitrary: missing files, self imports and       *)
(* import cycles among stale .olean files are all among the initial       *)
(* states.  `partial def` means Lean never proved that the recursion      *)
(* ends; here it is checked, together with agreement with the recursive   *)
(* operator the Environment model uses.                                   *)
(***************************************************************************)
EXTENDS Naturals, Sequences, SequencesExt, FiniteSets

CONSTANTS
  Mods,        \* module names
  NoFile,      \* findOLean fails for this module
  MaxRoots,    \* bound on the length of the requested list of modules
  MaxImports   \* bound on the length of a file's import list

VARIABLES
  olean,    \* the module data file of each module (fixed during the call)
  roots,    \* the list importModules was called with
  stack,    \* call frames: the rest of the list, and the module to push
            \* when the frame returns (None for the outermost call)
  visited,  \* the NameSet s
  mods,     \* the Array ModuleData, as the names of the modules pushed
  status    \* "running", "done" or "failed" (an IO exception)

vars == <<olean, roots, stack, visited, mods, status>>

INSTANCE ImportAux

None == "none"

SeqsUpTo(S, n) == UNION {[1 .. k -> S] : k \in 0 .. n}

Files == {NoFile} \cup {[imports |-> is] : is \in SeqsUpTo(Mods, MaxImports)}

\* A frame is never pushed for a visited module, so the depth never exceeds
\* one frame per module plus the outermost call.
StackBound == Cardinality(Mods) + 1

Init ==
  /\ olean \in [Mods -> Files]
  /\ roots \in SeqsUpTo(Mods, MaxRoots)
  /\ stack = <<[todo |-> roots, after |-> None]>>
  /\ visited = {} /\ mods = <<>> /\ status = "running"

Top == stack[Len(stack)]

\* Bug variant of Return: the outermost call's return also pushes a module.
ReturnPushAlways ==
  /\ status = "running"
  /\ Top.todo = <<>>
  /\ stack' = Front(stack)
  /\ mods' = Append(mods, Top.after)
  /\ status' = IF Len(stack) = 1 THEN "done" ELSE status
  /\ UNCHANGED <<olean, roots, visited>>

\* The list of the current call is empty: the call returns (s, mods), and
\* its caller pushes the module whose imports it read and continues with
\* the rest of its own list; the outermost call returns to importModules.
Return ==
  /\ status = "running"
  /\ Top.todo = <<>>
  /\ stack' = Front(stack)
  /\ mods' = IF Top.after = None THEN mods ELSE Append(mods, Top.after)
  /\ status' = IF Len(stack) = 1 THEN "done" ELSE status
  /\ UNCHANGED <<olean, roots, visited>>

\* Bug variant of SkipVisited: the loop does not advance past the module.
SkipVisitedNoAdvance ==
  /\ status = "running"
  /\ Top.todo # <<>> /\ Head(Top.todo) \in visited
  /\ UNCHANGED vars

\* The head of the list is already in s: continue with the rest.
SkipVisited ==
  /\ status = "running"
  /\ Top.todo # <<>> /\ Head(Top.todo) \in visited
  /\ stack' = [stack EXCEPT ![Len(stack)].todo = Tail(@)]
  /\ UNCHANGED <<olean, roots, visited, mods, status>>

\* Bug variant of Visit: the module is not added to s.
VisitNoMark ==
  LET m == Head(Top.todo) IN
  /\ status = "running"
  /\ Top.todo # <<>> /\ m \notin visited /\ olean[m] # NoFile
  /\ Len(stack) < StackBound
  /\ stack' = Append([stack EXCEPT ![Len(stack)].todo = Tail(@)],
                     [todo |-> olean[m].imports, after |-> m])
  /\ UNCHANGED <<olean, roots, visited, mods, status>>

\* A new module: s.insert m, findOLean, readModuleData, then the recursive
\* call on the module's imports.
Visit ==
  LET m == Head(Top.todo) IN
  /\ status = "running"
  /\ Top.todo # <<>> /\ m \notin visited /\ olean[m] # NoFile
  /\ Len(stack) < StackBound
  /\ visited' = visited \cup {m}
  /\ stack' = Append([stack EXCEPT ![Len(stack)].todo = Tail(@)],
                     [todo |-> olean[m].imports, after |-> m])
  /\ UNCHANGED <<olean, roots, mods, status>>

\* findOLean throws for a new module: the exception ends the whole call.
NotFound ==
  /\ status = "running"
  /\ Top.todo # <<>> /\ Head(Top.todo) \notin visited
  /\ olean[Head(Top.todo)] = NoFile
  /\ status' = "failed"
  /\ UNCHANGED <<olean, roots, stack, visited, mods>>

Next == Return \/ SkipVisited \/ Visit \/ NotFound

\* importModulesAux is a sequential computation: once called, it keeps
\* taking steps until it returns or throws.
Spec == Init /\ [][Next]_vars /\ WF_vars(Next)

-----------------------------------------------------------------------------

TypeOK ==
  /\ olean \in [Mods -> Files]
  /\ stack \in Seq([todo : Seq(Mods), after : Mods \cup {None}])
  /\ visited \subseteq Mods
  /\ mods \in Seq(Mods)
  /\ status \in {"running", "done", "failed"}

(* importModulesAux ends on every set of files, stale cycles and self     *)
(* imports included: it returns or throws after finitely many steps.      *)
Terminates == <>(status # "running")

(* The step-by-step execution ends with what the recursive operator of    *)
(* the Environment model computes: the same modules in the same order and *)
(* the same visited set when it returns, and a failure exactly when the   *)
(* operator reports one.                                                  *)
AgreesWithRecursive ==
  LET r == ImportModulesAux(roots, {}, <<>>) IN
  /\ status = "done" => r.ok /\ r.mods = mods /\ r.s = visited
  /\ status = "failed" => ~r.ok

=============================================================================
