---------------------------- MODULE Environment ----------------------------
(***************************************************************************)
(* init/lean/environment.lean: the extension registry, the Environment    *)
(* value, persistent environment extensions, writing a module's data      *)
(* (.olean) and importing modules.                                        *)
(*                                                                         *)
(* The process state is the registry (envExtensionsRef,                   *)
(* persistentEnvExtensionsRef), the IO.initializing flag, the .olean      *)
(* files on disk and the Environment value the elaborator currently       *)
(* holds.  Environment values are immutable: every operation builds a new *)
(* value from `env` and the elaborator continues with it.                 *)
(*                                                                         *)
(* Type erasure: an extension slot holds a value whose type only the      *)
(* extension knows; the model records the kind of each registered         *)
(* extension so that properties can read the slot at its real type.      *)
(* A user fold (addEntryFn) is modelled by the most discriminating fold   *)
(* there is: it appends <<isImported, entry>> to the state, so any change *)
(* of order, provenance flag, duplication or loss is visible.             *)
(***************************************************************************)
EXTENDS Naturals, Sequences, SequencesExt, FiniteSets, TLC, Graphs

CONSTANTS
  PExtNames,      \* names persistent extensions may be registered under
  Entries,        \* opaque persistent-extension entries (EnvExtensionEntry)
  ConstNames,     \* declaration names
  ConstVals,      \* tells two declarations of the same name apart
  Mods,           \* module names, one .olean file each
  Modifications,  \* opaque legacy Modification objects
  CppVals,        \* opaque states of extensions registered from C++
  MaxExts,        \* bound on the number of registered extensions
  MaxEntries,     \* bound on entries added to one extension in a module
  MaxModifs,      \* bound on modifications added in a module
  MaxRoots,       \* bound on the length of an importModules request
  MaxSessions,    \* bound on the environments built (one per compiled module)
  CallerImportsDuringInit, \* may importModules be called while initializing
  NoEnv, NoFile, NoState, NoValue, Garbage

CONSTANT NameHash(_) \* lean_name_hash_usize, the hash of a declaration name

ASSUME MaxExts \in Nat /\ MaxEntries \in Nat /\ MaxModifs \in Nat
ASSUME CallerImportsDuringInit \in BOOLEAN

INSTANCE SMap

VARIABLES
  initializing,  \* IO.initializing
  exts,          \* envExtensionsRef: every registered EnvExtension
  pExts,         \* persistentEnvExtensionsRef
  env,           \* the Environment the elaborator holds, or NoEnv
  olean,         \* the module data file of each module, or NoFile
  sessions,      \* environments built so far (bounded by MaxSessions)
  \* history variables, read only by properties:
  loaded,        \* module names, in order, of the last successful import
  loadedData,    \* the module data read by that import, same order
  added,         \* per persistent extension: entries added since env was made
  written,       \* per module: `added` at the time its file was written
  loadedAdded,   \* `written` of each module of the last import, same order
  declsAdded,    \* per declaration name added since env was made: the
                 \* last value added and whether env was switched then
  declsWritten   \* per module: `declsAdded` at the time its file was written

vars == <<initializing, exts, pExts, env, olean, sessions,
          loaded, loadedData, added, written, loadedAdded,
          declsAdded, declsWritten>>

INSTANCE ImportAux

\* No declaration added.
NoDecls == [c \in {} |-> NoValue]

RootLists == UNION {[1..n -> Mods] : n \in 0..MaxRoots}

-----------------------------------------------------------------------------
(* Lean library semantics used by the code.                               *)

\* Array.get with an Inhabited default: out of range yields the default,
\* which the unsafe casts of getStateUnsafe turn into an unusable value.
ArrGet(a, i) == IF i + 1 \in DOMAIN a THEN a[i + 1] ELSE Garbage

\* Array.modify / Array.set: out of range leaves the array unchanged.
ArrModify(a, i, F(_)) ==
  IF i + 1 \in DOMAIN a THEN [a EXCEPT ![i + 1] = F(@)] ELSE a

\* The user fold step addEntryFn (see the header).
AddEntryFn(isImported, s, a) == Append(s, <<isImported, a>>)

-----------------------------------------------------------------------------
(* Environment (lines 24-68).                                             *)

\* Bug variant of EnvAdd: the stage flag is not consulted and the
\* declaration always goes to the first stage.
EnvAddIgnoreStage(e, c, v) ==
  [e EXCEPT !.constants.map1 = HMInsert(@, c, <<c, v>>)]

\* Environment.add: insert the declaration (ConstantInfo, here the pair of
\* its name and value) under its name into the declaration index.
EnvAdd(e, c, v) == [e EXCEPT !.constants = SMapInsert(@, c, <<c, v>>)]

\* Environment.find
EnvFind(e, c) == SMapFind(e.constants, c)

\* Environment.contains
EnvContains(e, c) == SMapFind(e.constants, c) # NoValue

\* Environment.switch
EnvSwitch(e) == [e EXCEPT !.constants = SMapSwitch(@)]

\* Environment.markQuotInit
EnvMarkQuotInit(e) == [e EXCEPT !.quotInit = TRUE]

\* Environment.getModuleIdxFor
GetModuleIdxFor(e, c) == HMFind(e.const2ModIdx, c)

-----------------------------------------------------------------------------
(* Raw extensions (lines 72-144).                                         *)

\* Bug variant of SetState: the slot after the extension's is written.
SetStateNextSlot(idx, e, s) ==
  [e EXCEPT !.extensions = ArrModify(@, idx + 1, LAMBDA x : s)]

\* EnvExtension.setState
SetState(idx, e, s) == [e EXCEPT !.extensions = ArrModify(@, idx, LAMBDA x : s)]

\* EnvExtension.getState
GetState(idx, e) == ArrGet(e.extensions, idx)

\* getCPPExtensionState with the index registerCPPExtension returned for
\* the i-th registered extension.
GetCPPExtensionState(i, e) == GetState(exts[i].idx, e)

\* mkInitialExtensionStates
InitialExtensionStates == [i \in DOMAIN exts |-> exts[i].initial]

\* Bug variant of NewExt: slots numbered from 1.
NewExtOneBased(kind, initState) ==
  [idx |-> Len(exts) + 1, kind |-> kind, initial |-> initState]

\* registerEnvExtension, after its IO.initializing check: the new
\* descriptor takes the next slot.
NewExt(kind, initState) ==
  [idx |-> Len(exts), kind |-> kind, initial |-> initState]

\* mkEmptyEnvironment, after its IO.initializing check.
EmptyEnvironment ==
  [const2ModIdx |-> MkHashMapImp(8), constants |-> SMapEmpty,
   extensions |-> InitialExtensionStates, quotInit |-> FALSE,
   imports |-> <<>>]

-----------------------------------------------------------------------------
(* Persistent extensions (lines 146-243).                                 *)

\* The initial PersistentEnvExtensionState of an extension registered with
\* initial state `init` (registerPersistentEnvExtensionUnsafe).
InitialPState(init) ==
  [importedEntries |-> <<>>, importedState |-> init,
   entries |-> <<>>, state |-> init]

\* The initial state a descriptor declares: distinct per extension, so a
\* fold seeded from the wrong extension is visible.
DescrInitState(n) == <<<<FALSE, n>>>>

\* PersistentEnvExtension.getEntries (most recent first).
GetEntries(p, e) == GetState(pExts[p].idx, e).entries

\* PersistentEnvExtension.getModuleEntries: Array.get of an Array
\* (Array alpha), whose default is the empty array.
GetModuleEntries(p, e, m) ==
  LET ie == GetState(pExts[p].idx, e).importedEntries
  IN  IF m + 1 \in DOMAIN ie THEN ie[m + 1] ELSE <<>>

\* Bug variant of AddEntryState: the memoized state is not advanced.
AddEntryStateNoAdvance(s, a) == [s EXCEPT !.entries = <<a>> \o @]

\* The body addEntry gives modifyState.
AddEntryState(s, a) ==
  IF s.state = NoState THEN [s EXCEPT !.entries = <<a>> \o @]
  ELSE [s EXCEPT !.entries = <<a>> \o @,
                 !.state = AddEntryFn(FALSE, s.state, a)]

\* PersistentEnvExtension.addEntry
AddEntry(p, e, a) ==
  [e EXCEPT !.extensions = ArrModify(@, pExts[p].idx,
                                     LAMBDA s : AddEntryState(s, a))]

\* Bug variant of ForceStateAux: foldl folds the newest entry first.
ForceStateAuxFoldl(s) ==
  IF s.state # NoState THEN s.state
  ELSE FoldLeft(LAMBDA acc, a : AddEntryFn(FALSE, acc, a),
                s.importedState, s.entries)

\* forceStateAux: foldr over the newest-first list folds oldest first.
ForceStateAux(s) ==
  IF s.state # NoState THEN s.state
  ELSE FoldRight(LAMBDA a, acc : AddEntryFn(FALSE, acc, a),
                 s.entries, s.importedState)

\* PersistentEnvExtension.forceState
ForceState(p, e) ==
  [e EXCEPT !.extensions = ArrModify(@, pExts[p].idx,
                              LAMBDA s : [s EXCEPT !.state = ForceStateAux(s)])]

\* PersistentEnvExtension.getState
PGetState(p, e) == ForceStateAux(GetState(pExts[p].idx, e))

-----------------------------------------------------------------------------
(* Legacy modifications (lines 263-292): modListExtension is registered  *)
(* by this module's own initializer, before any other, so it has slot 0. *)

ModListIdx == 0

\* addModification
AddModification(e, mod) ==
  [e EXCEPT !.extensions = ArrModify(@, ModListIdx, LAMBDA ms : <<mod>> \o ms)]

-----------------------------------------------------------------------------
(* Writing module data (lines 294-330).                                   *)

\* Bug variant of MkModuleData: the newest-first list is written as is.
MkModuleDataNoReverse(e) ==
  [imports    |-> e.imports,
   constants  |-> SMapStage2(e.constants),
   entries    |-> [i \in DOMAIN pExts |-> <<pExts[i].name, GetEntries(i, e)>>],
   serialized |-> GetState(ModListIdx, e)]

\* mkModuleData: per persistent extension its current-module entries,
\* oldest first; the declarations of the second stage of the index; the
\* serialized modification list.
MkModuleData(e) ==
  [imports    |-> e.imports,
   constants  |-> SMapStage2(e.constants),
   entries    |-> [i \in DOMAIN pExts |->
                     <<pExts[i].name, Reverse(GetEntries(i, e))>>],
   serialized |-> GetState(ModListIdx, e)]

-----------------------------------------------------------------------------
(* Importing (lines 335-409).                                             *)

\* getEntriesFor: the first entry list recorded under the extension's name.
GetEntriesFor(mod, extId) ==
  LET i == SelectInSeq(mod.entries, LAMBDA x : x[1] = extId)
  IN  IF i = 0 THEN <<>> ELSE mod.entries[i][2]

\* The names a module's data declares.
DeclNames(mod) == {x[1] : x \in Range(mod.constants)}

\* Bug variant of Const2ModIdx: the 1-based loop position is stored.
Const2ModIdxOneBased(mods) ==
  FoldLeft(LAMBDA m, i :
             FoldLeft(LAMBDA h, x : HMInsert(h, x[1], i), m, mods[i].constants),
           MkHashMapImp(8), [i \in DOMAIN mods |-> i])

\* Bug variant of Const2ModIdx: a name keeps the first module that
\* declares it (insert only if absent).
Const2ModIdxFirstWins(mods) ==
  FoldLeft(LAMBDA m, i :
             FoldLeft(LAMBDA h, x : IF HMFind(h, x[1]) = NoValue
                                    THEN HMInsert(h, x[1], i - 1) ELSE h,
                      m, mods[i].constants),
           MkHashMapImp(8), [i \in DOMAIN mods |-> i])

\* const2ModIdx: starting from the empty HashMap (8 buckets), HashMap.insert
\* of every declaration name of module i (0-based) with value i, modules
\* and their declarations in array order; a later module's declaration of
\* the same name overwrites.
Const2ModIdx(mods) ==
  FoldLeft(LAMBDA m, i :
             FoldLeft(LAMBDA h, x : HMInsert(h, x[1], i - 1), m, mods[i].constants),
           MkHashMapImp(8), [i \in DOMAIN mods |-> i])

\* The declaration index: every module's declarations inserted (SMap.insert)
\* in module order into SMap.empty, which is then switched.
ImportedConstants(mods) ==
  LET InsertAll(cs, mod) ==
        FoldLeft(LAMBDA acc, x : SMapInsert(acc, x[1], x), cs, mod.constants)
  IN  SMapSwitch(FoldLeft(InsertAll, SMapEmpty, mods))

\* The body setImportedEntries gives modifyState for one module and one
\* persistent extension descriptor d: push the module's entries for it.
PushImportedEntries(e, mod, d) ==
  [e EXCEPT !.extensions =
     ArrModify(@, d.idx, LAMBDA s :
       [s EXCEPT !.importedEntries = Append(@, GetEntriesFor(mod, d.name))])]

\* The inner loop of setImportedEntries: every descriptor of
\* persistentEnvExtensionsRef, in registration order.
SetImportedEntriesOf(e, mod) ==
  FoldLeft(LAMBDA acc, d : PushImportedEntries(acc, mod, d), e, pExts)

\* Bug variant of SetImportedEntries: the modules visited in reverse order.
SetImportedEntriesReversed(e, mods) ==
  FoldLeft(SetImportedEntriesOf, e, Reverse(mods))

\* setImportedEntries: the outer loop, over the modules in order.
SetImportedEntries(e, mods) == FoldLeft(SetImportedEntriesOf, e, mods)

\* Bug variant of ImportedState: imported entries folded as if local.
ImportedStateAsLocal(entries, init) ==
  FoldLeft(LAMBDA s, es : FoldLeft(LAMBDA t, a : AddEntryFn(FALSE, t, a), s, es),
           init, entries)

\* mkImportedStateThunk, forced: fold every module's entries in order.
ImportedState(entries, init) ==
  FoldLeft(LAMBDA s, es : FoldLeft(LAMBDA t, a : AddEntryFn(TRUE, t, a), s, es),
           init, entries)

\* The body finalizePersistentExtensions gives modifyState for descriptor
\* d: the imported state is seeded from the descriptor's initial state,
\* the entry list emptied, and lazy extensions leave `state` unset.
FinalizeExt(e, d) ==
  [e EXCEPT !.extensions =
     ArrModify(@, d.idx, LAMBDA s :
       LET is == ImportedState(s.importedEntries,
                               exts[d.idx + 1].initial.importedState)
       IN  [s EXCEPT !.importedState = is, !.entries = <<>>,
                     !.state = IF d.lazy THEN NoState ELSE is])]

\* finalizePersistentExtensions: every descriptor, in registration order.
FinalizePersistentExtensions(e) == FoldLeft(FinalizeExt, e, pExts)

\* importModules (without the performModifications replay, which leaves
\* the modelled state unchanged when it succeeds).
ImportedEnvironment(roots, mods) ==
  FinalizePersistentExtensions(
    SetImportedEntries(
      [const2ModIdx |-> Const2ModIdx(mods),
       constants    |-> ImportedConstants(mods),
       extensions   |-> InitialExtensionStates,
       quotInit     |-> roots # <<>>,
       imports      |-> roots], mods))

-----------------------------------------------------------------------------
(* The process.                                                           *)

Init ==
  /\ initializing = TRUE
  \* modListExtension (line 278) is this module's first initializer
  /\ exts = <<[idx |-> ModListIdx, kind |-> "modList", initial |-> <<>>]>>
  /\ pExts = <<>>
  /\ env = NoEnv
  /\ olean = [m \in Mods |-> NoFile]
  /\ sessions = 0
  /\ loaded = <<>> /\ loadedData = <<>> /\ added = <<>>
  /\ written = [m \in Mods |-> <<>>]
  /\ loadedAdded = <<>>
  /\ declsAdded = NoDecls /\ declsWritten = [m \in Mods |-> NoDecls]

\* An IO call that throws: the exception goes to the caller and the
\* process state is as it was.
Throws == UNCHANGED vars

\* The initializers have all run: IO.initializing is false from now on.
EndInitialization ==
  /\ initializing
  /\ initializing' = FALSE
  /\ UNCHANGED <<sessions, exts, pExts, env, olean, loaded, loadedData, added, written, loadedAdded, declsAdded, declsWritten>>

\* registerCPPExtension during initialization.
RegisterCPPExtension(v) ==
  /\ initializing
  /\ Len(exts) < MaxExts
  /\ exts' = Append(exts, NewExt("cpp", v))
  /\ UNCHANGED <<sessions, initializing, pExts, env, olean, loaded, loadedData, added, written, loadedAdded, declsAdded, declsWritten>>

\* pExts.any (λ ext, ext.name == descr.name)
NameUsed(n) == \E p \in DOMAIN pExts : pExts[p].name = n

\* registerPersistentEnvExtension with a fresh name during initialization:
\* registerEnvExtension takes the next slot, then the descriptor is pushed.
RegisterPersistentEnvExtension(n, lazy) ==
  /\ ~NameUsed(n)
  /\ initializing
  /\ Len(exts) < MaxExts
  /\ LET ext == NewExt("persistent", InitialPState(DescrInitState(n))) IN
       /\ exts' = Append(exts, ext)
       /\ pExts' = Append(pExts, [idx |-> ext.idx, name |-> n, lazy |-> lazy])
  /\ added' = Append(added, <<>>)
  /\ UNCHANGED <<sessions, initializing, env, olean, loaded, loadedData, written, loadedAdded, declsAdded, declsWritten>>

\* registerPersistentEnvExtension with a name already used (line 229).
RegisterDuplicateName(n) ==
  /\ NameUsed(n)
  /\ Throws

\* registerEnvExtension after initialization (line 115), reached from
\* registerCPPExtension or registerPersistentEnvExtension.
RegisterAfterInitialization ==
  /\ ~initializing
  /\ Throws

\* Bug variant of MkEmptyEnvironment: no IO.initializing check.
MkEmptyEnvironmentAnyTime ==
  /\ sessions < MaxSessions /\ sessions' = sessions + 1
  /\ env' = EmptyEnvironment
  /\ loaded' = <<>> /\ loadedData' = <<>> /\ loadedAdded' = <<>>
  /\ added' = [p \in DOMAIN pExts |-> <<>>]
  /\ declsAdded' = NoDecls
  /\ UNCHANGED <<initializing, exts, pExts, olean, written, declsWritten>>

\* mkEmptyEnvironment
MkEmptyEnvironment ==
  /\ ~initializing
  /\ sessions < MaxSessions /\ sessions' = sessions + 1
  /\ env' = EmptyEnvironment
  /\ loaded' = <<>> /\ loadedData' = <<>> /\ loadedAdded' = <<>>
  /\ added' = [p \in DOMAIN pExts |-> <<>>]
  /\ declsAdded' = NoDecls
  /\ UNCHANGED <<initializing, exts, pExts, olean, written, declsWritten>>

\* mkEmptyEnvironment while initializing (line 139).
MkEmptyEnvironmentDuringInit ==
  /\ initializing
  /\ Throws

\* The elaborator replaces its environment by a pure update of it.
Update(e) ==
  /\ env' = e
  /\ UNCHANGED <<sessions, initializing, exts, pExts, olean, loaded, loadedData, added, written, loadedAdded, declsAdded, declsWritten>>

\* Environment.add of a declaration the elaborator checked.
Add(c, v) ==
  /\ env # NoEnv
  /\ env' = EnvAdd(env, c, v)
  /\ declsAdded' = (c :> [v |-> v, switched |-> ~env.constants.stage1]) @@ declsAdded
  /\ UNCHANGED <<sessions, initializing, exts, pExts, olean, loaded, loadedData, added, written, loadedAdded, declsWritten>>

Switch            == env # NoEnv /\ Update(EnvSwitch(env))
MarkQuotInit      == env # NoEnv /\ Update(EnvMarkQuotInit(env))
Force(p)          == env # NoEnv /\ Update(ForceState(p, env))

\* setCPPExtensionState with an index registerCPPExtension returned.
SetCPPExtensionState(i, v) ==
  /\ env # NoEnv
  /\ exts[i].kind = "cpp"
  /\ Update(SetState(exts[i].idx, env, v))

\* addModification
AddModif(mod) ==
  /\ env # NoEnv
  /\ Len(GetState(ModListIdx, env)) < MaxModifs
  /\ Update(AddModification(env, mod))

\* PersistentEnvExtension.addEntry
AddEntryStep(p, a) ==
  /\ env # NoEnv
  /\ Len(GetEntries(p, env)) < MaxEntries
  /\ env' = AddEntry(p, env, a)
  /\ added' = [added EXCEPT ![p] = Append(@, a)]
  /\ UNCHANGED <<sessions, initializing, exts, pExts, olean, loaded, loadedData, written, loadedAdded, declsAdded, declsWritten>>

\* writeModule: mkModuleData then saveModuleData.  The driver writes the
\* compiled module's file once, at the end of its compilation, and then
\* drops the environment.
WriteModule(m) ==
  /\ env # NoEnv
  /\ olean' = [olean EXCEPT ![m] = MkModuleData(env)]
  /\ written' = [written EXCEPT ![m] = added]
  /\ declsWritten' = [declsWritten EXCEPT ![m] = declsAdded]
  /\ declsAdded' = NoDecls
  /\ env' = NoEnv
  /\ loaded' = <<>> /\ loadedData' = <<>> /\ loadedAdded' = <<>>
  /\ added' = [p \in DOMAIN pExts |-> <<>>]
  /\ UNCHANGED <<sessions, initializing, exts, pExts>>

\* saveModuleData throws: the file is left as it was.
WriteModuleFails(m) ==
  /\ env # NoEnv
  /\ Throws

\* Who may call importModules: the code itself has no initialization check.
MayImport == CallerImportsDuringInit \/ ~initializing

\* importModules succeeding: the elaborator continues with the new value.
ImportModules(roots) ==
  LET r    == ImportModulesAux(roots, {}, <<>>)
      mods == [i \in DOMAIN r.mods |-> olean[r.mods[i]]]
  IN  /\ MayImport
      /\ r.ok
      /\ sessions < MaxSessions /\ sessions' = sessions + 1
      /\ env' = ImportedEnvironment(roots, mods)
      /\ loaded' = r.mods /\ loadedData' = mods
      /\ loadedAdded' = [i \in DOMAIN r.mods |-> written[r.mods[i]]]
      /\ added' = [p \in DOMAIN pExts |-> <<>>]
      /\ declsAdded' = NoDecls
      /\ UNCHANGED <<initializing, exts, pExts, olean, written, declsWritten>>

\* importModules reaching a module without a file (findOLean throws): the
\* whole import is abandoned.
ImportModulesNotFound(roots) ==
  /\ MayImport
  /\ ~ImportModulesAux(roots, {}, <<>>).ok
  /\ Throws

\* readModuleData or performModifications throws on a module the import
\* reached: the whole import is abandoned.
ImportModulesFails(roots) ==
  LET r == ImportModulesAux(roots, {}, <<>>)
  IN  /\ MayImport
      /\ r.ok /\ r.mods # <<>>
      /\ Throws

Next ==
  \/ EndInitialization
  \/ \E v \in CppVals : RegisterCPPExtension(v)
  \/ \E n \in PExtNames, lazy \in BOOLEAN : RegisterPersistentEnvExtension(n, lazy)
  \/ \E n \in PExtNames : RegisterDuplicateName(n)
  \/ RegisterAfterInitialization
  \/ MkEmptyEnvironment
  \/ MkEmptyEnvironmentDuringInit
  \/ \E c \in ConstNames, v \in ConstVals : Add(c, v)
  \/ Switch
  \/ MarkQuotInit
  \/ \E p \in DOMAIN pExts : Force(p)
  \/ \E i \in DOMAIN exts, v \in CppVals : SetCPPExtensionState(i, v)
  \/ \E mod \in Modifications : AddModif(mod)
  \/ \E p \in DOMAIN pExts, a \in Entries : AddEntryStep(p, a)
  \/ \E m \in Mods : WriteModule(m) \/ WriteModuleFails(m)
  \/ \E roots \in RootLists : \/ ImportModules(roots)
                              \/ ImportModulesNotFound(roots)
                              \/ ImportModulesFails(roots)

Spec == Init /\ [][Next]_vars

-----------------------------------------------------------------------------
(* Properties.                                                            *)

ExtKinds == {"modList", "cpp", "persistent"}

\* Aggregates of the modelled fold.
Agg == Seq(BOOLEAN \X (Entries \cup PExtNames))

TypeOK ==
  /\ initializing \in BOOLEAN
  /\ exts \in Seq([idx : Nat, kind : ExtKinds, initial : Any])
  /\ \A i \in DOMAIN exts :
       /\ exts[i].idx \in 0 .. Len(exts) - 1
       /\ exts[i].kind = "cpp" => exts[i].initial \in CppVals
       /\ exts[i].kind = "modList" => exts[i].initial \in Seq(Modifications)
       /\ exts[i].kind = "persistent" =>
            exts[i].initial \in [importedEntries : {<<>>}, importedState : Agg,
                                 entries : {<<>>}, state : Agg]
  /\ pExts \in Seq([idx : 0 .. Len(exts) - 1, name : PExtNames, lazy : BOOLEAN])
  /\ env = NoEnv \/ DOMAIN env = {"const2ModIdx", "constants", "extensions",
                                  "quotInit", "imports"}
  /\ \A m \in Mods : olean[m] = NoFile \/ olean[m].imports \in Seq(Mods)
  /\ added \in [DOMAIN pExts -> Seq(Entries)]

\* The reference fold: addEntryFn applied to `init` and then to every
\* entry of `es` in order, with the given provenance flag.
RefFold(flag, init, es) ==
  init \o [i \in DOMAIN es |-> <<flag, es[i]>>]

(* Every extension registered in the process has a slot in the           *)
(* environment the elaborator holds.  The code relies on it (comment at   *)
(* lines 125-128) and enforces it only by refusing to register after, and *)
(* to build an empty environment during, initialization: getState of an   *)
(* extension without a slot casts a default object, setState drops the    *)
(* update.                                                                *)
SlotsCover ==
  env # NoEnv => \A i \in DOMAIN exts : exts[i].idx < Len(env.extensions)

(* Slots are untyped (EnvExtensionState is NonScalar and every access is *)
(* an unsafeCast), so only the index arithmetic keeps each slot at its   *)
(* extension's type: a C++ extension's slot, as getCPPExtensionState     *)
(* reads it, holds a C++ state, and no other slot ever holds one, however *)
(* setCPPExtensionState, addEntry, addModification and importModules are  *)
(* interleaved.                                                          *)
SlotsTyped ==
  env # NoEnv =>
    \A i \in DOMAIN exts :
      exts[i].idx < Len(env.extensions) =>
        (exts[i].kind = "cpp" <=> GetCPPExtensionState(i, env) \in CppVals)

(* The memoized state of every persistent extension, whenever it is set,  *)
(* is the imported state folded with exactly the entries added since the  *)
(* environment was made, oldest first and marked as not imported; and the *)
(* entry list is those entries newest first.  This must hold however      *)
(* addEntry, forceState and the lazy/eager finalization of importModules   *)
(* interleave (addEntry advances a set state, forceState folds the list). *)
StateCacheCoherent ==
  env # NoEnv =>
    \A p \in DOMAIN pExts :
      LET s == GetState(pExts[p].idx, env) IN
        /\ s.entries = Reverse(added[p])
        /\ s.state # NoState => s.state = RefFold(FALSE, s.importedState, added[p])

(* Round trip through .olean files: after an import, an extension's entry *)
(* array for the module at index i, and its imported state, are what the  *)
(* environments that wrote those modules added, in the order they added   *)
(* them (mkModuleData reverses the newest-first list; setImportedEntries  *)
(* and the imported-state thunk must keep module order).                 *)
ImportRoundTrip ==
  env # NoEnv =>
    \A p \in DOMAIN pExts :
      LET s == GetState(pExts[p].idx, env)
          ws == [i \in DOMAIN loaded |-> loadedAdded[i][p]]
      IN  /\ \A i \in DOMAIN loaded : GetModuleEntries(p, env, i - 1) = ws[i]
          /\ s.importedState =
               RefFold(TRUE, DescrInitState(pExts[p].name), FlattenSeq(ws))

(* The two indexes importModules builds in separate passes agree: for    *)
(* every imported declaration the current module has not redefined,      *)
(* getModuleIdxFor names a module that declares it with the value find   *)
(* returns, and no later module declares it; every declaration of every  *)
(* imported module has an index.                                         *)
ModuleIdxConsistent ==
  env # NoEnv =>
    /\ \A i \in DOMAIN loadedData : DeclNames(loadedData[i]) \subseteq HMKeys(env.const2ModIdx)
    /\ \A c \in HMKeys(env.const2ModIdx) :
         Find(env.constants.map2, c) = NoValue =>
         LET i == GetModuleIdxFor(env, c) + 1 IN
           /\ i \in DOMAIN loadedData
           /\ EnvFind(env, c) \in Range(loadedData[i].constants)
           /\ \A j \in DOMAIN loadedData : j > i => c \notin DeclNames(loadedData[j])

\* The declarations of a written module, as the properties expect them:
\* the pairs <<name, value>> of the given names, in name order.
DeclsInOrder(ds, names) ==
  SetToSortSeq({<<c, ds[c].v>> : c \in names}, LAMBDA x, y : x[1] < y[1])

(* A module's file declares every declaration its writer added after the  *)
(* index was switched, with the value added last, once each and in name   *)
(* order, and nothing else: neither the declarations it imported nor     *)
(* those added before the switch.  It takes Environment.add, the stage   *)
(* SMap.insert picks, the tree's ins and its in-order fold (foldStage2)   *)
(* all to agree.                                                         *)
WrittenDecls ==
  \A m \in Mods :
    olean[m] # NoFile =>
      LET ds == declsWritten[m] IN
      olean[m].constants =
        DeclsInOrder(ds, {c \in DOMAIN ds : ds[c].switched})

(* Declarations survive the round trip through files and indexes: after  *)
(* an import, a declaration that the writer of loaded module i added     *)
(* after the switch, that no later loaded module wrote and that the       *)
(* current environment has not added again, is contained in the          *)
(* environment, found with the value its writer added last, and indexed  *)
(* under module i - 1 by getModuleIdxFor.                                 *)
DeclRoundTrip ==
  env # NoEnv =>
    \A i \in DOMAIN loaded :
      LET ds == declsWritten[loaded[i]] IN
      \A c \in DOMAIN ds :
        /\ ds[c].switched
        /\ c \notin DOMAIN declsAdded
        /\ \A j \in DOMAIN loaded :
             j > i => ~(c \in DOMAIN declsWritten[loaded[j]]
                        /\ declsWritten[loaded[j]][c].switched)
        => /\ EnvContains(env, c)
           /\ EnvFind(env, c) = <<c, ds[c].v>>
           /\ GetModuleIdxFor(env, c) = i - 1

(* What spec.md (section 4.5, mkModuleData) says of the written module: *)
(* it holds every declaration added to the environment that wrote it.   *)
AllAddedDeclsWritten ==
  \A m \in Mods :
    olean[m] # NoFile => DOMAIN declsWritten[m] \subseteq DeclNames(olean[m])

\* The import graph of the modules an import read, as their files said.
LoadedGraph ==
  [node |-> {loaded[i] : i \in DOMAIN loaded},
   edge |-> UNION {{<<loaded[i], loadedData[i].imports[k]>> :
                      k \in DOMAIN loadedData[i].imports} : i \in DOMAIN loaded}]

(* importModulesAux reads each module reachable from the requested roots  *)
(* exactly once, including through diamonds and through import cycles of *)
(* stale files, reads nothing else, and, when the files' import graph is  *)
(* acyclic, puts every module after all the modules it imports (the      *)
(* module indices of getModuleIdxFor and getModuleEntries rely on it).   *)
ImportTopological ==
  LET G     == LoadedGraph
      roots == {env.imports[k] : k \in DOMAIN env.imports}
  IN  env # NoEnv /\ loaded # <<>> =>
        /\ \A i, j \in DOMAIN loaded : loaded[i] = loaded[j] => i = j
        /\ G.node = roots \cup UNION {Descendants(G, r) : r \in roots}
        /\ \A e \in G.edge : e[2] \in G.node
        /\ IsDag(G) => \A i, j \in DOMAIN loaded :
                         <<loaded[i], loaded[j]>> \in G.edge => j < i


\* What a user of each persistent extension observes in the environment
\* held: its initial state, the imported entry arrays, the entries added
\* (getEntries, oldest first) and what getState returns.
PView ==
  IF env = NoEnv THEN NoEnv
  ELSE [p \in DOMAIN pExts |->
          LET s == GetState(pExts[p].idx, env) IN
          [init     |-> DescrInitState(pExts[p].name),
           imported |-> s.importedEntries,
           local    |-> Reverse(s.entries),
           state    |-> PGetState(p, env)]]

PE == INSTANCE PersistentExtension
        WITH registered <- DOMAIN pExts, view <- PView

(* The persistent extensions implement their abstract specification: a   *)
(* new environment (mkEmptyEnvironment, importModules with eager or lazy  *)
(* finalization) gives each extension its imported state; addEntry moves  *)
(* getState of that extension alone by one local step, whether the state *)
(* was memoized or is forced later; and forceState, setState of other    *)
(* slots, addModification, Environment.add and the switch change nothing *)
(* getState or getEntries returns.                                       *)
PersistentRefines == PE!PSpec

=============================================================================
