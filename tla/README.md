# TLA+ models of the Lean 4 environment and its extensions

This directory holds TLA+ models of `library/init/lean/environment.lean` (under
`src/`), of the C++ `object_ref` smart pointer that holds Lean objects, and of
two C++ tactics (`clear`, `rename`). environment.lean defines:

- the `Environment` value the elaborator threads through compilation;
- the global registry of environment extensions;
- persistent extensions, whose entries go to `.olean` files;
- writing a module's data file;
- importing modules.

Each model is checked with TLC.

## The system

| Part | Code (environment.lean) | What it does |
|---|---|---|
| Extension registry | 103-133, 207-261 | `envExtensionsRef` and `persistentEnvExtensionsRef` are process-global arrays. `registerEnvExtension` gives a new extension the slot `idx := exts.size`. It refuses to run unless `IO.initializing`. `registerPersistentEnvExtension` also refuses a name already used. |
| Environment value | 24-68, 135-144 | An immutable record: `const2ModIdx`, `constants` (an `SMap`), `extensions` (one state slot per registered extension), `quotInit` and `imports`. `mkEmptyEnvironment` refuses to run while initializing and copies each extension's initial state into its slot. |
| Raw extension state | 72-99, 251-261 | `setState`/`getState`/`modifyState` cast the slot `ext.idx`. `Array.get` out of range yields a default object. `Array.set`/`modify` out of range do nothing. C++ extensions are reached by index. |
| Persistent extensions | 146-205 | The state is `importedEntries` (one array per imported module), a thunk of the imported state, `entries` (this module's, newest first) and a memoized `state`. `addEntry` advances a set `state`. `forceStateAux` folds `entries` oldest first onto the imported state. |
| Legacy modifications | 263-292 | `modListExtension` (slot 0) collects C++ modification objects. They are serialized into the module data and replayed by `performModifications`. |
| Writing | 294-330 | `mkModuleData` writes the imports, the second-stage declarations, and per persistent extension its name and its entries oldest first. `writeModule` saves that. |
| Importing | 332-409 | `importModulesAux` is a depth-first walk over the `.olean` imports. It marks a module visited before descending and appends it after its imports. `importModules` then builds `const2ModIdx` and the declaration index in two separate passes, copies the slots, pushes each module's entries into each persistent extension (`setImportedEntries`), builds the imported-state thunk (`finalizePersistentExtensions`) and replays the modifications. |

How the parts interact:

- Initializers register extensions.
- After initialization, each compilation makes an environment, either empty or by import.
- The elaborator updates that environment: declarations, entries, modifications and C++ state.
- The compilation ends by writing the module's file, which a later import reads back.

Everything except the registry is a pure function of immutable values. The only shared mutable state is the two registry arrays and the files.

## Modules

The Lean library is compiled to C; `src/util/object_ref.h` (lines 87-7197) holds the compiled `init.lean.environment`, and PROJECT.json's map points at those C functions. Where the C inlines a Lean helper (balance1/balance2 into `ins`, `SMap.insert` into `Environment.add`), the operator follows the C.

- `HashMap.tla`: `HashMapImp` at `Name`. A map is a size and an array of buckets, each an association list. `insert` checks `contains`, then replaces in place or conses a new pair; past `size > buckets` it doubles the array and moves every entry (`expand`, `moveEntries`). `BucketOf` is the name hash mod the array size.
- `RBNode.tla`: the red-black tree of the second stage: `ins` with the inlined `balance1`/`balance2`, each split into its three cases as the C splits them (a red left grandchild, a red right grandchild, none: `Balance1RedLeft`, `Balance1RedRight`, `Balance1Recolour` and the `Balance2` mirrors), `insert`, `find`, and the in-order `fold` that `mkModuleData` uses. Keys are ranks in the `Name.quickLt` order.
- `SMap.tla`: the staged map `Environment.constants`, built from the two above: `empty`, `insert`, `find`, `switch`, `foldStage2`. spec.md (section 4.1) describes the stages the other way round: the tree first and the hash map after `switch`. The code (`SMap.insert`, object_ref.h 1813) inserts into the hash map in stage 1 and into the tree after the switch, and `find` consults the tree first. Observed through `find`, both layouts are the same dictionary (smap_refines), so the model follows the code.
- `AbstractMap.tla`: what a map promises: a dictionary with `Put`. `MCSMap.tla` drives an `SMap` through inserts and the switch and checks that it implements `AbstractMap` under the mapping "dict = what `SMap.find` returns". The history variable `lastOp` records the last operation, so a dropped insert cannot pass as a stuttering step.
- `Environment.tla`: the whole of `environment.lean`.
  - Variables: the registry (`exts`, `pExts`), `initializing`, the files (`olean`), the environment the elaborator holds (`env`, or `NoEnv` between compilations), and a session counter.
  - History variables, read only by properties: `added`, `written`, `loaded`, `loadedData`, `loadedAdded`, `declsAdded` (each declaration added since the environment was made, and whether the environment was switched then) and `declsWritten` (`declsAdded` when each module's file was written).
  - Pure functions of the code are operators named after them (`AddEntryState`, `ForceStateAux`, `MkModuleData`, `Const2ModIdx`, `SetImportedEntries`, `ImportedState`, `FinalizePersistentExtensions`, ...). `constants` is a real `SMap`, and `const2ModIdx` a real `HashMap`.
  - Each IO entry point, and each way it can throw, is an action. An exception leaves the process state unchanged (`Throws`), because environments are immutable values.
  - The user fold `addEntryFn` is an append of `<<isImported, entry>>`: any reordering, loss, duplication or wrong provenance flag shows.
- `PersistentExtension.tla`: what a persistent extension promises its users, with no memoization in sight. `view` gives each registered extension its initial state, its imported entry arrays, the entries added to the current environment (oldest first) and the state `getState` returns. A new environment starts every extension at its imported fold; `addEntry` advances one extension by one local step; extensions are registered only while no environment is held. `Environment` instantiates it under the mapping `PView` (computed from the slots, with `getState` forcing a lazy state) and checks it as `PersistentRefines`.
- `ImportAux.tla`: `importModulesAux` as a recursive operator, shared by `Environment` and `ImportAuxSteps`.
- `ImportAuxSteps.tla`: the same function as the C runs it: a stack of call frames, the tail call on the rest of a list as a loop. The files on disk are any assignment of import lists (self imports and cycles of stale files included) or a missing file.
- `ClearTactic.tla`: `clear`, `clear_rec_core` and `clear_recs` of `src/library/tactic/clear_tactic.cpp`. A metavariable declaration is its local context (a set of hypothesis positions) and the hypotheses its type mentions; a dependency relation between hypotheses stands for `depends_on`/`has_dependencies`. `clear` either throws (unknown hypothesis, the target depends on it, another hypothesis depends on it) or declares a new metavariable and assigns the old one to it. `clear_recs` loops while `clear_rec_core` finds a rec hypothesis. It mutates `mctx` in place and catches nothing, so when `clear` throws in a later iteration, `ClearRecsFails` keeps the declarations and assignments of the earlier clears, as lines 41-49 do. The caller that receives that `mctx` is not in this repository, and the model makes no assumption about it.
- `ObjectRef.tla`: `object_ref.h` lines 1-86. A slot is one `object_ref` variable: `Dead` outside its lifetime, otherwise its `m_obj` (`Null` or a heap cell). The heap gives each cell a count (0: free) and its constructor fields. Each constructor, the destructor, both assignments, `swap` and `mk_cnstr` is an action. A copy may read a slot or `cnstr_obj_ref(slot, i)`, the `object_ref const &` that aliases a field inside a cell. `inc`, `dec` and `alloc_cnstr` live in `runtime/object.h`, which is not in this repository. They are modelled as the runtime documents them: the last `dec` frees the cell and decs its fields (`DecObj`, recursive). An `inc` or `dec` of a free cell is recorded as a use after free.
- `RenameTactic.tla`: `rename_tactic` (object_ref.h 7209-7241). A goal is its context, a sequence of pp names indexed by the locals' unique names, and the locals its type mentions, each with the pp name the occurrence carries. `LastLocalNamed` is the backwards scan. `RenamedGoal` is the `replace` of the metavariable application and of the type. `Rename` and `RenameFails` are the two outcomes of the tactic. `Resolve` is the reference meaning of a name under shadowing: the last local with that name.
- `MCEnvironment.tla`, `MCObjectRef.tla`, `MCRenameTactic.tla`, `MCRBNode.tla`, `MCHashMap.tla`, `MCSMap.tla`: instantiations for TLC.

Operators whose comment starts "Bug variant of" are mutated copies of the operator that follows them. Each property of each passing run has one, which TLC must catch (PROJECT.json, `mutants`).

## Runs

| Run | Config | Result | Properties | What it shows |
|---|---|---|---|---|
| env_core | MCEnvironment.cfg | pass (104,817 states, 45 s) | TypeOK, SlotsCover, SlotsTyped, StateCacheCoherent, ImportRoundTrip, ModuleIdxConsistent, WrittenDecls, PersistentRefines | One persistent extension, one C++ extension, modifications and two sessions over two modules. A name may be redeclared with another value. Entries are forced and added in every order. |
| env_import | MCEnvImport.cfg | pass (542,799 states, 2 min) | ImportRoundTrip, DeclRoundTrip, ImportTopological | Three modules and four sessions. Diamonds and cycles of stale files are reached (a module rewritten to import one that imports it). |
| env_two_exts | MCEnvTwoExts.cfg | pass (691,574 states, 1.5 min) | StateCacheCoherent, ImportRoundTrip | Two persistent extensions, lazy or eager, registered in either order, with two entries each per session. No declarations, which env_core and env_import cover. |
| env_import_during_init | MCEnvImportDuringInit.cfg | violation of SlotsCover | SlotsCover | The first finding below. |
| env_decls_written | MCEnvDeclsWritten.cfg | violation of AllAddedDeclsWritten | AllAddedDeclsWritten | The second finding below. |
| rbnode | MCRBNode.cfg | pass (497,765 states) | TypeOK, FindAgrees, Balanced, FoldComplete | Every sequence of inserts of nine keys, with overwrites. |
| hashmap | MCHashMap.cfg | pass (386,543 states) | TypeOK, FindAgrees, WellFormed | Nine keys into eight buckets, with colliding hashes, so the array doubles with full buckets. |
| smap_refines | MCSMap.cfg | pass (165,634 states) | AbsSpecHolds | `SMap` implements a dictionary across the switch, with colliding keys. |
| import_aux_steps | MCImportAuxSteps.cfg | pass (299,812 states) | TypeOK, AgreesWithRecursive, Terminates | Every set of files over three modules, requests of up to two modules. |
| clear_tactic | MCClearTactic.cfg | pass (8,266 states) | WellScoped, AssignmentsAreClears, RecsResult, ClearRecsTerminates | Every dependency shape over three hypotheses, every choice of rec hypotheses and target dependencies. |
| object_ref | MCObjectRef.cfg | pass (6,640 states with symmetry) | MemorySafe, RcExact | Every sequence of `object_ref` operations over three variables and four cells, with `mk_cnstr` of up to two fields. |
| rename_tactic | MCRenameTactic.cfg | pass (98,957 states) | NamesAgree, RenameResolves | Every proof state of up to two goals over three locals and three pp names, then any sequence of renames. |

The properties:

- **SlotsCover.** Every registered extension has a slot in the current environment. The code relies on this (comment at 125-128) and enforces it only by the two initialization checks.
- **StateCacheCoherent.** A memoized persistent state is the imported state folded with exactly the entries added since, oldest first and flagged local. The entry list is those entries newest first.
- **ImportRoundTrip.** After an import:
  - `getModuleEntries` for module i is what the writer of module i added, in the order it added them;
  - the imported state is the descriptor's initial state folded with all those entries, flagged imported, in module order.
- **ModuleIdxConsistent.** The two passes of `importModules` agree. For each imported declaration, `getModuleIdxFor` names a module that declares it with the value `find` returns, and no later module redeclares it.
- **SlotsTyped.** Every slot of the environment holds a value of the kind its extension reads: C++ extensions find a `CPPExtensionState` in their slot, and other extensions find one of theirs. `setState` and `getState` `unsafeCast` the slot by index, so nothing else checks this.
- **WrittenDecls.** A module's file holds exactly the declarations added after the environment was switched, in declaration-index order, with the values last added.
- **DeclRoundTrip.** After an import, every declaration a loaded module wrote and no later loaded module rewrote is found with the value that module wrote, and `getModuleIdxFor` names that module. This holds only while the session has added nothing under that name.
- **PersistentRefines.** The persistent extensions implement `PersistentExtension`. Unlike StateCacheCoherent, it reads no history variable: it checks what `getState` and `getEntries` return, including a lazy state forced only when read, and it requires every other operation (`forceState`, `setCPPExtensionState`, `addModification`, `add`, `switch`) to leave that unchanged. Its mutant folds the newest entry first in `forceStateAux`. It is checked in env_core only: with two extensions (env_two_exts) the run takes over eight minutes, and StateCacheCoherent there already catches an update applied to the wrong slot.
- **ImportTopological.** Every reachable module is read exactly once and nothing else is read. On an acyclic graph, imports come first.

- **FindAgrees / Balanced / FoldComplete / WellFormed.** `find` returns the last value inserted for each key; the tree has no red-red edge and equal black heights; the fold pushes the values in key order; every pair sits in the bucket its hash selects and no key occurs twice.
- **AbsSpecHolds.** Every `SMap` step is a dictionary step: an insert puts exactly one key, a switch changes nothing `find` sees.
- **AgreesWithRecursive / Terminates.** The stack machine ends on every set of files (`partial def` never proved it), with the modules, order and visited set of the recursive operator, and fails exactly when it does.
- **WellScoped.** Every goal ever declared keeps the hypotheses its other hypotheses and its target depend on.
- **AssignmentsAreClears.** Every assignment in `mctx` records one complete clear: the metavariable is assigned a later one with the same type whose context lacks exactly one hypothesis, one that nothing else in the context or the type depends on. This also holds for the clears a throwing `clear_recs` leaves behind, so the half-changed `mctx` is still consistent. The mutant declares the new metavariable before `lctx.clear`.
- **RecsResult.** A returning `clear_recs` removed exactly the rec hypotheses.
- **ClearRecsTerminates.** The `while (true)` of `clear_recs` always ends.
- **RcExact.** Every cell's count equals the number of variables and of live cells' fields that point to it. So no pointer reaches a freed cell and no unreachable cell stays allocated. This holds across self-assignment, self-move, assignment from a field of the object being released, and `mk_cnstr` sharing one argument twice.
- **MemorySafe.** No `inc` or `dec` touches a freed cell. The copy-assignment's order (`inc` the new object before `dec` of the old) is what keeps this.
- **NamesAgree.** Every occurrence of a local in a goal's type carries the pp name the context gives that local.
- **RenameResolves.** `rename(from, to)` makes `to` resolve to the later of the local `from` denoted and the local `to` already denoted (a later `to` still shadows it). `from` now resolves to an earlier local, and every other name resolves as before. The property is checked against `Resolve`, the reference definition of name lookup.

Each property of each passing run has a bug variant that TLC finds (PROJECT.json, `mutants`).

## Findings

1. Imports during initialization.

`importModules` (line 387) has no `IO.initializing` check, unlike `mkEmptyEnvironment` (138-139). A caller that imports while initializers still run gets an environment with fewer slots than the registry. An extension registered afterwards then reads the Inhabited default object (line 85), and its updates are dropped silently (line 92). TLC's trace:

1. Init.
2. `importModules []` during initialization.
3. `registerCPPExtension`.

2. Declarations written. spec.md (section 4.5) says `mkModuleData` collects all declarations in the environment. The code (line 323) writes `constants.foldStage2`, which holds only the declarations added after `SMap.switch`. `importModules` switches the environment it returns, but `mkEmptyEnvironment` returns a stage-1 environment that nothing switches. TLC's trace for AllAddedDeclsWritten:

1. End of initialization.
2. `mkEmptyEnvironment`.
3. `add` of one declaration.
4. `writeModule`: the file holds no declarations.

A module compiled from an imported environment writes all its declarations (WrittenDecls, DeclRoundTrip).

## Bounds

- **Sessions.** `MaxSessions` counts environments built. Two sessions are enough for one module to be written and then imported. Four, in env_import, let a file be rewritten to close an import cycle and then be imported.
- **Entries.** `MaxEntries` (1-2) bounds entries per extension per session. Two entries are needed for order to matter.
- **Modifications.** `MaxModifs` bounds modifications.
- **Extensions.** `MaxExts` bounds registered extensions, the modification list included.
- **Roots.** `MaxRoots = 2` bounds the length of an import request.

- **Keys.** Nine keys for the tree and the hash map (enough for rotations at depth three and for a doubling with collisions); four for `MCSMap`, whose hash function puts two keys in one bucket.
- **Files.** Three modules with import lists of up to two give self imports, two-cycles, three-cycles and diamonds.
- **object_ref.** Three variables let an assignment's target, its source and a third holder of the same cell coexist. Four cells give a two-level constructor whose field is shared. Two fields let `mk_cnstr` take one argument twice. The heap is finite and the counts are bounded by the pointers, so no counter bound is needed.
- **rename.** Three locals with three pp names give a name shadowed twice, a rename onto a name a later local shadows, and a third name the rename must leave alone.
- **Hypotheses.** Three hypotheses give chains, forks and joins of dependencies and two rec hypotheses in one loop; `MaxMVars = 7` leaves room for a full `clear_recs` after two clears (`ClearRecsStart` is guarded so the loop never meets the bound).

Every error path and every action fires in the passing runs.

## Fairness

The code is sequential: one elaborator, initializers that run one after another, and no waiting. The Environment runs assume no fairness. Where a function, once called, keeps computing until it returns or throws, weak fairness on its own steps is what the code gives: `ObjectRef` and `RenameTactic` check safety only and assume no fairness.

- `ImportAuxSteps` assumes `WF_vars(Next)`: all its steps are the one call. `CHECK_DEADLOCK FALSE`, because the call does return.
- `ClearTactic` assumes weak fairness of the loop's steps only (iterate, return, throw); the tactic calls around it are not forced to happen. `CHECK_DEADLOCK FALSE`: a proof may stop calling tactics.

## Not modelled

- `trustLevel`, which is only carried.
- The contents of declarations and modifications, which are opaque values.
- The effect of `performModifications`, which is C++.
- The other specializations of `HashMapImp` and `RBNode` in object_ref.h (they are the same code at other types), and the IO.Ref error branches of the registry, which the C cannot reach after a successful initialization.
- The expressions and local contexts of `clear_tactic.cpp`: `depends_on` and `has_dependencies` are read off a fixed dependency relation; `local_context` and `metavar_context` are not in this repository.
- `llnf.h` (declarations) and `compiler.cpp` (one call).
- The `performModifications` loops inside `importModules` (object_ref.h 6415-6598). They call the opaque C++ `lean_perform_serialized_modifications` and have no effect the model could observe.
- `mk_rename_tactic_macro` and the registration of the rename macro, which only build and parse a tactic expression.
- `runtime/object.h` (`inc`, `dec`, `alloc_cnstr`) is modelled from its documented behaviour, because it is not in this repository. `mk_cnstr` is given non-null arguments only, since `inc(nullptr)` dereferences null.
- `Array.qsort`, the standard random generator and the kvmap association list: pure library code that no modelled component calls, with no state beyond its arguments. A hazard of `qsortAux` is listed in PROJECT.json: with a non-strict comparison and equal elements, `partition` returns `mid = high`, and the recursion repeats the same range forever.
- The `quotInit` flag that `importModules` sets whenever anything is imported (line 402). The model computes it as the code does. Whether the quotient declarations really arrive depends on `core.lean` and the kernel, neither of which is modelled.
- Everything else PROJECT.json lists as not modelled, with the reason for each.
