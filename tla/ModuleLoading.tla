--------------------------- MODULE ModuleLoading ---------------------------
(***************************************************************************)
(* The multi-threaded loader of the guest's kernel modules:                *)
(* Kernel::loadAllModules and its worker threads (kernel.cpp), together    *)
(* with the part of the module parser that calls back into it              *)
(* (ElfFile64::parseKernelModule, ElfModuleLoader::initText).              *)
(*                                                                         *)
(* Every worker pops module names off a shared list and calls loadModule,  *)
(* which calls itself for every dependency of the module it is parsing.    *)
(* moduleMap holds a null placeholder for a module that some thread is     *)
(* loading; a thread that finds one spins until it is replaced.            *)
(***************************************************************************)
EXTENDS Naturals, Sequences

CONSTANTS
  Modules,  \* module names as the guest's module list spells them ('_' only)
  Names,    \* all spellings that occur: Modules and the ones with a '-'
  Canon,    \* Canon[n]: n with every '-' replaced by '_'
  Deps,     \* Deps[m]: the names in the "depends=" entry of m's .modinfo
  Rank,     \* a topological numbering of the dependency graph
  Threads,  \* the worker threads: hardware_concurrency() of them
  None      \* no thread, no module

(***************************************************************************)
(* A name with '_' only is its own normal form.                            *)
(***************************************************************************)
ASSUME NameAssumption ==
  /\ Modules \subseteq Names
  /\ Canon \in [Names -> Modules]
  /\ \A m \in Modules : Canon[m] = m
  /\ Deps \in [Modules -> Seq(Names)]
  /\ None \notin Names
  /\ None \notin Threads

(***************************************************************************)
(* The dependency graph has no cycle: depmod and the guest's own insmod    *)
(* reject one.  The code does not check it: a cycle would make a thread    *)
(* spin on a placeholder of its own.                                       *)
(***************************************************************************)
ASSUME AcyclicAssumption ==
  /\ Rank \in [Modules -> Nat]
  /\ \A m \in Modules : \A i \in DOMAIN Deps[m] :
        Rank[Canon[Deps[m][i]]] < Rank[m]

(***************************************************************************)
(* hardware_concurrency() may return 0, and the code then starts no thread *)
(* and loads nothing; the model is about the other case.                   *)
(***************************************************************************)
ASSUME ThreadAssumption == Threads # {}

VARIABLES
  instances,  \* the keys of moduleInstanceMap: the guest's module list
  modList,    \* names not yet popped (an unordered_map gave their order)
  modMutex,   \* the thread that holds loadAllModules' local modMutex
  moduleMap,  \* moduleMap[n]: "absent", "null" (placeholder) or "ready"
  mapMutex,   \* the thread that holds moduleMapMutex
  pc,         \* where each worker is
  arg,        \* the moduleName a worker is looking up in moduleMap
  cur,        \* the module whose parse is on top of a worker's call stack
  owner,      \* owner[n]: the worker with a parse of n on its stack
  caller,     \* caller[n]: the module whose dependency loop called for n
  dep,        \* dep[n]: how many of n's dependencies have been loaded
  loaders,    \* the ElfModuleLoader objects created, by name and thread
  symStore,   \* modules whose symbols are in kernel->symbols
  resolved,   \* resolved[n]: modules whose symbols n's relocation found
  mainPc,     \* where the main thread is in loadAllModules
  aborted     \* an assert failed, or an exception left a thread

mapVars  == <<moduleMap, mapMutex>>
stack    == <<cur, owner, caller, dep>>
parser   == <<loaders, symStore, resolved>>
vars     == <<instances, modList, modMutex, mapVars, pc, arg, stack, parser,
              mainPc, aborted>>

-----------------------------------------------------------------------------
(* Names and files.                                                        *)

\* moduleName with '-' replaced by '_', kernel.cpp:49-50
Normalise(name) == Canon[name]

\* findModuleFile matches the file under either spelling, kernel.cpp:139-149
FileOf(name) == Canon[name]

DepsOf(name) == Deps[FileOf(name)]

-----------------------------------------------------------------------------
Init ==
  /\ instances \in SUBSET Modules
  /\ modList = instances
  /\ modMutex = None
  /\ moduleMap = [n \in Names |-> "absent"]
  /\ mapMutex = None
  /\ pc = [t \in Threads |-> "new"]
  /\ arg = [t \in Threads |-> None]
  /\ cur = [t \in Threads |-> None]
  /\ owner = [n \in Names |-> None]
  /\ caller = [n \in Names |-> None]
  /\ dep = [n \in Names |-> 0]
  /\ loaders = {}
  /\ symStore = {}
  /\ resolved = [n \in Names |-> {}]
  /\ mainPc = "spawn"
  /\ aborted = FALSE

Goto(t, label) == pc' = [pc EXCEPT ![t] = label]

(***************************************************************************)
(* A call of loadModule returns to the code that made it: to the thread's  *)
(* loop, or to the dependency loop of the module k that is parsed there,   *)
(* which moves on to its next dependency.                                  *)
(***************************************************************************)
ReturnTo(t, k) ==
  /\ arg' = [arg EXCEPT ![t] = None]
  /\ Goto(t, IF k = None THEN "pop" ELSE "deps")
  /\ dep' = [n \in Names |-> IF n = k THEN dep[n] + 1 ELSE dep[n]]

-----------------------------------------------------------------------------
(* loadModuleThread.                                                       *)

LockModList(t) ==
  /\ pc[t] = "pop"
  /\ modMutex = None
  /\ modMutex' = t
  /\ Goto(t, "pick")
  /\ UNCHANGED <<instances, modList, mapVars, arg, stack, parser, mainPc, aborted>>

PopModule(t) ==
  /\ pc[t] = "pick"
  /\ \E m \in modList :
        /\ modList' = modList \ {m}
        /\ arg' = [arg EXCEPT ![t] = Normalise(m)]
  /\ modMutex' = None
  /\ Goto(t, "call")
  /\ UNCHANGED <<instances, mapVars, stack, parser, mainPc, aborted>>

ThreadReturn(t) ==
  /\ pc[t] = "pick"
  /\ modList = {}
  /\ modMutex' = None
  /\ Goto(t, "done")
  /\ UNCHANGED <<instances, modList, mapVars, arg, stack, parser, mainPc, aborted>>

-----------------------------------------------------------------------------
(* loadModule.                                                             *)

(***************************************************************************)
(* The three places that lock moduleMapMutex: on entry, after the yield of *)
(* the spin loop, and to publish the finished loader.                      *)
(***************************************************************************)
LockMap(t) ==
  /\ mapMutex = None
  /\ mapMutex' = t
  /\ \/ pc[t] = "call"   /\ Goto(t, "find")
     \/ pc[t] = "yield"  /\ Goto(t, "check")
     \/ pc[t] = "parsed" /\ Goto(t, "publish")
  /\ UNCHANGED <<instances, modList, modMutex, moduleMap, arg, stack, parser,
                 mainPc, aborted>>

\* the mutex let go between the lookup and the insertion
FindUnlocked(t) ==
  /\ pc[t] = "find"
  /\ IF moduleMap[arg[t]] = "absent"
       THEN Goto(t, "insert") /\ mapMutex' = None
       ELSE Goto(t, "check") /\ UNCHANGED mapMutex
  /\ UNCHANGED <<instances, modList, modMutex, moduleMap, arg, stack, parser,
                 mainPc, aborted>>

Find(t) ==
  /\ pc[t] = "find"
  /\ Goto(t, IF moduleMap[arg[t]] = "absent" THEN "insert" ELSE "check")
  /\ UNCHANGED <<instances, modList, modMutex, mapVars, arg, stack, parser,
                 mainPc, aborted>>

\* the spin loop without the unlock
AwaitLocked(t) ==
  /\ pc[t] = "check"
  /\ moduleMap[arg[t]] = "null"
  /\ UNCHANGED vars

(***************************************************************************)
(* One round of the spin loop: the placeholder is still there, so the      *)
(* thread lets go of the mutex and yields.                                 *)
(***************************************************************************)
AwaitModule(t) ==
  /\ pc[t] = "check"
  /\ moduleMap[arg[t]] = "null"
  /\ mapMutex' = None
  /\ Goto(t, "yield")
  /\ UNCHANGED <<instances, modList, modMutex, moduleMap, arg, stack, parser,
                 mainPc, aborted>>

\* the spin loop left out: whatever the map holds is returned
FoundEarly(t) ==
  /\ pc[t] = "check"
  /\ mapMutex' = None
  /\ ReturnTo(t, cur[t])
  /\ UNCHANGED <<instances, modList, modMutex, moduleMap, cur, owner, caller,
                 parser, mainPc, aborted>>

FoundModule(t) ==
  /\ pc[t] = "check"
  /\ moduleMap[arg[t]] # "null"
  /\ mapMutex' = None
  /\ ReturnTo(t, cur[t])
  /\ UNCHANGED <<instances, modList, modMutex, moduleMap, cur, owner, caller,
                 parser, mainPc, aborted>>

(***************************************************************************)
(* The module is not in the map: claim it.  From here on this activation   *)
(* of loadModule is the top of the thread's stack.                         *)
(***************************************************************************)
InsertPlaceholder(t) ==
  /\ pc[t] = "insert"
  /\ moduleMap' = [moduleMap EXCEPT ![arg[t]] = "null"]
  /\ mapMutex' = None
  /\ cur' = [cur EXCEPT ![t] = arg[t]]
  /\ owner' = [owner EXCEPT ![arg[t]] = t]
  /\ caller' = [caller EXCEPT ![arg[t]] = cur[t]]
  /\ dep' = [dep EXCEPT ![arg[t]] = 0]
  /\ arg' = [arg EXCEPT ![t] = None]
  /\ Goto(t, "file")
  /\ UNCHANGED <<instances, modList, modMutex, parser, mainPc, aborted>>

Abort(t) ==
  /\ aborted' = TRUE
  /\ UNCHANGED <<instances, modList, modMutex, mapVars, pc, arg, stack, parser,
                 mainPc>>

(***************************************************************************)
(* The kernel directory has a usable object file for the module ...        *)
(***************************************************************************)
LoadModuleFile(t) ==
  /\ pc[t] = "file"
  /\ loaders' = loaders \cup {[name |-> cur[t], by |-> t]}
  /\ Goto(t, "deps")
  /\ UNCHANGED <<instances, modList, modMutex, mapVars, arg, stack, symStore,
                 resolved, mainPc, aborted>>

\* the early return behind the assert: the placeholder stays in the map
ReturnNull(t) ==
  /\ pc[t] = "file"
  /\ owner' = [owner EXCEPT ![cur[t]] = None]
  /\ cur' = [cur EXCEPT ![t] = caller[cur[t]]]
  /\ ReturnTo(t, caller[cur[t]])
  /\ UNCHANGED <<instances, modList, modMutex, mapVars, caller, parser, mainPc,
                 aborted>>

(***************************************************************************)
(* ... or it has none (assert(false)), the file is no ELF object (a call   *)
(* through the null file), or it has no .modinfo (an exception that leaves *)
(* the thread).  Each ends the process.                                    *)
(***************************************************************************)
ModuleFileUnusable(t) ==
  /\ pc[t] = "file"
  /\ Abort(t)

-----------------------------------------------------------------------------
(* ElfFile64::parseKernelModule and ElfModuleLoader::initText, in order:   *)
(* dependencies, relocations, patching, and the symbols last.              *)

CallDependency(t) ==
  /\ pc[t] = "deps"
  /\ dep[cur[t]] < Len(DepsOf(cur[t]))
  /\ arg' = [arg EXCEPT ![t] = Normalise(DepsOf(cur[t])[dep[cur[t]] + 1])]
  /\ Goto(t, "call")
  /\ UNCHANGED <<instances, modList, modMutex, mapVars, stack, parser, mainPc,
                 aborted>>

DepsLoaded(t) ==
  /\ pc[t] = "deps"
  /\ dep[cur[t]] = Len(DepsOf(cur[t]))

(***************************************************************************)
(* applyRelocations reads kernel->symbols for every undefined symbol; one  *)
(* that is not there resolves to 0 without an error.                       *)
(***************************************************************************)
ApplyRelocations(t) ==
  /\ DepsLoaded(t)
  /\ cur[t] \in instances
  /\ resolved' = [resolved EXCEPT ![cur[t]] = symStore]
  /\ Goto(t, "relocated")
  /\ UNCHANGED <<instances, modList, modMutex, mapVars, arg, stack, loaders,
                 symStore, mainPc, aborted>>

\* applyRelocations asks for the section addresses of a module that the
\* guest's list lacks: getKernelModuleInstance's assert(false)
UnlistedModule(t) ==
  /\ DepsLoaded(t)
  /\ cur[t] \notin instances
  /\ Abort(t)

(***************************************************************************)
(* The rest of initText, initData and parseDwarf touch only the loader;    *)
(* addSymbolsToStore makes the module's symbols known to the others.       *)
(***************************************************************************)
AddSymbols(t) ==
  /\ pc[t] = "relocated"
  /\ symStore' = symStore \cup {FileOf(cur[t])}
  /\ Goto(t, "parsed")
  /\ UNCHANGED <<instances, modList, modMutex, mapVars, arg, stack, loaders,
                 resolved, mainPc, aborted>>

\* the return of a top-level call taken for that of a dependency
PublishNoReturn(t) ==
  /\ pc[t] = "publish"
  /\ moduleMap' = [moduleMap EXCEPT ![cur[t]] = "ready"]
  /\ mapMutex' = None
  /\ owner' = [owner EXCEPT ![cur[t]] = None]
  /\ cur' = [cur EXCEPT ![t] = caller[cur[t]]]
  /\ arg' = [arg EXCEPT ![t] = None]
  /\ Goto(t, "deps")
  /\ UNCHANGED <<instances, modList, modMutex, caller, dep, parser, mainPc,
                 aborted>>

PublishModule(t) ==
  /\ pc[t] = "publish"
  /\ moduleMap' = [moduleMap EXCEPT ![cur[t]] = "ready"]
  /\ mapMutex' = None
  /\ owner' = [owner EXCEPT ![cur[t]] = None]
  /\ cur' = [cur EXCEPT ![t] = caller[cur[t]]]
  /\ ReturnTo(t, caller[cur[t]])
  /\ UNCHANGED <<instances, modList, modMutex, caller, parser, mainPc, aborted>>

-----------------------------------------------------------------------------
(* loadAllModules, in the main thread.                                     *)

SpawnThread(t) ==
  /\ mainPc = "spawn"
  /\ pc[t] = "new"
  /\ Goto(t, "pop")
  /\ UNCHANGED <<instances, modList, modMutex, mapVars, arg, stack, parser,
                 mainPc, aborted>>

\* only one of the threads is joined
JoinFirst ==
  /\ mainPc = "spawn"
  /\ \A t \in Threads : pc[t] # "new"
  /\ \E t \in Threads : pc[t] = "done"
  /\ mainPc' = "check"
  /\ UNCHANGED <<instances, modList, modMutex, mapVars, pc, arg, stack, parser,
                 aborted>>

\* thread->join() for every thread, one after the other
JoinThreads ==
  /\ mainPc = "spawn"
  /\ \A t \in Threads : pc[t] = "done"
  /\ mainPc' = "check"
  /\ UNCHANGED <<instances, modList, modMutex, mapVars, pc, arg, stack, parser,
                 aborted>>

\* assert(module.second) for every entry of moduleMap
CheckModules ==
  /\ mainPc = "check"
  /\ mainPc' = "done"
  /\ aborted' = (\E n \in Names : moduleMap[n] = "null")
  /\ UNCHANGED <<instances, modList, modMutex, mapVars, pc, arg, stack, parser>>

-----------------------------------------------------------------------------
ThreadStep(t) ==
  \/ LockModList(t) \/ PopModule(t) \/ ThreadReturn(t)
  \/ LockMap(t) \/ Find(t) \/ AwaitModule(t) \/ FoundModule(t)
  \/ InsertPlaceholder(t) \/ LoadModuleFile(t) \/ ModuleFileUnusable(t)
  \/ CallDependency(t) \/ ApplyRelocations(t) \/ UnlistedModule(t)
  \/ AddSymbols(t) \/ PublishModule(t)

MainStep == (\E t \in Threads : SpawnThread(t)) \/ JoinThreads \/ CheckModules

Terminated == aborted \/ mainPc = "done"

Next ==
  \/ /\ ~aborted
     /\ MainStep \/ \E t \in Threads : ThreadStep(t)
  \/ Terminated /\ UNCHANGED vars

(***************************************************************************)
(* A thread that can go on does.  A lock is granted again and again to the *)
(* spinning threads, so waiting for it is only bounded if the mutex does   *)
(* not starve a waiter: strong fairness, which is what the yield between   *)
(* unlock and lock is there to bring about.                                *)
(***************************************************************************)
Fairness ==
  /\ WF_vars(~aborted /\ MainStep)
  /\ \A t \in Threads :
        /\ WF_vars(~aborted /\ ThreadStep(t))
        /\ SF_vars(~aborted /\ LockMap(t))
        /\ SF_vars(~aborted /\ LockModList(t))

Spec == Init /\ [][Next]_vars

FairSpec == Spec /\ Fairness

-----------------------------------------------------------------------------
(* Properties.                                                             *)

Labels == {"new", "pop", "pick", "call", "find", "check", "yield", "insert",
           "file", "deps", "relocated", "parsed", "publish", "done"}

\* labels inside the parse of a module, and inside the lookup of one
Parsing == {"file", "deps", "relocated", "parsed", "publish"}
LookingUp == {"call", "find", "check", "yield", "insert"}

\* the labels at which a thread holds moduleMapMutex
InMap == {"find", "check", "insert", "publish"}

(***************************************************************************)
(* Every variable has its type; a worker is at a label of loadModule's     *)
(* body exactly when a module is on its stack or in its argument.          *)
(***************************************************************************)
TypeOK ==
  /\ instances \subseteq Modules
  /\ modList \subseteq instances
  /\ modMutex \in Threads \cup {None}
  /\ moduleMap \in [Names -> {"absent", "null", "ready"}]
  /\ mapMutex \in Threads \cup {None}
  /\ pc \in [Threads -> Labels]
  /\ arg \in [Threads -> Names \cup {None}]
  /\ cur \in [Threads -> Names \cup {None}]
  /\ owner \in [Names -> Threads \cup {None}]
  /\ caller \in [Names -> Names \cup {None}]
  /\ dep \in [Names -> Nat]
  /\ loaders \subseteq [name : Names, by : Threads]
  /\ symStore \subseteq Modules
  /\ resolved \in [Names -> SUBSET Modules]
  /\ mainPc \in {"spawn", "check", "done"}
  /\ aborted \in BOOLEAN
  /\ \A t \in Threads :
        /\ pc[t] \in LookingUp <=> arg[t] # None
        /\ pc[t] \in Parsing => cur[t] # None
        /\ cur[t] # None => pc[t] \in Parsing \cup LookingUp

(***************************************************************************)
(* No module gets two loaders, whichever threads reach it at the same time *)
(* and however its name is spelled: loadModule checks the map and inserts  *)
(* the placeholder in one critical section, under the normalised name.     *)
(***************************************************************************)
OneLoaderPerModule ==
  \A l1, l2 \in loaders : FileOf(l1.name) = FileOf(l2.name) => l1 = l2

(***************************************************************************)
(* A module that is relocated found the symbols of every module it depends *)
(* on: loadModule does not return before the other thread's loader, symbols*)
(* included, is complete.  (A symbol that is not found silently gives 0,   *)
(* and the module's text would later be reported as modified.)             *)
(***************************************************************************)
DependencySymbolsResolved ==
  \A t \in Threads : pc[t] \in {"relocated", "parsed", "publish"} =>
     \A i \in DOMAIN DepsOf(cur[t]) :
        FileOf(DepsOf(cur[t])[i]) \in resolved[cur[t]]

(***************************************************************************)
(* A thread in the spin loop waits for a module that another thread is     *)
(* parsing, and that thread is at work on something further down the       *)
(* dependency order than the module whose dependencies the waiting thread  *)
(* is loading.  So the waits-for relation between threads has no cycle,    *)
(* although threads wait while their own placeholders are in the map.      *)
(***************************************************************************)
WaitersDescend ==
  \A t \in Threads :
     pc[t] \in {"check", "yield"} /\ moduleMap[arg[t]] = "null" =>
       \E u \in Threads \ {t} :
          /\ owner[arg[t]] = u
          /\ cur[u] # None
          /\ Rank[FileOf(cur[u])] <= Rank[FileOf(arg[t])]
          /\ cur[t] # None => Rank[FileOf(cur[u])] < Rank[FileOf(cur[t])]

Abs == INSTANCE ModuleLoadingAbs WITH
  AbsModules <- Modules,
  AbsDeps <- [m \in Modules |-> {Canon[Deps[m][i]] : i \in DOMAIN Deps[m]}],
  wanted <- instances,
  loaded <- {m \in Modules : moduleMap[m] = "ready"},
  outcome <- IF aborted THEN "aborted"
             ELSE IF mainPc = "done" THEN "returned" ELSE "running"

(***************************************************************************)
(* The loader keeps the promises of ModuleLoadingAbs: loaders are published*)
(* once, in dependency order, never withdrawn, and all of the guest's list *)
(* is there when loadAllModules returns (its closing loop asserts it).     *)
(***************************************************************************)
LoadsInOrder == Abs!AbsSpec

(***************************************************************************)
(* loadAllModules returns, unless the process dies: no thread spins        *)
(* forever, and the join is reached.                                       *)
(***************************************************************************)
LoadingEnds == <>Terminated
=============================================================================
