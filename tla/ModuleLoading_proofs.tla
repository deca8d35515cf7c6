------------------------ MODULE ModuleLoading_proofs ------------------------
(***************************************************************************)
(* Proofs about the kernel module loader, for any set of modules, any      *)
(* acyclic dependency graph and any number of worker threads.              *)
(***************************************************************************)
EXTENDS ModuleLoading, TLAPS

USE NameAssumption DEF NameAssumption

-----------------------------------------------------------------------------
(* Types.                                                                  *)

LEMMA TypeInit == Init => TypeOK
<1> SUFFICES ASSUME Init PROVE TypeOK
  OBVIOUS
<1>1. /\ instances \subseteq Modules
      /\ modList \subseteq instances
      /\ loaders \subseteq [name : Names, by : Threads]
      /\ symStore \subseteq Modules
      /\ aborted \in BOOLEAN
  BY DEF Init
<1>2. resolved \in [Names -> SUBSET Modules] /\ dep \in [Names -> Nat]
  BY DEF Init
<1>3. \A t \in Threads : pc[t] = "new" /\ arg[t] = None /\ cur[t] = None
  BY DEF Init
<1>4. pc \in [Threads -> Labels]
  BY DEF Init, Labels
<1> QED
  BY <1>1, <1>2, <1>3, <1>4 DEF Init, TypeOK, Parsing, LookingUp

LEMMA TypeNext == TypeOK /\ [Next]_vars => TypeOK'
<1> SUFFICES ASSUME TypeOK, [Next]_vars
             PROVE  TypeOK'
  OBVIOUS
<1> USE DEF TypeOK, Labels, Parsing, LookingUp, Goto, stack, parser, mapVars
<1>1. ASSUME NEW t \in Threads, LockModList(t) PROVE TypeOK'
  BY <1>1 DEF LockModList
<1>2. ASSUME NEW t \in Threads, PopModule(t) PROVE TypeOK'
  BY <1>2 DEF PopModule, Normalise
<1>3. ASSUME NEW t \in Threads, ThreadReturn(t) PROVE TypeOK'
  BY <1>3 DEF ThreadReturn
<1>4. ASSUME NEW t \in Threads, LockMap(t) PROVE TypeOK'
  <2>1. CASE pc[t] = "call" /\ pc' = [pc EXCEPT ![t] = "find"]
    BY <1>4, <2>1 DEF LockMap
  <2>2. CASE pc[t] = "yield" /\ pc' = [pc EXCEPT ![t] = "check"]
    BY <1>4, <2>2 DEF LockMap
  <2>3. CASE pc[t] = "parsed" /\ pc' = [pc EXCEPT ![t] = "publish"]
    BY <1>4, <2>3 DEF LockMap
  <2> QED BY <1>4, <2>1, <2>2, <2>3 DEF LockMap
<1>5. ASSUME NEW t \in Threads, Find(t) PROVE TypeOK'
  BY <1>5 DEF Find
<1>6. ASSUME NEW t \in Threads, AwaitModule(t) PROVE TypeOK'
  BY <1>6 DEF AwaitModule
<1>7. ASSUME NEW t \in Threads, FoundModule(t) PROVE TypeOK'
  <2>1. dep' \in [Names -> Nat]
    BY <1>7 DEF FoundModule, ReturnTo
  <2> QED
    BY <1>7, <2>1 DEF FoundModule, ReturnTo
<1>8. ASSUME NEW t \in Threads, InsertPlaceholder(t) PROVE TypeOK'
  BY <1>8 DEF InsertPlaceholder
<1>9. ASSUME NEW t \in Threads, LoadModuleFile(t) PROVE TypeOK'
  BY <1>9 DEF LoadModuleFile
<1>10. ASSUME NEW t \in Threads, ModuleFileUnusable(t) \/ UnlistedModule(t)
       PROVE  TypeOK'
  <2>1. /\ aborted' = TRUE
        /\ UNCHANGED <<instances, modList, modMutex, moduleMap, mapMutex, pc, arg, cur,
                       owner, caller, dep, loaders, symStore, resolved, mainPc>>
    BY <1>10 DEF ModuleFileUnusable, UnlistedModule, Abort
  <2> QED BY <2>1
<1>11. ASSUME NEW t \in Threads, CallDependency(t) PROVE TypeOK'
  <2> DEFINE a == Canon[Deps[Canon[cur[t]]][dep[cur[t]] + 1]]
  <2>1. /\ pc[t] = "deps" /\ pc' = [pc EXCEPT ![t] = "call"]
        /\ arg' = [arg EXCEPT ![t] = a]
        /\ UNCHANGED <<instances, modList, modMutex, moduleMap, mapMutex, cur,
                       owner, caller, dep, loaders, symStore, resolved, mainPc, aborted>>
    BY <1>11 DEF CallDependency, Normalise, DepsOf, FileOf
  <2>2. cur[t] \in Names /\ dep[cur[t]] \in Nat /\ dep[cur[t]] < Len(Deps[Canon[cur[t]]])
    BY <1>11 DEF CallDependency, DepsOf, FileOf
  <2>3. a \in Names /\ a # None
    <3>1. Deps[Canon[cur[t]]] \in Seq(Names)
      BY <2>2
    <3>2. Deps[Canon[cur[t]]][dep[cur[t]] + 1] \in Names
      BY <2>2, <3>1
    <3> QED BY <3>2
  <2> HIDE DEF a
  <2>4. arg' \in [Threads -> Names \cup {None}] /\ pc' \in [Threads -> Labels]
    BY <2>1, <2>3
  <2> QED BY <2>1, <2>3, <2>4
<1>12. ASSUME NEW t \in Threads, ApplyRelocations(t) PROVE TypeOK'
  BY <1>12 DEF ApplyRelocations, DepsLoaded
<1>13. ASSUME NEW t \in Threads, AddSymbols(t) PROVE TypeOK'
  BY <1>13 DEF AddSymbols, FileOf
<1>14. ASSUME NEW t \in Threads, PublishModule(t) PROVE TypeOK'
  <2>1. dep' \in [Names -> Nat]
    BY <1>14 DEF PublishModule, ReturnTo
  <2> QED
    BY <1>14, <2>1 DEF PublishModule, ReturnTo
<1>15. ASSUME NEW t \in Threads, SpawnThread(t) PROVE TypeOK'
  BY <1>15 DEF SpawnThread
<1>16. ASSUME JoinThreads PROVE TypeOK'
  BY <1>16 DEF JoinThreads
<1>17. ASSUME CheckModules PROVE TypeOK'
  BY <1>17 DEF CheckModules
<1>18. ASSUME UNCHANGED vars PROVE TypeOK'
  BY <1>18 DEF vars
<1> QED
  BY <1>1, <1>2, <1>3, <1>4, <1>5, <1>6, <1>7, <1>8, <1>9, <1>10, <1>11,
     <1>12, <1>13, <1>14, <1>15, <1>16, <1>17, <1>18
     DEF Next, ThreadStep, MainStep

(***************************************************************************)
(* The state of Kernel::loadAllModules and of its workers is well-typed in *)
(* every behaviour, and a worker is inside loadModule exactly when it has a*)
(* module on its stack or as its argument.                                 *)
(***************************************************************************)
THEOREM TypeCorrect == Spec => []TypeOK
<1> QED BY TypeInit, TypeNext, PTL DEF Spec

-----------------------------------------------------------------------------
(* The inductive invariant.                                                *)

\* the dependency loop of k's parse has called for n and not yet returned
Awaiting(k, n) ==
  /\ dep[k] < Len(Deps[k])
  /\ n = Canon[Deps[k][dep[k] + 1]]

\* only the holder of moduleMapMutex is at a label between lock and unlock
LockInv == \A t \in Threads : pc[t] \in InMap => mapMutex = t

\* the modules a thread owns are those on its stack; the top ranks lowest
TopInv ==
  /\ \A t \in Threads : cur[t] # None => cur[t] \in Modules /\ owner[cur[t]] = t
  /\ \A n \in Names : owner[n] # None =>
        /\ n \in Modules
        /\ cur[owner[n]] # None
        /\ Rank[cur[owner[n]]] <= Rank[n]

\* the caller of a module is below it on the same stack and waits for it
CallerInv ==
  \A n \in Names : owner[n] # None /\ caller[n] # None =>
     /\ caller[n] \in Modules
     /\ owner[caller[n]] = owner[n]
     /\ Awaiting(caller[n], n)

\* the caller is the next one down: no module of the stack ranks in between
ChainInv ==
  \A n, m \in Names :
     owner[n] # None /\ owner[m] = owner[n] /\ n # m =>
       /\ Rank[n] # Rank[m]
       /\ Rank[n] < Rank[m] => caller[n] # None /\ Rank[caller[n]] <= Rank[m]

\* what a thread looks up is the next dependency of the top of its stack
ArgInv ==
  \A t \in Threads : arg[t] # None =>
     /\ arg[t] \in Modules
     /\ cur[t] # None => Awaiting(cur[t], arg[t])

\* a placeholder is in the map exactly while the module is on a stack
MapInv ==
  /\ \A n \in Names : moduleMap[n] = "null" <=> owner[n] # None
  /\ \A t \in Threads : pc[t] = "insert" => moduleMap[arg[t]] = "absent"
  /\ \A t \in Threads :
        pc[t] \in {"check", "yield"} => moduleMap[arg[t]] # "absent"

\* dependencies counted as loaded are published, with their symbols
DepInv ==
  /\ \A n \in Modules : moduleMap[n] = "ready" => n \in symStore
  /\ \A n \in Modules : owner[n] # None =>
        /\ dep[n] <= Len(Deps[n])
        /\ \A i \in 1..dep[n] : moduleMap[Canon[Deps[n][i]]] = "ready"

\* what the later steps of a parse have established
ParseInv ==
  /\ \A t \in Threads : pc[t] \in {"relocated", "parsed", "publish"} =>
        /\ dep[cur[t]] = Len(Deps[cur[t]])
        /\ \A i \in DOMAIN Deps[cur[t]] :
              Canon[Deps[cur[t]][i]] \in resolved[cur[t]]
  /\ \A t \in Threads : pc[t] \in {"parsed", "publish"} => cur[t] \in symStore

\* a loader is created once, after the placeholder is in the map
LoaderInv ==
  /\ \A l \in loaders : l.name \in Modules /\ moduleMap[l.name] # "absent"
  /\ \A l1, l2 \in loaders : l1.name = l2.name => l1 = l2
  /\ \A t \in Threads : pc[t] = "file" => \A l \in loaders : l.name # cur[t]

\* a module of the guest's list is on modList, being looked up, or claimed
ListInv ==
  /\ \A t \in Threads : pc[t] = "done" => modList = {}
  /\ mainPc # "spawn" => \A t \in Threads : pc[t] = "done"
  /\ \A m \in instances :
        m \in modList \/ moduleMap[m] # "absent" \/ \E t \in Threads : arg[t] = m

IInv ==
  /\ TypeOK /\ LockInv /\ TopInv /\ CallerInv /\ ChainInv /\ ArgInv /\ MapInv
  /\ DepInv /\ ParseInv /\ LoaderInv /\ ListInv

-----------------------------------------------------------------------------
(* Every step keeps the inductive invariant: facts used for several steps. *)

\* a dependency that is awaited ranks below the module that awaits it
LEMMA AwaitedRank ==
  ASSUME TypeOK, NEW k \in Modules, NEW n, Awaiting(k, n)
  PROVE  n \in Modules /\ Rank[n] \in Nat /\ Rank[k] \in Nat /\ Rank[n] < Rank[k]
<1>1. dep[k] + 1 \in DOMAIN Deps[k] /\ Deps[k] \in Seq(Names)
  BY DEF TypeOK, Awaiting
<1>2. Deps[k][dep[k] + 1] \in Names
  BY <1>1
<1> QED
  BY <1>1, <1>2, AcyclicAssumption DEF AcyclicAssumption, Awaiting

LEMMA DependencyNames ==
  ASSUME NEW s \in Seq(Names)
  PROVE  \A i \in DOMAIN s : s[i] \in Names
OBVIOUS

\* no two threads are parsing the same module, at the top or further down
LEMMA OtherTop ==
  ASSUME TopInv, NEW t \in Threads, NEW u \in Threads, u # t,
         NEW k \in Names, owner[k] = t
  PROVE  cur[u] # k
BY DEF TopInv

\* the steps that take or let go of a lock only
LEMMA StepLocks ==
  ASSUME IInv, TypeOK', NEW t \in Threads,
         LockModList(t) \/ ThreadReturn(t) \/ LockMap(t)
  PROVE  IInv'
<1> USE DEF Goto, stack, parser, mapVars, LockModList, ThreadReturn, LockMap
<1>0. TypeOK BY DEF IInv
<1>1. /\ pc' = [pc EXCEPT ![t] = pc'[t]]
      /\ \/ pc[t] = "pop" /\ pc'[t] = "pick"
         \/ pc[t] = "pick" /\ pc'[t] = "done" /\ modList = {}
         \/ pc[t] = "call" /\ pc'[t] = "find"
         \/ pc[t] = "yield" /\ pc'[t] = "check"
         \/ pc[t] = "parsed" /\ pc'[t] = "publish"
  BY <1>0 DEF TypeOK
<1>2. UNCHANGED <<instances, modList, moduleMap, arg, stack, parser, mainPc>>
  OBVIOUS
<1>3. LockInv'
  BY <1>0 DEF IInv, LockInv, InMap, TypeOK
<1> HIDE DEF LockModList, ThreadReturn, LockMap
<1>4. TopInv' /\ CallerInv' /\ ChainInv' /\ ArgInv' /\ DepInv'
  BY <1>2 DEF IInv, TopInv, CallerInv, ChainInv, ArgInv, DepInv, Awaiting
<1>5. MapInv'
  BY <1>0, <1>1, <1>2 DEF IInv, MapInv, TypeOK
<1>6. ParseInv'
  BY <1>0, <1>1, <1>2 DEF IInv, ParseInv, TypeOK
<1>7. LoaderInv'
  BY <1>0, <1>1, <1>2 DEF IInv, LoaderInv, TypeOK
<1>8. ListInv'
  <2>1. ASSUME NEW u \in Threads, pc'[u] = "done"
        PROVE  modList' = {}
    <3>1. pc[u] = "done" \/ modList = {}
      BY <1>0, <1>1, <2>1 DEF TypeOK
    <3> QED BY <1>2, <3>1 DEF IInv, ListInv
  <2>2. mainPc' # "spawn" => \A u \in Threads : pc'[u] = "done"
    BY <1>0, <1>1, <1>2 DEF IInv, ListInv, TypeOK
  <2> QED
    BY <1>2, <2>1, <2>2 DEF IInv, ListInv
<1> QED
  BY <1>3, <1>4, <1>5, <1>6, <1>7, <1>8 DEF IInv

LEMMA StepPopModule ==
  ASSUME IInv, TypeOK', NEW t \in Threads, PopModule(t)
  PROVE  IInv'
<1> USE DEF Goto, stack, parser, mapVars
<1>0. TypeOK BY DEF IInv
<1>1. PICK m \in modList : /\ modList' = modList \ {m}
                           /\ arg' = [arg EXCEPT ![t] = m]
  <2>1. modList \subseteq Modules
    BY <1>0 DEF TypeOK
  <2> QED BY <2>1 DEF PopModule, Normalise
<1>2. /\ m \in Modules /\ m # None
      /\ pc[t] = "pick" /\ pc' = [pc EXCEPT ![t] = "call"]
      /\ arg[t] = None /\ cur[t] = None
      /\ UNCHANGED <<instances, moduleMap, mapMutex, stack, parser, mainPc>>
  <2>1. /\ pc[t] = "pick" /\ pc' = [pc EXCEPT ![t] = "call"]
        /\ UNCHANGED <<instances, moduleMap, mapMutex, stack, parser, mainPc>>
    BY DEF PopModule
  <2>2. m \in Modules /\ m # None
    BY <1>0 DEF TypeOK
  <2>3. arg[t] = None /\ cur[t] = None
    BY <1>0, <2>1 DEF TypeOK, LookingUp, Parsing
  <2> QED BY <2>1, <2>2, <2>3
<1>3. LockInv'
  BY <1>0, <1>2 DEF IInv, LockInv, InMap, TypeOK
<1>4. TopInv' /\ CallerInv' /\ ChainInv' /\ DepInv'
  BY <1>2 DEF IInv, TopInv, CallerInv, ChainInv, DepInv, Awaiting
<1>5. ArgInv'
  <2> SUFFICES ASSUME NEW u \in Threads, arg'[u] # None
               PROVE  arg'[u] \in Modules /\ (cur[u] # None => Awaiting(cur[u], arg'[u]))
    BY <1>2 DEF ArgInv, Awaiting
  <2>1. CASE u = t
    <3>1. arg'[u] = m /\ cur[u] = None
      BY <1>0, <1>1, <1>2, <2>1 DEF TypeOK
    <3> QED BY <1>2, <3>1
  <2>2. CASE u # t
    <3>1. arg'[u] = arg[u]
      BY <1>0, <1>1, <2>2 DEF TypeOK
    <3> QED BY <3>1 DEF IInv, ArgInv
  <2> QED BY <2>1, <2>2
<1>6. MapInv'
  BY <1>0, <1>1, <1>2 DEF IInv, MapInv, TypeOK
<1>7. ParseInv' /\ LoaderInv'
  BY <1>0, <1>2 DEF IInv, ParseInv, LoaderInv, TypeOK
<1>8. ListInv'
  <2>1. \A u \in Threads : pc'[u] # "done" \/ (modList = {} /\ u # t)
    BY <1>0, <1>2 DEF IInv, ListInv, TypeOK
  <2>2. \A u \in Threads : pc'[u] # "done"
    BY <1>1, <2>1
  <2>3. mainPc' = "spawn"
    BY <1>0, <1>2 DEF IInv, ListInv, TypeOK
  <2>4. ASSUME NEW n \in instances'
        PROVE  \/ n \in modList' \/ moduleMap'[n] # "absent"
               \/ \E u \in Threads : arg'[u] = n
    <3>1. n \in instances /\ n # None
      BY <1>0, <1>2, <2>4 DEF TypeOK
    <3>2. CASE n = m
      BY <1>0, <1>1, <3>2 DEF TypeOK
    <3>3. CASE \E u \in Threads : arg[u] = n
      BY <1>0, <1>1, <1>2, <3>1, <3>3 DEF TypeOK
    <3> QED
      BY <1>1, <1>2, <3>1, <3>2, <3>3 DEF IInv, ListInv
  <2> QED
    BY <2>2, <2>3, <2>4 DEF ListInv
<1> QED
  BY <1>3, <1>4, <1>5, <1>6, <1>7, <1>8 DEF IInv

LEMMA StepFindAwait ==
  ASSUME IInv, TypeOK', NEW t \in Threads, Find(t) \/ AwaitModule(t)
  PROVE  IInv'
<1> USE DEF Goto, stack, parser, mapVars, Find, AwaitModule
<1>0. TypeOK BY DEF IInv
<1>1. /\ pc' = [pc EXCEPT ![t] = pc'[t]]
      /\ \/ pc[t] = "find" /\ pc'[t] = "insert" /\ moduleMap[arg[t]] = "absent"
         \/ pc[t] = "find" /\ pc'[t] = "check" /\ moduleMap[arg[t]] # "absent"
         \/ pc[t] = "check" /\ pc'[t] = "yield"
  BY <1>0 DEF TypeOK
<1>2. UNCHANGED <<instances, modList, moduleMap, arg, stack, parser, mainPc>>
  OBVIOUS
<1>3. LockInv'
  BY <1>0 DEF IInv, LockInv, InMap, TypeOK
<1> HIDE DEF Find, AwaitModule
<1>4. TopInv' /\ CallerInv' /\ ChainInv' /\ ArgInv' /\ DepInv'
  BY <1>2 DEF IInv, TopInv, CallerInv, ChainInv, ArgInv, DepInv, Awaiting
<1>5. MapInv'
  BY <1>0, <1>1, <1>2 DEF IInv, MapInv, TypeOK
<1>6. ParseInv' /\ LoaderInv'
  <2>1. ASSUME NEW u \in Threads, pc'[u] \notin {"find", "insert", "check", "yield"}
        PROVE  pc'[u] = pc[u]
    BY <1>0, <1>1, <2>1 DEF TypeOK
  <2>2. ParseInv'
    BY <1>2, <2>1 DEF IInv, ParseInv
  <2>3. LoaderInv'
    BY <1>0, <1>1, <1>2, <2>1 DEF IInv, LoaderInv, TypeOK
  <2> QED BY <2>2, <2>3
<1>7. ListInv'
  <2>1. ASSUME NEW u \in Threads, pc'[u] = "done"
        PROVE  modList' = {}
    <3>1. pc[u] = "done" \/ modList = {}
      BY <1>0, <1>1, <2>1 DEF TypeOK
    <3> QED BY <1>2, <3>1 DEF IInv, ListInv
  <2>2. mainPc' # "spawn" => \A u \in Threads : pc'[u] = "done"
    BY <1>0, <1>1, <1>2 DEF IInv, ListInv, TypeOK
  <2> QED
    BY <1>2, <2>1, <2>2 DEF IInv, ListInv
<1> QED
  BY <1>3, <1>4, <1>5, <1>6, <1>7 DEF IInv

-----------------------------------------------------------------------------
(* The three steps that push, count and pop.                               *)

LEMMA StepFoundModule ==
  ASSUME IInv, TypeOK', NEW t \in Threads, FoundModule(t)
  PROVE  IInv'
<1> DEFINE k == cur[t]
<1> DEFINE a == arg[t]
<1> USE DEF Goto, stack, parser, mapVars
<1>0. TypeOK BY DEF IInv
<1>1. /\ pc[t] = "check"
      /\ pc' = [pc EXCEPT ![t] = IF k = None THEN "pop" ELSE "deps"]
      /\ arg' = [arg EXCEPT ![t] = None]
      /\ dep' = [n \in Names |-> IF n = k THEN dep[n] + 1 ELSE dep[n]]
      /\ mapMutex' = None
      /\ UNCHANGED <<instances, modList, moduleMap, cur, owner, caller, parser,
                     mainPc>>
  BY DEF FoundModule, ReturnTo
<1>2. a \in Modules /\ moduleMap[a] = "ready"
  <2>1. a # None
    BY <1>0, <1>1 DEF TypeOK, LookingUp
  <2>2. moduleMap[a] # "absent" /\ moduleMap[a] # "null" /\ a \in Modules
    BY <1>1, <2>1 DEF IInv, MapInv, ArgInv, FoundModule
  <2> QED BY <1>0, <2>2 DEF TypeOK
<1>3. ASSUME k # None PROVE k \in Modules /\ owner[k] = t /\ Awaiting(k, a)
  BY <1>2, <1>3 DEF IInv, TopInv, ArgInv
<1>4. ASSUME NEW n \in Names, owner[n] # None, caller[n] # None
      PROVE  caller[n] # k
  <2> SUFFICES ASSUME caller[n] = k PROVE FALSE
    OBVIOUS
  <2>1. k \in Modules /\ owner[n] = t /\ Awaiting(k, n)
    BY <1>4, <1>3 DEF IInv, CallerInv
  <2>2. Rank[n] < Rank[k] /\ Rank[n] \in Nat /\ Rank[k] \in Nat
    BY <1>0, <2>1, AwaitedRank
  <2>3. Rank[k] <= Rank[n]
    BY <2>1, <1>4 DEF IInv, TopInv
  <2> QED BY <2>2, <2>3
<1>5. ASSUME NEW u \in Threads, u # t, cur[u] # None
      PROVE  cur[u] \in Modules /\ dep'[cur[u]] = dep[cur[u]]
  <2>1. cur[u] \in Modules /\ cur[u] # k
    BY <1>5, <1>3 DEF IInv, TopInv
  <2> QED BY <1>1, <2>1
<1>6. LockInv'
  BY <1>0, <1>1 DEF IInv, LockInv, InMap, TypeOK
<1>7. TopInv' /\ ChainInv' /\ MapInv'
  BY <1>0, <1>1 DEF IInv, TopInv, ChainInv, MapInv, TypeOK
<1>8. CallerInv'
  BY <1>1, <1>4 DEF IInv, CallerInv, Awaiting
<1>9. ArgInv'
  <2> SUFFICES ASSUME NEW u \in Threads, arg'[u] # None
               PROVE  /\ arg'[u] \in Modules
                      /\ cur'[u] # None =>
                           /\ dep'[cur'[u]] < Len(Deps[cur'[u]])
                           /\ arg'[u] = Canon[Deps[cur'[u]][dep'[cur'[u]] + 1]]
    BY DEF ArgInv, Awaiting
  <2>1. u # t /\ arg'[u] = arg[u] /\ cur'[u] = cur[u]
    BY <1>0, <1>1 DEF TypeOK
  <2>2. arg[u] \in Modules /\ (cur[u] # None => Awaiting(cur[u], arg[u]))
    BY <2>1 DEF IInv, ArgInv
  <2> QED BY <1>5, <2>1, <2>2 DEF Awaiting
<1>10. DepInv'
  <2>1. ASSUME NEW n \in Modules, owner[n] # None
        PROVE  /\ dep'[n] <= Len(Deps[n])
               /\ \A i \in 1..dep'[n] : moduleMap[Canon[Deps[n][i]]] = "ready"
    <3>0. n \in Names /\ dep[n] \in Nat /\ Len(Deps[n]) \in Nat
      BY <1>0 DEF TypeOK
    <3>1. /\ dep[n] <= Len(Deps[n])
          /\ \A i \in 1..dep[n] : moduleMap[Canon[Deps[n][i]]] = "ready"
      BY <2>1 DEF IInv, DepInv
    <3>2. CASE n # k
      BY <1>1, <3>0, <3>1, <3>2
    <3>3. CASE n = k
      <4>1. Awaiting(n, a)
        BY <1>3, <3>0, <3>3
      <4>2. dep'[n] = dep[n] + 1
        BY <1>1, <3>0, <3>3
      <4>3. /\ dep[n] < Len(Deps[n])
            /\ moduleMap[Canon[Deps[n][dep[n] + 1]]] = "ready"
        BY <1>2, <4>1 DEF Awaiting
      <4>4. dep'[n] <= Len(Deps[n])
        BY <3>0, <4>2, <4>3
      <4>5. ASSUME NEW i \in 1..dep'[n] PROVE moduleMap[Canon[Deps[n][i]]] = "ready"
        <5>1. i \in 1..dep[n] \/ i = dep[n] + 1
          BY <3>0, <4>2
        <5> QED BY <3>1, <4>3, <5>1
      <4> QED BY <4>4, <4>5
    <3> QED BY <3>2, <3>3
  <2> QED
    BY <1>1, <2>1 DEF IInv, DepInv
<1>11. ParseInv'
  <2>1. ASSUME NEW u \in Threads, pc'[u] \in {"relocated", "parsed", "publish"}
        PROVE  pc'[u] = pc[u] /\ u # t /\ cur'[u] = cur[u]
    BY <1>0, <1>1, <2>1 DEF TypeOK
  <2>2. ASSUME NEW u \in Threads, pc'[u] \in {"relocated", "parsed", "publish"}
        PROVE  cur[u] # None /\ dep'[cur[u]] = dep[cur[u]]
    <3>1. pc[u] \in Parsing /\ u # t
      BY <2>1, <2>2 DEF Parsing
    <3>2. cur[u] # None
      BY <1>0, <3>1 DEF TypeOK
    <3> QED BY <1>5, <3>1, <3>2
  <2>3. resolved' = resolved /\ symStore' = symStore
    BY <1>1
  <2>4. \A u \in Threads :
           /\ pc[u] \in {"relocated", "parsed", "publish"} =>
                /\ dep[cur[u]] = Len(Deps[cur[u]])
                /\ \A i \in DOMAIN Deps[cur[u]] :
                      Canon[Deps[cur[u]][i]] \in resolved[cur[u]]
           /\ pc[u] \in {"parsed", "publish"} => cur[u] \in symStore
    BY DEF IInv, ParseInv
  <2> HIDE DEF k
  <2> QED
    <3> SUFFICES ASSUME NEW u \in Threads, pc'[u] \in {"relocated", "parsed", "publish"}
                 PROVE  /\ dep'[cur'[u]] = Len(Deps[cur'[u]])
                        /\ \A i \in DOMAIN Deps[cur'[u]] :
                             Canon[Deps[cur'[u]][i]] \in resolved'[cur'[u]]
                        /\ pc'[u] \in {"parsed", "publish"} => cur'[u] \in symStore'
      BY DEF ParseInv
    <3> QED BY <2>1, <2>2, <2>3, <2>4
<1>12. LoaderInv'
  BY <1>0, <1>1 DEF IInv, LoaderInv, TypeOK
<1>13. ListInv'
  <2>1. ASSUME NEW m \in instances, NEW u \in Threads, arg[u] = m
        PROVE  moduleMap[m] # "absent" \/ arg'[u] = m
    BY <1>0, <1>1, <1>2, <2>1 DEF TypeOK
  <2> QED
    BY <1>0, <1>1, <2>1 DEF IInv, ListInv, TypeOK
<1> QED
  BY <1>6, <1>7, <1>8, <1>9, <1>10, <1>11, <1>12, <1>13 DEF IInv

LEMMA StepInsertPlaceholder ==
  ASSUME IInv, TypeOK', NEW t \in Threads, InsertPlaceholder(t)
  PROVE  IInv'
<1> DEFINE k == cur[t]
<1> DEFINE a == arg[t]
<1> USE DEF Goto, stack, parser, mapVars
<1>0. TypeOK BY DEF IInv
<1>1. /\ pc[t] = "insert"
      /\ pc' = [pc EXCEPT ![t] = "file"]
      /\ arg' = [arg EXCEPT ![t] = None]
      /\ moduleMap' = [moduleMap EXCEPT ![a] = "null"]
      /\ cur' = [cur EXCEPT ![t] = a]
      /\ owner' = [owner EXCEPT ![a] = t]
      /\ caller' = [caller EXCEPT ![a] = k]
      /\ dep' = [dep EXCEPT ![a] = 0]
      /\ mapMutex' = None
      /\ UNCHANGED <<instances, modList, parser, mainPc>>
  BY DEF InsertPlaceholder
<1>2. /\ a \in Modules /\ a \in Names /\ t # None
      /\ moduleMap[a] = "absent" /\ owner[a] = None
  BY <1>0, <1>1 DEF IInv, MapInv, ArgInv, TypeOK, LookingUp
<1>3. ASSUME k # None
      PROVE  /\ k \in Modules /\ k \in Names /\ owner[k] = t /\ k # a
             /\ Awaiting(k, a) /\ Rank[a] < Rank[k]
  <2>1. k \in Modules /\ owner[k] = t /\ Awaiting(k, a)
    BY <1>2, <1>3 DEF IInv, TopInv, ArgInv
  <2>2. Rank[a] < Rank[k] /\ k # a
    BY <1>0, <1>2, <2>1, AwaitedRank
  <2> QED BY <2>1, <2>2
<1>4. ASSUME NEW n \in Names, owner[n] = t
      PROVE  k # None /\ Rank[a] < Rank[n] /\ Rank[k] <= Rank[n]
  <2>1. n \in Modules /\ k # None /\ Rank[k] <= Rank[n]
    BY <1>2, <1>4 DEF IInv, TopInv
  <2> QED
    BY <1>2, <1>3, <2>1, AcyclicAssumption DEF AcyclicAssumption
<1>5. ASSUME NEW n \in Names, owner[n] # None, caller[n] # None
      PROVE  caller[n] # a
  BY <1>2, <1>5 DEF IInv, CallerInv
<1>6. ASSUME NEW u \in Threads PROVE cur[u] # a
  BY <1>2 DEF IInv, TopInv
<1>7. LockInv'
  BY <1>0, <1>1 DEF IInv, LockInv, InMap, TypeOK
<1>8. TopInv'
  <2>1. ASSUME NEW u \in Threads, cur'[u] # None
        PROVE  cur'[u] \in Modules /\ owner'[cur'[u]] = u
    <3>1. CASE u = t
      BY <1>0, <1>1, <1>2, <3>1 DEF TypeOK
    <3>2. CASE u # t
      <4>1. cur'[u] = cur[u] /\ cur[u] \in Modules /\ cur[u] # a
        BY <1>0, <1>1, <1>6, <2>1, <3>2 DEF IInv, TopInv, TypeOK
      <4>2. owner'[cur[u]] = owner[cur[u]] /\ owner[cur[u]] = u
        BY <1>0, <1>1, <2>1, <4>1 DEF IInv, TopInv, TypeOK
      <4> QED BY <4>1, <4>2
    <3> QED BY <3>1, <3>2
  <2>2. ASSUME NEW n \in Names, owner'[n] # None
        PROVE  /\ n \in Modules
               /\ cur'[owner'[n]] # None
               /\ Rank[cur'[owner'[n]]] <= Rank[n]
    <3>1. CASE n = a
      BY <1>0, <1>1, <1>2, <3>1, AcyclicAssumption
      DEF TypeOK, AcyclicAssumption
    <3>2. CASE n # a
      <4>1. owner'[n] = owner[n] /\ owner[n] \in Threads
        BY <1>0, <1>1, <2>2, <3>2 DEF TypeOK
      <4>2. n \in Modules /\ cur[owner[n]] # None /\ Rank[cur[owner[n]]] <= Rank[n]
        BY <2>2, <4>1 DEF IInv, TopInv
      <4>3. CASE owner[n] = t
        <5>1. cur'[t] = a /\ Rank[a] < Rank[n]
          BY <1>0, <1>1, <1>4, <4>3 DEF TypeOK
        <5> QED
          BY <1>2, <4>1, <4>2, <4>3, <5>1, AcyclicAssumption
          DEF AcyclicAssumption
      <4>4. CASE owner[n] # t
        BY <1>0, <1>1, <4>1, <4>2, <4>4 DEF TypeOK
      <4> QED BY <4>3, <4>4
    <3> QED BY <3>1, <3>2
  <2> QED BY <2>1, <2>2 DEF TopInv
<1>9. CallerInv'
  <2> SUFFICES ASSUME NEW n \in Names, owner'[n] # None, caller'[n] # None
               PROVE  /\ caller'[n] \in Modules
                      /\ owner'[caller'[n]] = owner'[n]
                      /\ dep'[caller'[n]] < Len(Deps[caller'[n]])
                      /\ n = Canon[Deps[caller'[n]][dep'[caller'[n]] + 1]]
    BY DEF CallerInv, Awaiting
  <2>1. CASE n = a
    <3>1. caller'[n] = k /\ owner'[n] = t /\ k # None
      BY <1>0, <1>1, <1>2, <2>1 DEF TypeOK
    <3>2. owner'[k] = t /\ dep'[k] = dep[k] /\ Awaiting(k, a) /\ k \in Modules
      BY <1>0, <1>1, <1>3, <3>1 DEF TypeOK
    <3> QED BY <2>1, <3>1, <3>2 DEF Awaiting
  <2>2. CASE n # a
    <3> DEFINE c == caller[n]
    <3>1. caller'[n] = c /\ owner'[n] = owner[n] /\ owner[n] # None /\ c # None
      BY <1>0, <1>1, <2>2 DEF TypeOK
    <3>2. c \in Modules /\ c # a /\ owner[c] = owner[n] /\ Awaiting(c, n)
      BY <1>5, <3>1 DEF IInv, CallerInv
    <3>3. owner'[c] = owner[c] /\ dep'[c] = dep[c]
      BY <1>0, <1>1, <3>2 DEF TypeOK
    <3> HIDE DEF c
    <3> QED BY <3>1, <3>2, <3>3 DEF Awaiting
  <2> QED BY <2>1, <2>2
<1>10. ChainInv'
  <2> SUFFICES ASSUME NEW n \in Names, NEW m \in Names,
                      owner'[n] # None, owner'[m] = owner'[n], n # m
               PROVE  /\ Rank[n] # Rank[m]
                      /\ Rank[n] < Rank[m] =>
                           caller'[n] # None /\ Rank[caller'[n]] <= Rank[m]
    BY DEF ChainInv
  <2>0. Rank[a] \in Nat
    BY <1>2, AcyclicAssumption DEF AcyclicAssumption
  <2>1. CASE n = a
    <3>1. owner[m] = t /\ caller'[n] = k
      BY <1>0, <1>1, <1>2, <2>1 DEF TypeOK
    <3>2. m \in Modules
      BY <1>2, <3>1 DEF IInv, TopInv
    <3> QED
      BY <1>4, <2>0, <2>1, <3>1, <3>2, AcyclicAssumption DEF AcyclicAssumption
  <2>2. CASE m = a
    <3>1. owner[n] = t
      BY <1>0, <1>1, <1>2, <2>2 DEF TypeOK
    <3>2. n \in Modules
      BY <1>2, <3>1 DEF IInv, TopInv
    <3> QED
      BY <1>4, <2>0, <2>2, <3>1, <3>2, AcyclicAssumption DEF AcyclicAssumption
  <2>3. CASE n # a /\ m # a
    <3>1. owner'[n] = owner[n] /\ owner'[m] = owner[m] /\ caller'[n] = caller[n]
      BY <1>0, <1>1, <2>3 DEF TypeOK
    <3> QED BY <3>1 DEF IInv, ChainInv
  <2> QED BY <2>1, <2>2, <2>3
<1>11. ArgInv'
  <2> SUFFICES ASSUME NEW u \in Threads, arg'[u] # None
               PROVE  /\ arg'[u] \in Modules
                      /\ cur'[u] # None =>
                           /\ dep'[cur'[u]] < Len(Deps[cur'[u]])
                           /\ arg'[u] = Canon[Deps[cur'[u]][dep'[cur'[u]] + 1]]
    BY DEF ArgInv, Awaiting
  <2>1. u # t /\ arg'[u] = arg[u] /\ cur'[u] = cur[u]
    BY <1>0, <1>1 DEF TypeOK
  <2>2. arg[u] \in Modules /\ (cur[u] # None => Awaiting(cur[u], arg[u]))
    BY <2>1 DEF IInv, ArgInv
  <2>3. cur[u] # None => cur[u] \in Names /\ dep'[cur[u]] = dep[cur[u]]
    BY <1>0, <1>1, <1>6 DEF TypeOK
  <2> QED BY <2>1, <2>2, <2>3 DEF Awaiting
<1>12. MapInv'
  <2>1. \A n \in Names : moduleMap'[n] = "null" <=> owner'[n] # None
    BY <1>0, <1>1, <1>2 DEF IInv, MapInv, TypeOK
  <2>2. ASSUME NEW u \in Threads
        PROVE  /\ pc'[u] = "insert" => moduleMap'[arg'[u]] = "absent"
               /\ pc'[u] \in {"check", "yield"} => moduleMap'[arg'[u]] # "absent"
    <3>1. CASE u = t
      BY <1>0, <1>1, <3>1 DEF TypeOK
    <3>2. CASE u # t
      <4>1. pc'[u] = pc[u] /\ arg'[u] = arg[u]
        BY <1>0, <1>1, <3>2 DEF TypeOK
      <4>2. pc[u] # "insert"
        BY <1>1, <3>2 DEF IInv, LockInv, InMap
      <4>3. pc[u] \in {"check", "yield"} => moduleMap[arg[u]] # "absent"
        BY DEF IInv, MapInv
      <4> QED BY <1>0, <1>1, <4>1, <4>2, <4>3 DEF TypeOK
    <3> QED BY <3>1, <3>2
  <2> QED BY <2>1, <2>2 DEF MapInv
<1>13. DepInv'
  <2>1. ASSUME NEW n \in Modules, moduleMap'[n] = "ready"
        PROVE  n \in symStore
    BY <1>0, <1>1, <1>2, <2>1 DEF IInv, DepInv, TypeOK
  <2>2. ASSUME NEW n \in Modules, owner'[n] # None
        PROVE  /\ dep'[n] <= Len(Deps[n])
               /\ \A i \in 1..dep'[n] : moduleMap'[Canon[Deps[n][i]]] = "ready"
    <3>1. CASE n = a
      <4>1. dep'[n] = 0 /\ Len(Deps[n]) \in Nat
        BY <1>0, <1>1, <1>2, <3>1 DEF TypeOK
      <4> QED BY <4>1
    <3>2. CASE n # a
      <4>1. dep'[n] = dep[n] /\ owner[n] # None
        BY <1>0, <1>1, <2>2, <3>2 DEF TypeOK
      <4>2. /\ dep[n] <= Len(Deps[n])
            /\ \A i \in 1..dep[n] : moduleMap[Canon[Deps[n][i]]] = "ready"
        BY <4>1 DEF IInv, DepInv
      <4>3. \A x : moduleMap[x] = "ready" /\ x \in Names => moduleMap'[x] = "ready"
        BY <1>0, <1>1, <1>2 DEF TypeOK
      <4>4. dep[n] \in Nat /\ Len(Deps[n]) \in Nat /\ Deps[n] \in Seq(Names)
        BY <1>0 DEF TypeOK
      <4>5. \A i \in 1..dep[n] : Canon[Deps[n][i]] \in Names
        BY <4>2, <4>4
      <4> QED BY <4>1, <4>2, <4>3, <4>5
    <3> QED BY <3>1, <3>2
  <2> QED BY <1>1, <2>1, <2>2 DEF DepInv
<1>14. ParseInv'
  <2>1. ASSUME NEW u \in Threads, pc'[u] \in {"relocated", "parsed", "publish"}
        PROVE  /\ pc'[u] = pc[u] /\ cur'[u] = cur[u]
               /\ cur[u] \in Names /\ dep'[cur[u]] = dep[cur[u]]
    BY <1>0, <1>1, <1>6, <2>1 DEF TypeOK, Parsing
  <2>2. resolved' = resolved /\ symStore' = symStore
    BY <1>1
  <2>3. \A u \in Threads :
           /\ pc[u] \in {"relocated", "parsed", "publish"} =>
                /\ dep[cur[u]] = Len(Deps[cur[u]])
                /\ \A i \in DOMAIN Deps[cur[u]] :
                      Canon[Deps[cur[u]][i]] \in resolved[cur[u]]
           /\ pc[u] \in {"parsed", "publish"} => cur[u] \in symStore
    BY DEF IInv, ParseInv
  <2> HIDE DEF k
  <2> SUFFICES ASSUME NEW u \in Threads, pc'[u] \in {"relocated", "parsed", "publish"}
               PROVE  /\ dep'[cur'[u]] = Len(Deps[cur'[u]])
                      /\ \A i \in DOMAIN Deps[cur'[u]] :
                           Canon[Deps[cur'[u]][i]] \in resolved'[cur'[u]]
                      /\ pc'[u] \in {"parsed", "publish"} => cur'[u] \in symStore'
    BY DEF ParseInv
  <2>4. pc'[u] = pc[u] /\ cur'[u] = cur[u] /\ dep'[cur[u]] = dep[cur[u]]
    BY <2>1
  <2>5. /\ dep[cur[u]] = Len(Deps[cur[u]])
        /\ \A i \in DOMAIN Deps[cur[u]] : Canon[Deps[cur[u]][i]] \in resolved[cur[u]]
        /\ pc[u] \in {"parsed", "publish"} => cur[u] \in symStore
    BY <2>3, <2>4
  <2> QED BY <2>2, <2>4, <2>5
<1>15. LoaderInv'
  BY <1>0, <1>1, <1>2 DEF IInv, LoaderInv, TypeOK
<1>16. ListInv'
  BY <1>0, <1>1, <1>2 DEF IInv, ListInv, TypeOK
<1> QED
  BY <1>7, <1>8, <1>9, <1>10, <1>11, <1>12, <1>13, <1>14, <1>15, <1>16 DEF IInv

LEMMA StepPublishModule ==
  ASSUME IInv, TypeOK', NEW t \in Threads, PublishModule(t)
  PROVE  IInv'
<1> DEFINE k == cur[t]
<1> DEFINE c == caller[k]
<1> USE DEF Goto, stack, parser, mapVars
<1>0. TypeOK BY DEF IInv
<1>1. /\ pc[t] = "publish"
      /\ pc' = [pc EXCEPT ![t] = IF c = None THEN "pop" ELSE "deps"]
      /\ arg' = [arg EXCEPT ![t] = None]
      /\ moduleMap' = [moduleMap EXCEPT ![k] = "ready"]
      /\ cur' = [cur EXCEPT ![t] = c]
      /\ owner' = [owner EXCEPT ![k] = None]
      /\ dep' = [n \in Names |-> IF n = c THEN dep[n] + 1 ELSE dep[n]]
      /\ mapMutex' = None
      /\ UNCHANGED <<instances, modList, caller, parser, mainPc>>
  BY DEF PublishModule, ReturnTo
<1>2. /\ k \in Modules /\ k \in Names /\ owner[k] = t /\ t # None
      /\ c \in Names \cup {None} /\ arg[t] = None
  BY <1>0, <1>1 DEF IInv, TopInv, TypeOK, Parsing, LookingUp
<1>3. ASSUME c # None
      PROVE  c \in Modules /\ c \in Names /\ owner[c] = t /\ Awaiting(c, k) /\ c # k
  <2>1. c \in Modules /\ owner[c] = t /\ Awaiting(c, k)
    BY <1>2, <1>3 DEF IInv, CallerInv
  <2>2. c # k
    BY <1>0, <2>1, AwaitedRank
  <2> QED BY <2>1, <2>2
<1>4. ASSUME NEW n \in Names, owner[n] = t, n # k
      PROVE  n \in Modules /\ c # None /\ Rank[c] <= Rank[n]
  <2>1. n \in Modules /\ Rank[k] <= Rank[n]
    BY <1>2, <1>4 DEF IInv, TopInv
  <2>2. Rank[k] \in Nat /\ Rank[n] \in Nat
    BY <1>2, <2>1, AcyclicAssumption DEF AcyclicAssumption
  <2>3. Rank[k] < Rank[n] => c # None /\ Rank[c] <= Rank[n]
    BY <1>2, <1>4 DEF IInv, ChainInv
  <2>4. Rank[k] # Rank[n]
    BY <1>2, <1>4 DEF IInv, ChainInv
  <2> QED BY <2>1, <2>2, <2>3, <2>4
<1>5. ASSUME NEW n \in Names, n # k, owner[n] # None, caller[n] # None
      PROVE  caller[n] # k /\ caller[n] # c
  <2> DEFINE d == caller[n]
  <2>1. d \in Modules /\ owner[d] = owner[n] /\ Awaiting(d, n)
    BY <1>5 DEF IInv, CallerInv
  <2>2. Rank[n] < Rank[d] /\ Rank[n] \in Nat /\ Rank[d] \in Nat
    BY <1>0, <2>1, AwaitedRank
  <2>3. ASSUME d = k PROVE FALSE
    <3>1. owner[n] = t
      BY <1>2, <2>1, <2>3
    <3>2. Rank[k] <= Rank[n]
      BY <1>2, <3>1 DEF IInv, TopInv
    <3> QED BY <2>2, <2>3, <3>2
  <2>4. ASSUME d = c PROVE FALSE
    <3>1. owner[n] = t
      BY <1>3, <1>5, <2>1, <2>4
    <3>2. Rank[c] <= Rank[n]
      BY <1>4, <1>5, <3>1
    <3> QED BY <2>2, <2>4, <3>2
  <2> QED BY <2>3, <2>4
<1>6. ASSUME NEW u \in Threads, u # t, cur[u] # None
      PROVE  /\ cur[u] \in Modules /\ cur[u] # k /\ cur[u] # c
             /\ dep'[cur[u]] = dep[cur[u]]
  <2>1. cur[u] \in Modules /\ cur[u] \in Names /\ owner[cur[u]] = u
    BY <1>6 DEF IInv, TopInv
  <2>2. cur[u] # k /\ cur[u] # c
    BY <1>2, <1>3, <1>6, <2>1
  <2> QED BY <1>1, <2>1, <2>2
<1> HIDE DEF c
<1>7. LockInv'
  BY <1>0, <1>1 DEF IInv, LockInv, InMap, TypeOK
<1>8. TopInv'
  <2>1. ASSUME NEW u \in Threads, cur'[u] # None
        PROVE  cur'[u] \in Modules /\ owner'[cur'[u]] = u
    <3>1. CASE u = t
      <4>1. cur'[u] = c /\ c # None
        BY <1>0, <1>1, <2>1, <3>1 DEF TypeOK
      <4> QED BY <1>0, <1>1, <1>3, <3>1, <4>1 DEF TypeOK
    <3>2. CASE u # t
      <4>0. cur'[u] = cur[u]
        BY <1>0, <1>1, <3>2 DEF TypeOK
      <4>1. cur'[u] = cur[u] /\ cur[u] \in Modules /\ cur[u] # k
        BY <1>6, <2>1, <3>2, <4>0
      <4>2. owner'[cur[u]] = owner[cur[u]] /\ owner[cur[u]] = u
        BY <1>0, <1>1, <2>1, <4>1 DEF IInv, TopInv, TypeOK
      <4> QED BY <4>1, <4>2
    <3> QED BY <3>1, <3>2
  <2>2. ASSUME NEW n \in Names, owner'[n] # None
        PROVE  /\ n \in Modules
               /\ cur'[owner'[n]] # None
               /\ Rank[cur'[owner'[n]]] <= Rank[n]
    <3>1. n # k /\ owner'[n] = owner[n] /\ owner[n] \in Threads
      BY <1>0, <1>1, <1>2, <2>2 DEF TypeOK
    <3>2. n \in Modules /\ cur[owner[n]] # None /\ Rank[cur[owner[n]]] <= Rank[n]
      BY <2>2, <3>1 DEF IInv, TopInv
    <3>3. CASE owner[n] = t
      BY <1>0, <1>1, <1>4, <3>1, <3>3 DEF TypeOK
    <3>4. CASE owner[n] # t
      BY <1>0, <1>1, <3>1, <3>2, <3>4 DEF TypeOK
    <3> QED BY <3>3, <3>4
  <2> QED BY <2>1, <2>2 DEF TopInv
<1>9. CallerInv'
  <2> SUFFICES ASSUME NEW n \in Names, owner'[n] # None, caller'[n] # None
               PROVE  /\ caller'[n] \in Modules
                      /\ owner'[caller'[n]] = owner'[n]
                      /\ dep'[caller'[n]] < Len(Deps[caller'[n]])
                      /\ n = Canon[Deps[caller'[n]][dep'[caller'[n]] + 1]]
    BY DEF CallerInv, Awaiting
  <2>1. n # k /\ owner'[n] = owner[n] /\ caller'[n] = caller[n]
    BY <1>0, <1>1, <1>2 DEF TypeOK
  <2>2. caller[n] # k /\ caller[n] # c
    BY <1>1, <1>5, <2>1
  <2>3. caller[n] \in Modules /\ owner[caller[n]] = owner[n] /\ Awaiting(caller[n], n)
    BY <2>1 DEF IInv, CallerInv
  <2>4. owner'[caller[n]] = owner[caller[n]] /\ dep'[caller[n]] = dep[caller[n]]
    BY <1>0, <1>1, <2>2, <2>3 DEF TypeOK
  <2> QED BY <2>1, <2>3, <2>4 DEF Awaiting
<1>10. ChainInv'
  BY <1>0, <1>1, <1>2 DEF IInv, ChainInv, TypeOK
<1>11. ArgInv'
  <2> SUFFICES ASSUME NEW u \in Threads, arg'[u] # None
               PROVE  /\ arg'[u] \in Modules
                      /\ cur'[u] # None =>
                           /\ dep'[cur'[u]] < Len(Deps[cur'[u]])
                           /\ arg'[u] = Canon[Deps[cur'[u]][dep'[cur'[u]] + 1]]
    BY DEF ArgInv, Awaiting
  <2>1. u # t /\ arg'[u] = arg[u] /\ cur'[u] = cur[u]
    BY <1>0, <1>1 DEF TypeOK
  <2>2. arg[u] \in Modules /\ (cur[u] # None => Awaiting(cur[u], arg[u]))
    BY <2>1 DEF IInv, ArgInv
  <2> QED BY <1>6, <2>1, <2>2 DEF Awaiting
<1>12. MapInv'
  BY <1>0, <1>1, <1>2 DEF IInv, MapInv, TypeOK, LookingUp
<1>13. DepInv'
  <2>1. ASSUME NEW n \in Modules, moduleMap'[n] = "ready"
        PROVE  n \in symStore
    <3>1. k \in symStore
      BY <1>1 DEF IInv, ParseInv
    <3> QED BY <1>0, <1>1, <2>1, <3>1 DEF IInv, DepInv, TypeOK
  <2>2. ASSUME NEW n \in Modules, owner'[n] # None
        PROVE  /\ dep'[n] <= Len(Deps[n])
               /\ \A i \in 1..dep'[n] : moduleMap'[Canon[Deps[n][i]]] = "ready"
    <3>1. /\ owner[n] # None /\ n \in Names
          /\ dep[n] \in Nat /\ Len(Deps[n]) \in Nat /\ Deps[n] \in Seq(Names)
      BY <1>0, <1>1, <1>2, <2>2 DEF TypeOK
    <3>2. /\ dep[n] <= Len(Deps[n])
          /\ \A i \in 1..dep[n] : moduleMap[Canon[Deps[n][i]]] = "ready"
      BY <3>1 DEF IInv, DepInv
    <3>3. \A x \in Names : moduleMap[x] = "ready" => moduleMap'[x] = "ready"
      BY <1>0, <1>1, <1>2 DEF TypeOK
    <3>4. \A i \in 1..dep[n] : Canon[Deps[n][i]] \in Names
      BY <3>1, <3>2
    <3>5. \A i \in 1..dep[n] : moduleMap'[Canon[Deps[n][i]]] = "ready"
      BY <3>2, <3>3, <3>4
    <3>6. CASE n # c
      <4>1. dep'[n] = dep[n]
        BY <1>1, <3>1, <3>6
      <4> QED BY <3>2, <3>5, <4>1
    <3>7. CASE n = c
      <4>1. n # None
        BY <3>1
      <4>2. dep'[n] = dep[n] + 1 /\ Awaiting(n, k)
        BY <1>1, <1>3, <3>1, <3>7, <4>1
      <4>3. moduleMap'[Canon[Deps[n][dep[n] + 1]]] = "ready"
        BY <1>0, <1>1, <1>2, <4>2 DEF Awaiting, TypeOK
      <4>4. dep[n] < Len(Deps[n])
        BY <4>2 DEF Awaiting
      <4> QED BY <3>1, <3>5, <4>2, <4>3, <4>4
    <3> QED BY <3>6, <3>7
  <2> QED BY <1>1, <2>1, <2>2 DEF DepInv
<1>14. ParseInv'
  <2>1. ASSUME NEW u \in Threads, pc'[u] \in {"relocated", "parsed", "publish"}
        PROVE  /\ pc'[u] = pc[u] /\ cur'[u] = cur[u]
               /\ dep'[cur[u]] = dep[cur[u]]
    <3>1. u # t /\ pc'[u] = pc[u] /\ cur'[u] = cur[u]
      BY <1>0, <1>1, <2>1 DEF TypeOK
    <3>2. pc[u] \in Parsing
      BY <2>1, <3>1 DEF Parsing
    <3>3. cur[u] # None
      BY <1>0, <3>2 DEF TypeOK
    <3> QED BY <1>6, <3>1, <3>3
  <2>2. resolved' = resolved /\ symStore' = symStore
    BY <1>1
  <2>3. \A u \in Threads :
           /\ pc[u] \in {"relocated", "parsed", "publish"} =>
                /\ dep[cur[u]] = Len(Deps[cur[u]])
                /\ \A i \in DOMAIN Deps[cur[u]] :
                      Canon[Deps[cur[u]][i]] \in resolved[cur[u]]
           /\ pc[u] \in {"parsed", "publish"} => cur[u] \in symStore
    BY DEF IInv, ParseInv
  <2> HIDE DEF k
  <2> SUFFICES ASSUME NEW u \in Threads, pc'[u] \in {"relocated", "parsed", "publish"}
               PROVE  /\ dep'[cur'[u]] = Len(Deps[cur'[u]])
                      /\ \A i \in DOMAIN Deps[cur'[u]] :
                           Canon[Deps[cur'[u]][i]] \in resolved'[cur'[u]]
                      /\ pc'[u] \in {"parsed", "publish"} => cur'[u] \in symStore'
    BY DEF ParseInv
  <2>4. pc'[u] = pc[u] /\ cur'[u] = cur[u] /\ dep'[cur[u]] = dep[cur[u]]
    BY <2>1
  <2>5. /\ dep[cur[u]] = Len(Deps[cur[u]])
        /\ \A i \in DOMAIN Deps[cur[u]] : Canon[Deps[cur[u]][i]] \in resolved[cur[u]]
        /\ pc[u] \in {"parsed", "publish"} => cur[u] \in symStore
    BY <2>3, <2>4
  <2> QED BY <2>2, <2>4, <2>5
<1>15. LoaderInv'
  BY <1>0, <1>1, <1>2 DEF IInv, LoaderInv, TypeOK
<1>16. ListInv'
  <2>1. ASSUME NEW m \in instances, NEW u \in Threads, arg[u] = m
        PROVE  arg'[u] = m
    BY <1>0, <1>1, <1>2, <2>1 DEF TypeOK
  <2>2. \A m \in Names : moduleMap[m] # "absent" => moduleMap'[m] # "absent"
    BY <1>0, <1>1, <1>2 DEF TypeOK
  <2> QED
    BY <1>0, <1>1, <2>1, <2>2 DEF IInv, ListInv, TypeOK
<1> QED
  BY <1>7, <1>8, <1>9, <1>10, <1>11, <1>12, <1>13, <1>14, <1>15, <1>16 DEF IInv

-----------------------------------------------------------------------------
(* The other steps of a parse, and those of the main thread.               *)

LEMMA StepLoadModuleFile ==
  ASSUME IInv, TypeOK', NEW t \in Threads, LoadModuleFile(t)
  PROVE  IInv'
<1> DEFINE new == [name |-> cur[t], by |-> t]
<1> USE DEF Goto, stack, parser, mapVars
<1>0. TypeOK BY DEF IInv
<1>1. /\ pc[t] = "file" /\ pc' = [pc EXCEPT ![t] = "deps"]
      /\ loaders' = loaders \cup {new}
      /\ UNCHANGED <<instances, modList, mapVars, arg, stack, symStore, resolved,
                     mainPc>>
  BY DEF LoadModuleFile
<1>2. /\ cur[t] \in Modules /\ owner[cur[t]] = t /\ t # None
      /\ moduleMap[cur[t]] = "null" /\ new.name = cur[t]
  BY <1>0, <1>1 DEF IInv, TopInv, MapInv, TypeOK, Parsing
<1>3. LockInv'
  BY <1>0, <1>1 DEF IInv, LockInv, InMap, TypeOK
<1>4. TopInv' /\ CallerInv' /\ ChainInv' /\ ArgInv' /\ DepInv'
  BY <1>1 DEF IInv, TopInv, CallerInv, ChainInv, ArgInv, DepInv, Awaiting
<1>5. MapInv' /\ ParseInv'
  BY <1>0, <1>1 DEF IInv, MapInv, ParseInv, TypeOK
<1>6. LoaderInv'
  <2> HIDE DEF new
  <2>1. \A l \in loaders : l.name # cur[t]
    BY <1>1 DEF IInv, LoaderInv
  <2>2. \A l1, l2 \in loaders' : l1.name = l2.name => l1 = l2
    BY <1>1, <1>2, <2>1 DEF IInv, LoaderInv
  <2>3. \A l \in loaders' : l.name \in Modules /\ moduleMap'[l.name] # "absent"
    BY <1>1, <1>2 DEF IInv, LoaderInv
  <2>4. ASSUME NEW u \in Threads, pc'[u] = "file", NEW l \in loaders'
        PROVE  l.name # cur'[u]
    <3>1. u # t /\ pc[u] = "file" /\ cur'[u] = cur[u]
      BY <1>0, <1>1, <2>4 DEF TypeOK
    <3>2. cur[u] # cur[t]
      BY <1>0, <1>2, <3>1, OtherTop DEF IInv
    <3> QED BY <1>1, <1>2, <2>4, <3>1, <3>2 DEF IInv, LoaderInv
  <2> QED BY <2>2, <2>3, <2>4 DEF LoaderInv
<1>7. ListInv'
  BY <1>0, <1>1 DEF IInv, ListInv, TypeOK
<1> QED
  BY <1>3, <1>4, <1>5, <1>6, <1>7 DEF IInv

LEMMA StepCallDependency ==
  ASSUME IInv, TypeOK', NEW t \in Threads, CallDependency(t)
  PROVE  IInv'
<1> DEFINE k == cur[t]
<1> DEFINE a == Canon[Deps[k][dep[k] + 1]]
<1> USE DEF Goto, stack, parser, mapVars
<1>0. TypeOK BY DEF IInv
<1>1. k # None /\ k \in Modules /\ pc[t] = "deps" /\ arg[t] = None
  BY <1>0 DEF IInv, TopInv, TypeOK, Parsing, LookingUp, CallDependency
<1>2. /\ dep[k] < Len(Deps[k])
      /\ pc' = [pc EXCEPT ![t] = "call"]
      /\ arg' = [arg EXCEPT ![t] = a]
      /\ UNCHANGED <<instances, modList, mapVars, stack, parser, mainPc>>
  BY <1>1 DEF CallDependency, DepsOf, FileOf, Normalise
<1>3. Awaiting(k, a)
  BY <1>2 DEF Awaiting
<1>4. a \in Modules
  BY <1>0, <1>1, <1>3, AwaitedRank
<1> HIDE DEF a
<1>5. LockInv'
  BY <1>0, <1>1, <1>2 DEF IInv, LockInv, InMap, TypeOK
<1>6. TopInv' /\ CallerInv' /\ ChainInv' /\ DepInv'
  BY <1>2 DEF IInv, TopInv, CallerInv, ChainInv, DepInv, Awaiting
<1>7. ArgInv'
  <2> SUFFICES ASSUME NEW u \in Threads, arg'[u] # None
               PROVE  /\ arg'[u] \in Modules
                      /\ cur[u] # None =>
                           /\ dep[cur[u]] < Len(Deps[cur[u]])
                           /\ arg'[u] = Canon[Deps[cur[u]][dep[cur[u]] + 1]]
    BY <1>2 DEF ArgInv, Awaiting
  <2>1. CASE u = t
    BY <1>0, <1>2, <1>3, <1>4, <2>1 DEF TypeOK, Awaiting
  <2>2. CASE u # t
    BY <1>0, <1>2, <2>2 DEF IInv, ArgInv, TypeOK, Awaiting
  <2> QED BY <2>1, <2>2
<1>8. MapInv' /\ ParseInv' /\ LoaderInv'
  BY <1>0, <1>1, <1>2 DEF IInv, MapInv, ParseInv, LoaderInv, TypeOK
<1>9. ListInv'
  <2>1. \A u \in Threads : pc'[u] = "done" => pc[u] = "done" /\ u # t
    BY <1>0, <1>1, <1>2 DEF TypeOK
  <2>2. mainPc' = "spawn"
    BY <1>0, <1>1, <1>2 DEF IInv, ListInv, TypeOK
  <2>3. ASSUME NEW m \in instances, NEW u \in Threads, arg[u] = m
        PROVE  arg'[u] = m
    BY <1>0, <1>1, <1>2, <2>3 DEF TypeOK
  <2> QED
    BY <1>2, <2>1, <2>2, <2>3 DEF IInv, ListInv
<1> QED
  BY <1>5, <1>6, <1>7, <1>8, <1>9 DEF IInv

LEMMA StepApplyRelocations ==
  ASSUME IInv, TypeOK', NEW t \in Threads, ApplyRelocations(t)
  PROVE  IInv'
<1> DEFINE k == cur[t]
<1> USE DEF Goto, stack, parser, mapVars
<1>0. TypeOK BY DEF IInv
<1>1. k # None /\ k \in Modules /\ owner[k] = t /\ t # None /\ pc[t] = "deps"
  BY <1>0 DEF IInv, TopInv, TypeOK, Parsing, ApplyRelocations, DepsLoaded
<1>2. /\ dep[k] = Len(Deps[k])
      /\ pc' = [pc EXCEPT ![t] = "relocated"]
      /\ resolved' = [resolved EXCEPT ![k] = symStore]
      /\ UNCHANGED <<instances, modList, mapVars, arg, stack, loaders, symStore,
                     mainPc>>
  BY <1>1 DEF ApplyRelocations, DepsLoaded, DepsOf, FileOf
<1>3. LockInv'
  BY <1>0, <1>1, <1>2 DEF IInv, LockInv, InMap, TypeOK
<1>4. /\ TopInv' /\ CallerInv' /\ ChainInv' /\ ArgInv'
      /\ DepInv'
  <2>1. UNCHANGED <<moduleMap, arg, cur, owner, caller, dep, symStore>>
    BY <1>2
  <2>2. TopInv' /\ CallerInv' /\ ChainInv' /\ ArgInv'
    BY <2>1 DEF IInv, TopInv, CallerInv, ChainInv, ArgInv, Awaiting
  <2>3. DepInv'
    BY <2>1 DEF IInv, DepInv
  <2> QED BY <2>2, <2>3
<1>5. MapInv' /\ LoaderInv'
  BY <1>0, <1>1, <1>2 DEF IInv, MapInv, LoaderInv, TypeOK
<1>6. ParseInv'
  <2>1. \A i \in DOMAIN Deps[k] : Canon[Deps[k][i]] \in symStore
    <3>1. Deps[k] \in Seq(Names) /\ DOMAIN Deps[k] = 1..dep[k]
      BY <1>1, <1>2
    <3>2. \A i \in 1..dep[k] : moduleMap[Canon[Deps[k][i]]] = "ready"
      BY <1>1 DEF IInv, DepInv
    <3>3. \A i \in 1..dep[k] : Canon[Deps[k][i]] \in Modules
      <4>1. \A i \in DOMAIN Deps[k] : Deps[k][i] \in Names
        BY <3>1, DependencyNames
      <4> QED BY <3>1, <4>1
    <3> QED BY <3>1, <3>2, <3>3 DEF IInv, DepInv
  <2>2. ASSUME NEW u \in Threads, pc'[u] \in {"relocated", "parsed", "publish"}
        PROVE  /\ dep[cur[u]] = Len(Deps[cur[u]])
               /\ \A i \in DOMAIN Deps[cur[u]] :
                     Canon[Deps[cur[u]][i]] \in resolved'[cur[u]]
    <3>1. CASE u = t
      BY <1>0, <1>1, <1>2, <2>1, <3>1 DEF TypeOK
    <3>2. CASE u # t
      <4>1. pc[u] = pc'[u]
        BY <1>0, <1>2, <3>2 DEF TypeOK
      <4>2. cur[u] # k
        BY <1>0, <1>1, <3>2, OtherTop DEF IInv
      <4>3. cur[u] \in Names
        BY <1>0, <2>2, <4>1 DEF TypeOK, Parsing
      <4>4. resolved'[cur[u]] = resolved[cur[u]]
        BY <1>0, <1>2, <4>2, <4>3 DEF TypeOK
      <4> QED BY <2>2, <4>1, <4>4 DEF IInv, ParseInv
    <3> QED BY <3>1, <3>2
  <2>3. ASSUME NEW u \in Threads, pc'[u] \in {"parsed", "publish"}
        PROVE  cur[u] \in symStore
    <3>1. pc[u] = pc'[u]
      BY <1>0, <1>2, <2>3 DEF TypeOK
    <3> QED BY <2>3, <3>1 DEF IInv, ParseInv
  <2> QED BY <1>2, <2>2, <2>3 DEF ParseInv
<1>7. ListInv'
  BY <1>0, <1>1, <1>2 DEF IInv, ListInv, TypeOK
<1> QED
  BY <1>3, <1>4, <1>5, <1>6, <1>7 DEF IInv

LEMMA StepAddSymbols ==
  ASSUME IInv, TypeOK', NEW t \in Threads, AddSymbols(t)
  PROVE  IInv'
<1> USE DEF Goto, stack, parser, mapVars
<1>0. TypeOK BY DEF IInv
<1>1. cur[t] \in Modules /\ pc[t] = "relocated"
  BY <1>0 DEF IInv, TopInv, TypeOK, Parsing, AddSymbols
<1>2. /\ pc' = [pc EXCEPT ![t] = "parsed"]
      /\ symStore' = symStore \cup {cur[t]}
      /\ UNCHANGED <<instances, modList, mapVars, arg, stack, loaders, resolved,
                     mainPc>>
  BY <1>1 DEF AddSymbols, FileOf
<1>3. LockInv'
  BY <1>0, <1>1, <1>2 DEF IInv, LockInv, InMap, TypeOK
<1>4. /\ TopInv' /\ CallerInv' /\ ChainInv' /\ ArgInv'
      /\ DepInv'
  <2>1. /\ UNCHANGED <<moduleMap, arg, cur, owner, caller, dep>>
        /\ symStore \subseteq symStore'
    BY <1>2
  <2>2. TopInv' /\ CallerInv' /\ ChainInv' /\ ArgInv'
    BY <2>1 DEF IInv, TopInv, CallerInv, ChainInv, ArgInv, Awaiting
  <2>3. DepInv'
    BY <2>1 DEF IInv, DepInv
  <2> QED BY <2>2, <2>3
<1>5. MapInv' /\ LoaderInv'
  BY <1>0, <1>1, <1>2 DEF IInv, MapInv, LoaderInv, TypeOK
<1>6. ParseInv'
  BY <1>0, <1>1, <1>2 DEF IInv, ParseInv, TypeOK
<1>7. ListInv'
  BY <1>0, <1>1, <1>2 DEF IInv, ListInv, TypeOK
<1> QED
  BY <1>3, <1>4, <1>5, <1>6, <1>7 DEF IInv

\* aborting, and doing nothing, touch nothing the invariant is about
LEMMA StepAbort ==
  ASSUME IInv, TypeOK',
         UNCHANGED <<instances, modList, mapMutex, moduleMap, pc, arg, stack,
                     parser, mainPc>>
  PROVE  IInv'
<1> USE DEF stack, parser
<1>1. LockInv' /\ TopInv' /\ CallerInv' /\ ChainInv' /\ ArgInv' /\ MapInv'
  BY DEF IInv, LockInv, TopInv, CallerInv, ChainInv, ArgInv, MapInv, Awaiting
<1>2. DepInv' /\ ParseInv' /\ LoaderInv' /\ ListInv'
  BY DEF IInv, DepInv, ParseInv, LoaderInv, ListInv
<1> QED BY <1>1, <1>2 DEF IInv

LEMMA StepMain ==
  ASSUME IInv, TypeOK', MainStep
  PROVE  IInv'
<1> USE DEF Goto, stack, parser, mapVars
<1>0. TypeOK BY DEF IInv
<1>1. ASSUME NEW t \in Threads, SpawnThread(t) PROVE IInv'
  <2>1. /\ pc[t] = "new" /\ pc' = [pc EXCEPT ![t] = "pop"] /\ mainPc = "spawn"
        /\ UNCHANGED <<instances, modList, mapVars, arg, stack, parser, mainPc>>
    BY <1>1 DEF SpawnThread
  <2>2. LockInv'
    BY <1>0, <2>1 DEF IInv, LockInv, InMap, TypeOK
  <2>3. TopInv' /\ CallerInv' /\ ChainInv' /\ ArgInv' /\ DepInv'
    BY <2>1 DEF IInv, TopInv, CallerInv, ChainInv, ArgInv, DepInv, Awaiting
  <2>4. MapInv' /\ LoaderInv' /\ ParseInv'
    BY <1>0, <2>1 DEF IInv, MapInv, LoaderInv, ParseInv, TypeOK
  <2>5. ListInv'
    BY <1>0, <2>1 DEF IInv, ListInv, TypeOK
  <2> QED BY <2>2, <2>3, <2>4, <2>5 DEF IInv
<1>2. ASSUME JoinThreads \/ CheckModules PROVE IInv'
  <2>1. UNCHANGED <<instances, modList, mapVars, pc, arg, stack, parser>>
    BY <1>2 DEF JoinThreads, CheckModules
  <2>2. LockInv' /\ TopInv' /\ CallerInv' /\ ChainInv' /\ ArgInv' /\ MapInv'
    BY <2>1 DEF IInv, LockInv, TopInv, CallerInv, ChainInv, ArgInv, MapInv, Awaiting
  <2>3. DepInv' /\ ParseInv' /\ LoaderInv'
    BY <2>1 DEF IInv, DepInv, ParseInv, LoaderInv
  <2>4. \A t \in Threads : pc[t] = "done"
    BY <1>2 DEF IInv, ListInv, JoinThreads, CheckModules
  <2>5. ListInv'
    BY <2>1, <2>4 DEF IInv, ListInv
  <2> QED BY <2>2, <2>3, <2>5 DEF IInv
<1> QED
  BY <1>1, <1>2 DEF MainStep

LEMMA InvInit == Init => IInv
<1> SUFFICES ASSUME Init PROVE IInv
  OBVIOUS
<1>1. TypeOK
  BY TypeInit
<1>2. LockInv /\ TopInv /\ CallerInv /\ ChainInv /\ ArgInv
  BY DEF Init, LockInv, TopInv, CallerInv, ChainInv, ArgInv, InMap
<1>3. MapInv /\ DepInv /\ ParseInv /\ LoaderInv /\ ListInv
  BY DEF Init, MapInv, DepInv, ParseInv, LoaderInv, ListInv
<1> QED BY <1>1, <1>2, <1>3 DEF IInv

LEMMA InvNext == IInv /\ [Next]_vars => IInv'
<1> SUFFICES ASSUME IInv, [Next]_vars
             PROVE  IInv'
  OBVIOUS
<1>0. TypeOK'
  BY TypeNext DEF IInv
<1>1. ASSUME NEW t \in Threads, ThreadStep(t) PROVE IInv'
  <2>1. CASE LockModList(t) \/ ThreadReturn(t) \/ LockMap(t)
    BY <1>0, <2>1, StepLocks
  <2>2. CASE PopModule(t)
    BY <1>0, <2>2, StepPopModule
  <2>3. CASE Find(t) \/ AwaitModule(t)
    BY <1>0, <2>3, StepFindAwait
  <2>4. CASE FoundModule(t)
    BY <1>0, <2>4, StepFoundModule
  <2>5. CASE InsertPlaceholder(t)
    BY <1>0, <2>5, StepInsertPlaceholder
  <2>6. CASE LoadModuleFile(t)
    BY <1>0, <2>6, StepLoadModuleFile
  <2>7. CASE ModuleFileUnusable(t) \/ UnlistedModule(t)
    <3>1. UNCHANGED <<instances, modList, mapMutex, moduleMap, pc, arg, stack,
                      parser, mainPc>>
      BY <2>7 DEF ModuleFileUnusable, UnlistedModule, Abort, mapVars
    <3> QED BY <1>0, <3>1, StepAbort
  <2>8. CASE CallDependency(t)
    BY <1>0, <2>8, StepCallDependency
  <2>9. CASE ApplyRelocations(t)
    BY <1>0, <2>9, StepApplyRelocations
  <2>10. CASE AddSymbols(t)
    BY <1>0, <2>10, StepAddSymbols
  <2>11. CASE PublishModule(t)
    BY <1>0, <2>11, StepPublishModule
  <2> QED
    BY <1>1, <2>1, <2>2, <2>3, <2>4, <2>5, <2>6, <2>7, <2>8, <2>9, <2>10, <2>11
    DEF ThreadStep
<1>2. CASE MainStep
  BY <1>0, <1>2, StepMain
<1>3. CASE UNCHANGED vars
  <2>1. UNCHANGED <<instances, modList, mapMutex, moduleMap, pc, arg, stack,
                    parser, mainPc>>
    BY <1>3 DEF vars, mapVars
  <2> QED BY <1>0, <2>1, StepAbort
<1> QED
  BY <1>1, <1>2, <1>3 DEF Next

LEMMA InvHolds == Spec => []IInv
<1> QED BY InvInit, InvNext, PTL DEF Spec

-----------------------------------------------------------------------------
(* The safety properties.                                                  *)

(***************************************************************************)
(* No module of the guest ever gets two loaders, for any number of threads *)
(* calling loadModule and whatever spelling they use: the lookup and the   *)
(* placeholder's insertion are one critical section of moduleMapMutex.     *)
(***************************************************************************)
THEOREM LoadedOnce == Spec => []OneLoaderPerModule
<1>1. IInv => OneLoaderPerModule
  <2> SUFFICES ASSUME IInv, NEW l1 \in loaders, NEW l2 \in loaders,
                      FileOf(l1.name) = FileOf(l2.name)
               PROVE  l1 = l2
    BY DEF OneLoaderPerModule
  <2>1. l1.name \in Modules /\ l2.name \in Modules
    BY DEF IInv, LoaderInv
  <2>2. l1.name = l2.name
    BY <2>1 DEF FileOf
  <2> QED BY <2>2 DEF IInv, LoaderInv
<1> QED BY <1>1, InvHolds, PTL

(***************************************************************************)
(* Every module that initText has relocated found the symbols of all its   *)
(* dependencies in kernel->symbols, whichever threads loaded them.         *)
(***************************************************************************)
THEOREM RelocatedAgainstDependencies == Spec => []DependencySymbolsResolved
<1>1. IInv => DependencySymbolsResolved
  <2> SUFFICES ASSUME IInv, NEW t \in Threads,
                      pc[t] \in {"relocated", "parsed", "publish"},
                      NEW i \in DOMAIN DepsOf(cur[t])
               PROVE  FileOf(DepsOf(cur[t])[i]) \in resolved[cur[t]]
    BY DEF DependencySymbolsResolved
  <2>1. cur[t] \in Modules
    BY DEF IInv, TopInv, TypeOK, Parsing
  <2> QED BY <2>1 DEF IInv, ParseInv, DepsOf, FileOf
<1> QED BY <1>1, InvHolds, PTL

(***************************************************************************)
(* The threads in loadModule's spin loop never wait for each other in a    *)
(* circle: each waits for a thread at work on a module of lower rank.      *)
(***************************************************************************)
THEOREM NoWaitCycle == Spec => []WaitersDescend
<1>1. IInv => WaitersDescend
  <2> SUFFICES ASSUME IInv, NEW t \in Threads, pc[t] \in {"check", "yield"},
                      moduleMap[arg[t]] = "null"
               PROVE  \E u \in Threads \ {t} :
                        /\ owner[arg[t]] = u
                        /\ cur[u] # None
                        /\ Rank[FileOf(cur[u])] <= Rank[FileOf(arg[t])]
                        /\ cur[t] # None =>
                             Rank[FileOf(cur[u])] < Rank[FileOf(cur[t])]
    BY DEF WaitersDescend
  <2> DEFINE a == arg[t]
  <2> DEFINE u == owner[a]
  <2>0. TypeOK BY DEF IInv
  <2>1. a # None /\ a \in Modules /\ (cur[t] # None => Awaiting(cur[t], a))
    BY <2>0 DEF IInv, ArgInv, TypeOK, LookingUp
  <2>2. u \in Threads /\ u # None
    BY <2>0, <2>1 DEF IInv, MapInv, TypeOK
  <2>3. cur[u] # None /\ cur[u] \in Modules /\ Rank[cur[u]] <= Rank[a]
    BY <2>1, <2>2 DEF IInv, TopInv
  <2>4. ASSUME cur[t] # None
        PROVE  cur[t] \in Modules /\ Rank[cur[u]] < Rank[cur[t]]
    <3>1. cur[t] \in Modules
      BY <2>4 DEF IInv, TopInv
    <3>2. Rank[a] < Rank[cur[t]] /\ Rank[a] \in Nat /\ Rank[cur[t]] \in Nat
      BY <2>0, <2>1, <2>4, <3>1, AwaitedRank
    <3>3. Rank[cur[u]] \in Nat
      BY <2>3, AcyclicAssumption DEF AcyclicAssumption
    <3> QED BY <2>3, <3>1, <3>2, <3>3
  <2>5. u # t
    <3> SUFFICES ASSUME u = t PROVE FALSE
      OBVIOUS
    <3>1. Rank[cur[t]] < Rank[cur[t]] /\ cur[t] \in Modules
      BY <2>3, <2>4
    <3> QED BY <3>1, AcyclicAssumption DEF AcyclicAssumption
  <2>6. FileOf(a) = a /\ FileOf(cur[u]) = cur[u]
    BY <2>1, <2>3 DEF FileOf
  <2>7. cur[t] # None => FileOf(cur[t]) = cur[t]
    BY <2>4 DEF FileOf
  <2> HIDE DEF u, a
  <2>8. /\ u \in Threads \ {t} /\ owner[a] = u /\ cur[u] # None
        /\ Rank[FileOf(cur[u])] <= Rank[FileOf(a)]
        /\ cur[t] # None => Rank[FileOf(cur[u])] < Rank[FileOf(cur[t])]
    BY <2>2, <2>3, <2>4, <2>5, <2>6, <2>7 DEF u
  <2> QED BY <2>8 DEF a
<1> QED BY <1>1, InvHolds, PTL

-----------------------------------------------------------------------------
(* The loader implements ModuleLoadingAbs.                                 *)

\* the refinement mapping
Loaded == {m \in Modules : moduleMap[m] = "ready"}
Outcome == IF aborted THEN "aborted"
           ELSE IF mainPc = "done" THEN "returned" ELSE "running"
DepSets == [m \in Modules |-> {Canon[Deps[m][i]] : i \in DOMAIN Deps[m]}]

LEMMA RunningThread ==
  ASSUME IInv, ~aborted, NEW t \in Threads, pc[t] # "done"
  PROVE  Outcome = "running"
BY DEF IInv, ListInv, TypeOK, Outcome

LEMMA RefineAbort ==
  ASSUME IInv, ~aborted, NEW t \in Threads, pc[t] # "done", Abort(t)
  PROVE  Abs!AbortLoading
<1>1. Outcome = "running"
  BY RunningThread
<1>2. Outcome' = "aborted" /\ UNCHANGED <<instances, moduleMap>>
  BY DEF Abort, mapVars, Outcome
<1> QED
  BY <1>1, <1>2 DEF Abs!AbortLoading, Outcome

LEMMA RefinePublish ==
  ASSUME IInv, IInv', ~aborted, NEW t \in Threads, PublishModule(t)
  PROVE  \E m \in Modules : Abs!Load(m)
<1>0. PICK k \in Modules : k = cur[t]
  BY DEF IInv, TopInv, TypeOK, Parsing, PublishModule
<1>1. /\ pc[t] = "publish" /\ moduleMap' = [moduleMap EXCEPT ![k] = "ready"]
      /\ UNCHANGED <<instances, aborted, mainPc>>
  BY <1>0 DEF PublishModule
<1>2. owner[k] = t /\ t # None /\ k \in Names
  BY <1>0, <1>1 DEF IInv, TopInv, TypeOK, Parsing
<1>3. moduleMap[k] = "null" /\ moduleMap \in [Names -> {"absent", "null", "ready"}]
  BY <1>2 DEF IInv, MapInv, TypeOK
<1>4. \A i \in DOMAIN Deps[k] : Canon[Deps[k][i]] \in Loaded
  <2>1. dep[k] = Len(Deps[k])
    BY <1>0, <1>1 DEF IInv, ParseInv
  <2>2. Deps[k] \in Seq(Names)
    BY <1>2
  <2>3. DOMAIN Deps[k] = 1..dep[k]
    BY <2>1, <2>2
  <2>4. \A i \in 1..dep[k] : moduleMap[Canon[Deps[k][i]]] = "ready"
    BY <1>2 DEF IInv, DepInv
  <2>5. \A i \in DOMAIN Deps[k] : Canon[Deps[k][i]] \in Modules
    BY <2>2, DependencyNames
  <2> QED BY <2>3, <2>4, <2>5 DEF Loaded
<1>5. DepSets[k] \subseteq Loaded
  BY <1>2, <1>4 DEF DepSets
<1>6. k \notin Loaded /\ Loaded' = Loaded \cup {k}
  BY <1>1, <1>2, <1>3 DEF Loaded
<1>7. Outcome = "running" /\ Outcome' = Outcome
  BY <1>1, RunningThread DEF Outcome
<1>8. Abs!Load(k)
  <2>1. /\ Outcome = "running" /\ k \notin Loaded /\ DepSets[k] \subseteq Loaded
        /\ Loaded' = Loaded \cup {k}
        /\ UNCHANGED <<instances, Outcome>>
    BY <1>1, <1>5, <1>6, <1>7
  <2> QED BY <2>1 DEF Abs!Load, Loaded, Outcome, DepSets
<1> QED BY <1>8

LEMMA RefineReturn ==
  ASSUME IInv, ~aborted, CheckModules
  PROVE  Abs!Return
<1>1. mainPc = "check" /\ \A t \in Threads : pc[t] = "done"
  BY DEF IInv, ListInv, CheckModules
<1>2. modList = {}
  BY <1>1, ThreadAssumption DEF IInv, ListInv, ThreadAssumption
<1>3. \A n \in Names : moduleMap[n] # "null"
  <2> SUFFICES ASSUME NEW n \in Names, owner[n] # None PROVE FALSE
    BY DEF IInv, MapInv
  <2>1. owner[n] \in Threads /\ cur[owner[n]] # None
    BY DEF IInv, TopInv, TypeOK
  <2> QED
    BY <1>1, <2>1 DEF IInv, TypeOK, Parsing, LookingUp
<1>4. \A t \in Threads : arg[t] = None
  BY <1>1 DEF IInv, TypeOK, LookingUp
<1>5. instances \subseteq Loaded
  <2> SUFFICES ASSUME NEW m \in instances PROVE m \in Loaded
    OBVIOUS
  <2>1. m \in Modules /\ m \in Names /\ m # None
    BY DEF IInv, TypeOK
  <2>2. moduleMap[m] # "absent"
    BY <1>2, <1>4, <2>1 DEF IInv, ListInv
  <2>3. moduleMap[m] = "ready"
    BY <1>3, <2>1, <2>2 DEF IInv, TypeOK
  <2> QED BY <2>1, <2>3 DEF Loaded
<1>6. /\ ~aborted' /\ mainPc' = "done"
      /\ UNCHANGED <<instances, moduleMap>>
  BY <1>3 DEF CheckModules, mapVars
<1> QED
  BY <1>1, <1>5, <1>6 DEF Abs!Return, Loaded

\* the steps that neither publish a loader nor end the call
LEMMA RefineStutter ==
  ASSUME IInv, UNCHANGED <<instances, aborted>>, Loaded' = Loaded,
         mainPc' = mainPc \/ JoinThreads
  PROVE  UNCHANGED Abs!absVars
<1>1. Outcome' = Outcome
  BY DEF Outcome, JoinThreads
<1> QED BY <1>1 DEF Abs!absVars, Outcome, Loaded

LEMMA RefineStep == IInv /\ IInv' /\ [Next]_vars => [Abs!AbsNext]_(Abs!absVars)
<1> SUFFICES ASSUME IInv, IInv', [Next]_vars
             PROVE  Abs!AbsNext \/ UNCHANGED Abs!absVars
  OBVIOUS
<1> USE DEF mapVars
<1>1. ASSUME ~aborted, NEW t \in Threads, ThreadStep(t)
      PROVE  Abs!AbsNext \/ UNCHANGED Abs!absVars
  <2>1. CASE PublishModule(t)
    BY <1>1, <2>1, RefinePublish DEF Abs!AbsNext
  <2>2. CASE ModuleFileUnusable(t) \/ UnlistedModule(t)
    BY <1>1, <2>2, RefineAbort
    DEF ModuleFileUnusable, UnlistedModule, DepsLoaded, Abs!AbsNext
  <2>3. CASE InsertPlaceholder(t)
    <3>1. moduleMap[arg[t]] = "absent"
          /\ moduleMap' = [moduleMap EXCEPT ![arg[t]] = "null"]
          /\ UNCHANGED <<instances, aborted, mainPc>>
      BY <2>3 DEF IInv, MapInv, InsertPlaceholder
    <3>2. Loaded' = Loaded
      BY <3>1 DEF Loaded, IInv, TypeOK
    <3> QED BY <3>1, <3>2, RefineStutter
  <2>4. CASE UNCHANGED <<instances, moduleMap, mainPc, aborted>>
    <3>1. Loaded' = Loaded
      BY <2>4 DEF Loaded
    <3> QED BY <2>4, <3>1, RefineStutter
  <2> QED
    BY <1>1, <2>1, <2>2, <2>3, <2>4
    DEF ThreadStep, LockModList, PopModule, ThreadReturn, LockMap, Find,
        AwaitModule, FoundModule, LoadModuleFile, CallDependency,
        ApplyRelocations, AddSymbols
<1>2. ASSUME ~aborted, MainStep
      PROVE  Abs!AbsNext \/ UNCHANGED Abs!absVars
  <2>1. CASE CheckModules
    BY <1>2, <2>1, RefineReturn DEF Abs!AbsNext
  <2>2. CASE JoinThreads \/ \E t \in Threads : SpawnThread(t)
    <3>1. Loaded' = Loaded /\ UNCHANGED <<instances, aborted>>
      BY <2>2 DEF Loaded, JoinThreads, SpawnThread
    <3>2. mainPc' = mainPc \/ JoinThreads
      BY <2>2 DEF SpawnThread
    <3> QED BY <3>1, <3>2, RefineStutter
  <2> QED BY <1>2, <2>1, <2>2 DEF MainStep
<1>3. CASE UNCHANGED vars
  <2>1. Loaded' = Loaded /\ UNCHANGED <<instances, aborted, mainPc>>
    BY <1>3 DEF Loaded, vars
  <2> QED BY <2>1, RefineStutter
<1> QED
  BY <1>1, <1>2, <1>3 DEF Next

(***************************************************************************)
(* loadAllModules publishes loaders in dependency order, each once and for *)
(* good, and returns only when the whole of the guest's list is loaded: it *)
(* implements ModuleLoadingAbs, whatever the interleaving of the threads.  *)
(***************************************************************************)
THEOREM ImplementsOrderedLoading == Spec => LoadsInOrder
<1>1. Init => Abs!AbsInit
  BY DEF Init, Abs!AbsInit
<1> QED
  BY <1>1, InvHolds, RefineStep, PTL DEF Spec, LoadsInOrder, Abs!AbsSpec

=============================================================================
