-------------------------- MODULE TaskWalk_proofs --------------------------
(***************************************************************************)
(* The walks over the task list, for every number of task_structs and of   *)
(* pids, and every order of the guest's steps and the walk's.              *)
(*                                                                         *)
(* The guest appends, and gives pids in ascending order: from init_task on,*)
(* the list is sorted by pid, and next[s] is the task with the smallest pid*)
(* above s's; a walk comes to the tasks in this order from the one where it*)
(* begins, with those before it at the end.  A task that has been unlinked *)
(* still leads past no task that has stayed: that is what the invariant    *)
(* says of every task that the walk may be on, without saying which tasks  *)
(* it can reach.                                                           *)
(***************************************************************************)
EXTENDS TaskWalk, SequenceTheorems, TLAPS

PidInv ==
  /\ pid[InitTask] = 0 /\ pid[Child] = 1 /\ pid[Kthreadd] = 2
  /\ \A s \in Slots : pid[s] <= lastPid
  /\ \A s, t \in Slots : pid[s] = pid[t] /\ pid[s] # 0 => s = t
  /\ \A s \in listed : pid[s] = 0 => s = InitTask

\* next[s] is the task behind s among those of T, or leads to one before it
LeadsOn(s, T) ==
  /\ next[s] # InitTask => pid[s] < pid[next[s]]
  /\ \A t \in T : pid[s] < pid[t] => next[s] # InitTask /\ pid[next[s]] <= pid[t]

ListInv ==
  \A s \in listed : next[s] \in listed /\ LeadsOn(s, listed)

\* W: the tasks that the walk may be on
Reach(W) ==
  /\ W \subseteq Slots /\ listed \subseteq W /\ it \in W
  /\ \A s \in W : next[s] \in W /\ (pid[s] = 0 => s = InitTask) /\ LeadsOn(s, stayed)
  /\ \A k \in DOMAIN tasks : tasks[k] \in W

Reachable == \E W : Reach(W)

\* when a walk that begins with first comes to s
Place(p, first, s) == IF p[s] < p[first] THEN MaxPid + 1 + p[s] ELSE p[s]

Passed(s) ==
  \/ Place(pid, start, s) < Place(pid, start, it)
  \/ label = "readNext" /\ Place(pid, start, s) = Place(pid, start, it)

\* getTasks and updateStackAddresses: everything that stayed and that the walk
\* has passed is in tasks
Listing ==
  /\ \A j, k \in DOMAIN tasks :
        j < k => Place(pid, start, tasks[j]) < Place(pid, start, tasks[k])
  /\ label = "readTask" =>
        \A k \in DOMAIN tasks : Place(pid, start, tasks[k]) < Place(pid, start, it)
  /\ label = "readNext" =>
        \A k \in DOMAIN tasks : Place(pid, start, tasks[k]) <= Place(pid, start, it)
  /\ \A s \in stayed : Passed(s) => InTasks(s)

\* getTaskForPID: nothing that stayed and that the walk has passed is the wanted
\* task, but for the one it starts from
Searching == \A s \in stayed \ {start} : Passed(s) => pid[s] # wanted

WalkInv ==
  /\ label \in {"init", "idle"} => tasks = <<>> /\ wanted = Null
  /\ label # "init" => initTask = Child
  /\ Walking => it \in Slots /\ start \in {InitTask, Child, Kthreadd}
  /\ Walking /\ wanted # Null => start = Kthreadd
  /\ Walking /\ ~reused =>
       /\ Reachable
       /\ wanted = Null => Listing
       /\ wanted # Null => Searching

Once == ~reused => \A j, k \in DOMAIN tasks : tasks[j] = tasks[k] => j = k

\* what the walk holds when it has ended
Found ==
  label = "done" /\ ~reused =>
    \A s \in stayed :
       IF wanted = Null
       THEN InTasks(s)
       ELSE pid[s] = wanted /\ s # Kthreadd => result = s

Types ==
  /\ listed \subseteq Slots /\ {InitTask, Child, Kthreadd} \subseteq listed
  /\ next \in [Slots -> Slots]
  /\ pid \in [Slots -> 0..MaxPid] /\ lastPid \in 2..MaxPid
  /\ initTask \in {Null, Child}
  /\ label \in {"init", "idle", "readTask", "readNext", "done"}
  /\ start \in {Null, InitTask, Child, Kthreadd}
  /\ it \in Slots \cup {Null}
  /\ wanted \in {Null} \cup 0..MaxPid
  /\ tasks \in Seq(Slots)
  /\ result \in Slots \cup {Null}
  /\ stayed \subseteq listed
  /\ reused \in BOOLEAN

IInv == Types /\ PidInv /\ ListInv /\ WalkInv /\ Once /\ Found

-----------------------------------------------------------------------------
(* The list.                                                               *)

LEMMA SameTask ==
  ASSUME Types, PidInv,
         NEW s \in Slots, NEW t \in Slots, pid[s] = pid[t],
         pid[s] = 0 => s = InitTask, pid[t] = 0 => t = InitTask
  PROVE  s = t
BY DEF PidInv

\* no two tasks of the list lead to the same one
LEMMA OneBefore ==
  Types /\ PidInv /\ ListInv =>
    \A s, t \in listed : next[s] = next[t] => s = t
<1> SUFFICES ASSUME Types, PidInv, ListInv,
                    NEW s \in listed, NEW t \in listed, next[s] = next[t]
             PROVE  s = t
  OBVIOUS
<1>1. s \in Slots /\ t \in Slots /\ next[s] \in Slots
  BY DEF Types
<1>2. pid[s] \in Nat /\ pid[t] \in Nat /\ pid[next[s]] \in Nat
  BY <1>1 DEF Types
<1>3. ~(pid[s] < pid[t])
  BY <1>2 DEF ListInv, LeadsOn
<1>4. ~(pid[t] < pid[s])
  BY <1>2 DEF ListInv, LeadsOn
<1>5. pid[s] = pid[t]
  BY <1>2, <1>3, <1>4
<1> QED
  BY <1>1, <1>5, SameTask DEF PidInv

\* the list begins with pids 0, 1 and 2
LEMMA FirstTasks ==
  ASSUME Types, PidInv, ListInv
  PROVE  next[InitTask] = Child /\ next[Child] = Kthreadd
<1>1. /\ InitTask \in listed /\ Child \in listed /\ Kthreadd \in listed
      /\ InitTask \in Slots /\ Child \in Slots /\ Kthreadd \in Slots
      /\ next[InitTask] \in Slots /\ next[Child] \in Slots
  BY DEF Types
<1>2. /\ pid[InitTask] = 0 /\ pid[Child] = 1 /\ pid[Kthreadd] = 2
      /\ pid[next[InitTask]] \in Nat /\ pid[next[Child]] \in Nat
  BY <1>1 DEF Types, PidInv
<1>3. /\ next[InitTask] # InitTask /\ pid[next[InitTask]] <= pid[Child]
      /\ next[Child] # InitTask /\ pid[next[Child]] <= pid[Kthreadd]
  BY <1>1, <1>2 DEF ListInv, LeadsOn
<1>4. pid[InitTask] < pid[next[InitTask]] /\ pid[Child] < pid[next[Child]]
  BY <1>1, <1>3 DEF ListInv, LeadsOn
<1>5. pid[next[InitTask]] = pid[Child] /\ pid[next[Child]] = pid[Kthreadd]
  BY <1>2, <1>3, <1>4
<1> QED
  BY <1>1, <1>2, <1>5, SameTask

\* a step of the walk that is not the guest's
LEMMA GuestKept ==
  Types /\ PidInv /\ ListInv /\ UNCHANGED guest => PidInv' /\ ListInv'
BY DEF guest, PidInv, ListInv, LeadsOn

LEMMA TypeImplied == IInv => TypeOK
BY OneBefore DEF IInv, Types, TypeOK, ListInv

LEMMA InvInit == Init => IInv
<1> SUFFICES ASSUME Init PROVE IInv
  OBVIOUS
<1> USE WalkAssumption DEF Init
<1>1. Types
  <2>1. next \in [Slots -> Slots] /\ pid \in [Slots -> 0..MaxPid] /\ lastPid \in 2..MaxPid
    OBVIOUS
  <2>2. tasks \in Seq(Slots)
    BY EmptySeq
  <2> QED
    BY <2>1, <2>2 DEF Types
<1>2. PidInv
  BY DEF PidInv
<1>3. ListInv
  <2>1. /\ listed = {InitTask, Child, Kthreadd}
        /\ next[InitTask] = Child /\ next[Child] = Kthreadd /\ next[Kthreadd] = InitTask
        /\ pid[InitTask] = 0 /\ pid[Child] = 1 /\ pid[Kthreadd] = 2
    OBVIOUS
  <2> HIDE DEF Init
  <2> QED
    BY <2>1, WalkAssumption DEF ListInv, LeadsOn
<1>4. WalkInv /\ Once /\ Found
  BY DEF WalkInv, Walking, Once, Found
<1> QED
  BY <1>1, <1>2, <1>3, <1>4 DEF IInv

-----------------------------------------------------------------------------
(* The guest.                                                              *)

LEMMA ForkStep == IInv /\ Fork => IInv'
<1> SUFFICES ASSUME IInv, Fork PROVE IInv'
  OBVIOUS
<1>1. PICK s \in Slots \ listed, last \in listed :
        /\ next[last] = InitTask
        /\ lastPid < MaxPid
        /\ lastPid' = lastPid + 1
        /\ listed' = listed \cup {s}
        /\ next' = [next EXCEPT ![last] = s, ![s] = InitTask]
        /\ pid' = [pid EXCEPT ![s] = lastPid']
        /\ reused' = (reused \/ (Walking /\ pid[s] # 0))
        /\ UNCHANGED <<initTask, label, start, it, wanted, tasks, result, stayed>>
  BY DEF Fork, walk
<1>2. Types /\ PidInv /\ ListInv /\ WalkInv /\ Once /\ Found
  BY DEF IInv
<1>3. /\ last \in Slots /\ s # last /\ s # InitTask /\ s # Child /\ s # Kthreadd
      /\ {InitTask, Child, Kthreadd} \subseteq listed /\ listed \subseteq Slots
  BY <1>2 DEF Types
<1>4. /\ lastPid \in Nat /\ MaxPid \in Nat
      /\ \A x \in Slots : pid[x] \in Nat /\ pid[x] <= lastPid /\ next[x] \in Slots
  BY <1>2, WalkAssumption DEF Types, PidInv
<1>5. /\ pid'[s] = lastPid + 1
      /\ \A x \in Slots : x # s => pid'[x] = pid[x]
  BY <1>1, <1>2 DEF Types
<1>6. /\ next'[s] = InitTask /\ next'[last] = s
      /\ \A x \in Slots : x # s /\ x # last => next'[x] = next[x]
  BY <1>1, <1>2, <1>3 DEF Types
<1>7. Types'
  <2>1. pid' \in [Slots -> 0..MaxPid] /\ lastPid' \in 2..MaxPid
    BY <1>1, <1>2, <1>4 DEF Types
  <2>2. next' \in [Slots -> Slots]
    BY <1>1, <1>2, <1>3 DEF Types
  <2>3. reused' \in BOOLEAN
    BY <1>1, <1>2 DEF Types
  <2>4. listed' \subseteq Slots /\ {InitTask, Child, Kthreadd} \subseteq listed' /\ stayed' \subseteq listed'
    BY <1>1, <1>2 DEF Types
  <2> QED
    BY <1>1, <1>2, <2>1, <2>2, <2>3, <2>4 DEF Types
<1>8. PidInv'
  <2>1. pid'[InitTask] = 0 /\ pid'[Child] = 1 /\ pid'[Kthreadd] = 2
    BY <1>2, <1>3, <1>5 DEF PidInv
  <2>2. \A x \in Slots : pid'[x] <= lastPid'
    BY <1>1, <1>4, <1>5
  <2>3. \A x \in Slots : x # s => pid'[x] # pid'[s]
    BY <1>4, <1>5
  <2>4. \A x, y \in Slots : pid'[x] = pid'[y] /\ pid'[x] # 0 => x = y
    BY <1>2, <1>5, <2>3 DEF PidInv
  <2>5. ASSUME NEW x \in listed', pid'[x] = 0 PROVE x = InitTask
    <3>1. x # s /\ x \in listed
      BY <2>5, <1>1, <1>4, <1>5
    <3>2. pid[x] = 0
      BY <2>5, <3>1, <1>3, <1>5
    <3> QED
      BY <3>1, <3>2, <1>2 DEF PidInv
  <2> QED
    BY <2>1, <2>2, <2>4, <2>5 DEF PidInv
<1>9. ListInv'
  <2>1. ASSUME NEW x \in listed, x # last
        PROVE  next'[x] \in listed' /\ LeadsOn(x, listed)'
    <3>1. x \in Slots /\ x # s /\ next[x] \in listed /\ next[x] # s
      BY <1>2 DEF Types, ListInv
    <3>2. next[x] # InitTask
      BY <1>1, <1>2, <2>1, OneBefore
    <3>3. next'[x] = next[x] /\ pid'[x] = pid[x] /\ pid'[next[x]] = pid[next[x]]
      BY <3>1, <2>1, <1>4, <1>5, <1>6
    <3>4. pid[x] < pid[next[x]] /\ pid[next[x]] <= lastPid /\ pid[next[x]] \in Nat
      BY <3>1, <3>2, <1>2, <1>4 DEF ListInv, LeadsOn
    <3>5. ASSUME NEW t \in listed', pid'[x] < pid'[t] PROVE pid'[next[x]] <= pid'[t]
      <4>1. CASE t = s
        BY <4>1, <3>3, <3>4, <1>4, <1>5
      <4>2. CASE t # s
        BY <4>2, <3>3, <3>5, <1>1, <1>2, <1>5 DEF Types, ListInv, LeadsOn
      <4> QED
        BY <4>1, <4>2
    <3> QED
      BY <3>1, <3>2, <3>3, <3>4, <3>5, <1>1 DEF LeadsOn
  <2>2. next'[last] \in listed' /\ LeadsOn(last, listed)'
    <3>1. next'[last] = s /\ s \in listed' /\ s # InitTask
      BY <1>1, <1>3, <1>6
    <3>2. pid'[last] = pid[last] /\ pid[last] <= lastPid /\ pid[last] \in Nat
      BY <1>3, <1>4, <1>5
    <3>3. \A t \in listed : ~(pid[last] < pid[t])
      BY <1>1, <1>2 DEF ListInv, LeadsOn
    <3>4. ASSUME NEW t \in listed', pid'[last] < pid'[t] PROVE t = s
      BY <3>2, <3>3, <3>4, <1>1, <1>3, <1>5
    <3>5. pid'[last] < pid'[s] /\ pid'[s] <= pid'[s]
      BY <3>2, <1>4, <1>5
    <3> QED
      BY <3>1, <3>4, <3>5 DEF LeadsOn
  <2>3. next'[s] \in listed' /\ LeadsOn(s, listed)'
    <3>0. \A t \in listed' : t = s \/ (t \in Slots /\ t # s)
      BY <1>1, <1>3
    <3>1. \A t \in listed' : pid'[t] <= pid'[s]
      BY <3>0, <1>4, <1>5
    <3>2. \A t \in listed' : pid'[t] \in Nat /\ pid'[s] \in Nat
      BY <3>0, <1>4, <1>5
    <3> QED
      BY <3>1, <3>2, <1>1, <1>3, <1>6 DEF LeadsOn
  <2> QED
    BY <2>1, <2>2, <2>3, <1>1 DEF ListInv
<1>10. Walking' = Walking /\ (~reused' => ~reused /\ (Walking => pid[s] = 0))
  BY <1>1 DEF Walking
<1>11. ASSUME Walking, ~reused' PROVE Reachable' /\ (wanted = Null => Listing')
                                       /\ (wanted # Null => Searching')
  <2>1. PICK W : Reach(W)
    BY <1>2, <1>10, <1>11 DEF WalkInv, Reachable
  <2>2. s \notin W /\ it \in W /\ W \subseteq Slots /\ listed \subseteq W
    BY <2>1, <1>3, <1>10, <1>11 DEF Reach
  <2>3. \A x \in W : pid'[x] = pid[x] /\ pid[x] \in Nat
    BY <2>2, <1>4, <1>5
  <2>4. \A x \in stayed : x \in listed /\ x # s /\ x \in W
    BY <2>2, <1>2 DEF Types
  <2>5. \A k \in DOMAIN tasks : tasks[k] \in W
    BY <2>1 DEF Reach
  <2>6. ASSUME NEW x \in W, x # last
        PROVE  next'[x] \in W /\ (pid'[x] = 0 => x = InitTask) /\ LeadsOn(x, stayed)'
    <3>1. next[x] \in W /\ (pid[x] = 0 => x = InitTask) /\ LeadsOn(x, stayed)
      BY <2>1 DEF Reach
    <3>2. next'[x] = next[x]
      BY <2>2, <2>6, <1>6
    <3> QED
      BY <3>1, <3>2, <2>3, <2>4, <1>1 DEF LeadsOn
  <2>7. (pid'[last] = 0 => last = InitTask) /\ LeadsOn(last, stayed)'
    <3>1. (pid[last] = 0 => last = InitTask) /\ LeadsOn(last, stayed)
      BY <2>1, <2>2 DEF Reach
    <3>2. pid'[last] = pid[last] /\ pid[last] <= lastPid /\ pid[last] \in Nat
      BY <1>3, <1>4, <1>5
    <3> QED
      BY <3>1, <3>2, <2>3, <2>4, <1>1, <1>3, <1>4, <1>5, <1>6 DEF LeadsOn
  <2>8. pid'[s] # 0 /\ LeadsOn(s, stayed)'
    <3>1. \A t \in stayed' : t \in Slots /\ t # s
      BY <2>2, <2>4, <1>1
    <3>2. \A t \in stayed' : ~(pid'[s] < pid'[t])
      BY <3>1, <1>4, <1>5
    <3>3. pid'[s] # 0
      BY <1>4, <1>5
    <3> QED
      BY <3>2, <3>3, <1>6 DEF LeadsOn
  <2>9. Reach(W \cup {s})'
    BY <2>1, <2>2, <2>6, <2>7, <2>8, <1>1, <1>3, <1>6 DEF Reach
  <2> DEFINE at(x) == Place(pid, start, x)
             at2(x) == Place(pid', start, x)
  <2>12. \A x \in W : at2(x) = at(x)
    <3>1. start \in W
      BY <2>2, <1>2, <1>3, <1>11 DEF WalkInv
    <3> QED
      BY <3>1, <2>3 DEF Place
  <2> HIDE DEF at, at2
  <2>10. ASSUME wanted = Null PROVE Listing'
    <3>1. Listing
      BY <2>10, <1>2, <1>10, <1>11 DEF WalkInv
    <3>2. \A k \in DOMAIN tasks : at2(tasks[k]) = at(tasks[k])
      BY <2>5, <2>12
    <3>3. at2(it) = at(it) /\ \A x \in stayed : at2(x) = at(x)
      BY <2>2, <2>4, <2>12
    <3> QED
      BY <3>1, <3>2, <3>3, <1>1 DEF Listing, InTasks, Passed, at, at2
  <2>11. ASSUME wanted # Null PROVE Searching'
    <3>1. Searching
      BY <2>11, <1>2, <1>10, <1>11 DEF WalkInv
    <3>2. at2(it) = at(it) /\ \A x \in stayed : at2(x) = at(x)
      BY <2>2, <2>4, <2>12
    <3> QED
      BY <3>1, <3>2, <2>3, <2>4, <1>1 DEF Searching, Passed, at, at2
  <2> QED
    BY <2>9, <2>10, <2>11 DEF Reachable
<1>12. WalkInv'
  BY <1>1, <1>2, <1>10, <1>11 DEF WalkInv
<1>13. Once'
  BY <1>1, <1>2, <1>10 DEF Once
<1>14. Found'
  <2>1. \A x \in stayed : pid'[x] = pid[x]
    BY <1>2, <1>5 DEF Types
  <2> QED
    BY <2>1, <1>1, <1>2, <1>10 DEF Found, InTasks
<1> QED
  BY <1>7, <1>8, <1>9, <1>12, <1>13, <1>14 DEF IInv

LEMMA ExitStep == IInv /\ Exit => IInv'
<1> SUFFICES ASSUME IInv, Exit PROVE IInv'
  OBVIOUS
<1>1. PICK s \in listed \ {InitTask, Child, Kthreadd}, before \in listed :
        /\ next[before] = s
        /\ listed' = listed \ {s}
        /\ next' = [next EXCEPT ![before] = next[s]]
        /\ stayed' = stayed \ {s}
        /\ UNCHANGED <<pid, lastPid, initTask, label, start, it, wanted, tasks, result, reused>>
  BY DEF Exit, walk
<1>2. Types /\ PidInv /\ ListInv /\ WalkInv /\ Once /\ Found
  BY DEF IInv
<1>3. /\ s \in Slots /\ before \in Slots /\ next[s] \in listed
      /\ \A x \in Slots : pid[x] \in Nat /\ next[x] \in Slots
  BY <1>2 DEF Types, ListInv
<1>4. pid[before] < pid[s] /\ before # s
  BY <1>1, <1>2, <1>3 DEF ListInv, LeadsOn
<1>5. next[s] # s
  BY <1>1, <1>2, <1>3 DEF ListInv, LeadsOn
<1>6. /\ next'[before] = next[s]
      /\ \A x \in Slots : x # before => next'[x] = next[x]
  BY <1>1, <1>2, <1>3 DEF Types
<1>7. \A t \in listed : t # s => pid[t] # pid[s]
  <2> SUFFICES ASSUME NEW t \in listed, pid[t] = pid[s] PROVE t = s
    OBVIOUS
  <2> QED
    BY <1>2, <1>3, SameTask DEF Types, PidInv
<1>8. Types'
  BY <1>1, <1>2, <1>3 DEF Types
<1>9. PidInv'
  BY <1>1, <1>2 DEF Types, PidInv
<1>10. next'[before] # InitTask => pid[before] < pid[next'[before]]
  BY <1>2, <1>3, <1>4, <1>6 DEF ListInv, LeadsOn
<1>11. ASSUME NEW t \in listed, t # s, pid[before] < pid[t]
       PROVE  next'[before] # InitTask /\ pid[next'[before]] <= pid[t]
  <2>1. pid[s] <= pid[t] /\ pid[s] # pid[t]
    BY <1>1, <1>2, <1>7, <1>11 DEF ListInv, LeadsOn
  <2>2. t \in Slots /\ pid[s] < pid[t]
    BY <2>1, <1>2, <1>3 DEF Types
  <2> QED
    BY <2>2, <1>2, <1>6, <1>11 DEF ListInv, LeadsOn
<1>12. LeadsOn(before, listed)' /\ LeadsOn(before, stayed)'
  BY <1>1, <1>2, <1>10, <1>11 DEF Types, ListInv, LeadsOn
<1>13. ListInv'
  <2>1. ASSUME NEW x \in listed, x # s, x # before
        PROVE  next'[x] \in listed' /\ LeadsOn(x, listed)'
    <3>1. x \in Slots /\ next[x] \in listed /\ LeadsOn(x, listed)
      BY <1>2 DEF Types, ListInv
    <3>2. next[x] # s
      BY <1>1, <1>2, <2>1, OneBefore
    <3> QED
      BY <3>1, <3>2, <2>1, <1>1, <1>6 DEF LeadsOn
  <2> QED
    BY <2>1, <1>1, <1>3, <1>5, <1>6, <1>12 DEF ListInv
<1>14. ASSUME Walking, ~reused PROVE Reachable' /\ (wanted = Null => Listing')
                                      /\ (wanted # Null => Searching')
  <2>1. PICK W : Reach(W)
    BY <1>2, <1>14 DEF WalkInv, Reachable
  <2>2. ASSUME NEW x \in W
        PROVE  next'[x] \in W /\ (pid'[x] = 0 => x = InitTask) /\ LeadsOn(x, stayed)'
    <3>1. x \in Slots /\ next[x] \in W /\ (pid[x] = 0 => x = InitTask) /\ LeadsOn(x, stayed)
      BY <2>1 DEF Reach
    <3>2. CASE x = before
      BY <3>1, <3>2, <2>1, <1>1, <1>3, <1>6, <1>12 DEF Reach
    <3>3. CASE x # before
      BY <3>1, <3>3, <1>1, <1>6 DEF LeadsOn
    <3> QED
      BY <3>2, <3>3
  <2>3. Reach(W)'
    BY <2>1, <2>2, <1>1 DEF Reach
  <2>4. ASSUME wanted = Null PROVE Listing'
    BY <2>4, <1>1, <1>2, <1>14 DEF WalkInv, Listing, InTasks, Passed
  <2>5. ASSUME wanted # Null PROVE Searching'
    BY <2>5, <1>1, <1>2, <1>14 DEF WalkInv, Searching, Passed
  <2> QED
    BY <2>3, <2>4, <2>5 DEF Reachable
<1>15. WalkInv'
  BY <1>1, <1>2, <1>14 DEF WalkInv, Walking
<1>16. Once' /\ Found'
  BY <1>1, <1>2 DEF Once, Found, InTasks
<1> QED
  BY <1>8, <1>9, <1>13, <1>15, <1>16 DEF IInv

-----------------------------------------------------------------------------
(* The walks.                                                              *)

LEMMA OneInReach ==
  ASSUME Types, PidInv, NEW W, Reach(W), NEW s \in W, NEW t \in W, pid[s] = pid[t]
  PROVE  s = t
<1>1. s \in Slots /\ t \in Slots /\ (pid[s] = 0 => s = InitTask) /\ (pid[t] = 0 => t = InitTask)
  BY DEF Reach
<1> QED
  BY <1>1, SameTask

\* the walk moves on in the order of its places, and ends behind the last
LEMMA WalkOrder ==
  ASSUME Types, PidInv, ListInv, NEW W, Reach(W), start \in {InitTask, Child, Kthreadd}
  PROVE  /\ next[it] # start =>
              /\ Place(pid, start, it) < Place(pid, start, next[it])
              /\ \A t \in stayed : Place(pid, start, it) < Place(pid, start, t) =>
                    Place(pid, start, next[it]) <= Place(pid, start, t)
         /\ next[it] = start =>
              \A t \in stayed : Place(pid, start, t) <= Place(pid, start, it)
<1>1. /\ it \in W /\ it \in Slots /\ next[it] \in W /\ next[it] \in Slots
      /\ LeadsOn(it, stayed) /\ (pid[it] = 0 => it = InitTask)
      /\ stayed \subseteq Slots
  BY DEF Types, Reach
<1>2. /\ \A s \in Slots : pid[s] \in Nat /\ pid[s] <= MaxPid
      /\ MaxPid \in Nat
      /\ pid[InitTask] = 0 /\ pid[Child] = 1 /\ pid[Kthreadd] = 2
      /\ {InitTask, Child, Kthreadd} \subseteq Slots
  BY WalkAssumption DEF Types, PidInv
<1>3. next[InitTask] = Child /\ next[Child] = Kthreadd
  BY FirstTasks
<1>4. CASE pid[it] < pid[start]
  <2>1. it \in {InitTask, Child}
    <3>1. pid[it] = 0 \/ pid[it] = 1
      BY <1>1, <1>2, <1>4
    <3>2. pid[it] = 1 => it = Child
      BY <1>1, <1>2 DEF PidInv
    <3> QED
      BY <3>1, <3>2, <1>1
  <2>2. CASE it = InitTask /\ start = Child
    BY <2>2, <1>1, <1>2, <1>3 DEF Place
  <2>3. CASE it = InitTask /\ start = Kthreadd
    <3>1. \A t \in stayed : Place(pid, start, it) < Place(pid, start, t) => pid[t] = 1
      BY <2>3, <1>1, <1>2 DEF Place
    <3> QED
      BY <3>1, <2>3, <1>1, <1>2, <1>3, WalkAssumption DEF Place
  <2>4. CASE it = Child /\ start = Kthreadd
    BY <2>4, <1>1, <1>2, <1>3 DEF Place
  <2> QED
    BY <2>1, <2>2, <2>3, <2>4, <1>2, <1>4
<1>5. CASE ~(pid[it] < pid[start]) /\ next[it] = InitTask
  <2>1. \A t \in stayed : ~(pid[it] < pid[t])
    BY <1>1, <1>5 DEF LeadsOn
  <2>2. CASE start = InitTask
    BY <2>1, <2>2, <1>1, <1>2, <1>5 DEF Place
  <2>3. CASE start # InitTask
    <3>1. 0 < pid[start] /\ start \in Slots
      BY <2>3, <1>2
    <3>2. /\ Place(pid, start, it) = pid[it]
          /\ Place(pid, start, next[it]) = MaxPid + 1
      BY <3>1, <1>2, <1>5 DEF Place
    <3>3. ASSUME NEW t \in stayed, Place(pid, start, it) < Place(pid, start, t)
          PROVE  MaxPid + 1 <= Place(pid, start, t)
      <4>1. t \in Slots /\ ~(pid[it] < pid[t])
        BY <2>1, <1>1
      <4> QED
        BY <4>1, <3>2, <3>3, <1>1, <1>2 DEF Place
    <3> QED
      BY <3>2, <3>3, <2>3, <1>1, <1>2, <1>5
  <2> QED
    BY <2>2, <2>3
<1>6. CASE ~(pid[it] < pid[start]) /\ next[it] # InitTask
  <2>1. /\ start \in Slots /\ pid[it] < pid[next[it]] /\ pid[start] < pid[next[it]]
        /\ next[it] # start
    BY <1>1, <1>2, <1>6 DEF LeadsOn
  <2>2. Place(pid, start, it) = pid[it] /\ Place(pid, start, next[it]) = pid[next[it]]
    BY <2>1, <1>1, <1>2, <1>6 DEF Place
  <2>3. ASSUME NEW t \in stayed, pid[it] < Place(pid, start, t)
        PROVE  pid[next[it]] <= Place(pid, start, t)
    <3>1. t \in Slots /\ (pid[it] < pid[t] => pid[next[it]] <= pid[t])
      BY <1>1 DEF LeadsOn
    <3> QED
      BY <3>1, <2>3, <1>1, <1>2 DEF Place
  <2> QED
    BY <2>1, <2>2, <2>3
<1> QED
  BY <1>4, <1>5, <1>6

\* no two tasks have the same place
LEMMA OnePlace ==
  ASSUME Types, PidInv, NEW W, Reach(W), start \in Slots, NEW s \in W, NEW t \in W,
         Place(pid, start, s) = Place(pid, start, t)
  PROVE  s = t
<1>1. /\ s \in Slots /\ t \in Slots
      /\ \A x \in Slots : pid[x] \in Nat /\ pid[x] <= MaxPid
      /\ MaxPid \in Nat
  BY WalkAssumption DEF Types, Reach
<1>2. pid[s] = pid[t]
  BY <1>1 DEF Place
<1> QED
  BY <1>2, OneInReach

\* tasks is in the order of the walk: no task is in it twice
LEMMA ListedOnce == Types /\ PidInv /\ start \in Slots /\ Reachable /\ Listing => Once
<1> SUFFICES ASSUME Types, PidInv, start \in Slots, NEW W, Reach(W), Listing,
                    NEW j \in DOMAIN tasks, NEW k \in DOMAIN tasks, tasks[j] = tasks[k]
             PROVE  j = k
  BY DEF Once, Reachable
<1>1. j \in Nat /\ k \in Nat
  BY LenProperties DEF Types
<1>2. tasks[j] \in Slots
  BY DEF Reach
<1>3. Place(pid, start, tasks[j]) \in Nat
  BY <1>2, WalkAssumption DEF Types, Place
<1>4. ~(j < k) /\ ~(k < j)
  BY <1>3 DEF Listing
<1> QED
  BY <1>1, <1>4

LEMMA InitTaskManagerStep == IInv /\ InitTaskManager => IInv'
<1> SUFFICES ASSUME IInv, InitTaskManager PROVE IInv'
  OBVIOUS
<1>1. /\ label = "init" /\ label' = "idle" /\ initTask' = next[InitTask]
      /\ UNCHANGED guest
      /\ UNCHANGED <<listed, next, pid, lastPid, start, it, wanted, tasks, result>>
      /\ UNCHANGED <<stayed, reused>>
  BY DEF InitTaskManager, NextTask, guest
<1>2. Types /\ PidInv /\ ListInv /\ WalkInv /\ Once /\ Found
  BY DEF IInv
<1>3. initTask' = Child
  BY <1>1, <1>2, FirstTasks
<1>4. Types'
  BY <1>1, <1>2, <1>3 DEF Types
<1>5. PidInv' /\ ListInv'
  BY <1>1, <1>2, GuestKept
<1>6. WalkInv' /\ Once' /\ Found'
  BY <1>1, <1>2, <1>3 DEF WalkInv, Walking, Once, Found
<1> QED
  BY <1>4, <1>5, <1>6 DEF IInv

\* at the beginning of a walk
LEMMA BeginListed ==
  ASSUME IInv, NEW first, NEW there, BeginWalk(first, there), first \in listed
  PROVE  PidInv' /\ ListInv' /\ Reach(listed)'
<1>1. /\ it' = first /\ stayed' = listed /\ tasks = <<>>
      /\ UNCHANGED guest
      /\ UNCHANGED <<listed, next, pid, lastPid, tasks>>
  BY DEF IInv, WalkInv, BeginWalk, guest
<1>2. Types /\ PidInv /\ ListInv
  BY DEF IInv
<1>3. PidInv' /\ ListInv'
  BY <1>1, <1>2, GuestKept
<1>4. \A s \in listed : next[s] \in listed /\ (pid[s] = 0 => s = InitTask) /\ LeadsOn(s, listed)
  BY <1>2 DEF PidInv, ListInv
<1> QED
  BY <1>1, <1>2, <1>3, <1>4 DEF Types, Reach, LeadsOn

LEMMA ListFrom ==
  ASSUME IInv, NEW first \in {InitTask, Child}, BeginWalk(first, "readTask"),
         UNCHANGED wanted
  PROVE  IInv'
<1>1. /\ label = "idle" /\ label' = "readTask"
      /\ start' = first /\ it' = first /\ stayed' = listed
      /\ UNCHANGED <<listed, next, pid, lastPid, initTask, wanted, tasks, result, reused>>
  BY DEF BeginWalk, guest
<1>2. Types /\ PidInv /\ ListInv /\ WalkInv /\ Once /\ Found
  BY DEF IInv
<1>3. tasks = <<>> /\ wanted = Null /\ initTask = Child
  BY <1>1, <1>2 DEF WalkInv
<1>4. first \in listed /\ first \in Slots
  BY <1>2 DEF Types
<1>5. Types'
  BY <1>1, <1>2, <1>4 DEF Types
<1>6. PidInv' /\ ListInv' /\ Reach(listed)'
  BY <1>4, BeginListed
<1>7. Listing'
  <2>1. \A s \in listed : ~(Place(pid, first, s) < Place(pid, first, first))
    <3>1. \A s \in listed : pid[s] \in Nat /\ pid[first] \in Nat /\ pid[first] <= MaxPid
      BY <1>2, <1>4, WalkAssumption DEF Types
    <3> QED
      BY <3>1, WalkAssumption DEF Place
  <2> QED
    BY <2>1, <1>1, <1>3 DEF Listing, Passed
<1>8. WalkInv'
  BY <1>1, <1>3, <1>4, <1>6, <1>7, WalkAssumption DEF WalkInv, Reachable
<1>9. Once' /\ Found'
  BY <1>1, <1>3 DEF Once, Found
<1> QED
  BY <1>5, <1>6, <1>8, <1>9 DEF IInv

LEMMA GetTasksStep == IInv /\ GetTasks => IInv'
<1> SUFFICES ASSUME IInv, GetTasks PROVE IInv'
  OBVIOUS
<1>1. initTask = Child
  BY DEF IInv, WalkInv, GetTasks, BeginWalk
<1> QED
  BY <1>1, ListFrom DEF GetTasks

LEMMA UpdateStackAddressesStep == IInv /\ UpdateStackAddresses => IInv'
BY ListFrom DEF UpdateStackAddresses

LEMMA GetTaskForPIDStep == IInv /\ GetTaskForPID => IInv'
<1> SUFFICES ASSUME IInv, GetTaskForPID PROVE IInv'
  OBVIOUS
<1>1. /\ label = "idle" /\ label' = "readNext"
      /\ wanted' \in 0..lastPid /\ stayed' = listed
      /\ start' = next[initTask] /\ it' = next[initTask]
      /\ BeginWalk(next[initTask], "readNext")
      /\ UNCHANGED <<listed, next, pid, lastPid, initTask, tasks, result, reused>>
  BY DEF GetTaskForPID, BeginWalk, NextTask, guest
<1>2. Types /\ PidInv /\ ListInv /\ WalkInv /\ Once /\ Found
  BY DEF IInv
<1>3. tasks = <<>> /\ initTask = Child
  BY <1>1, <1>2 DEF WalkInv
<1>4. next[initTask] = Kthreadd /\ Kthreadd \in listed /\ Kthreadd \in Slots
  BY <1>2, <1>3, FirstTasks DEF Types
<1>5. wanted' \in Nat /\ wanted' \in 0..MaxPid /\ wanted' # Null
  <2>1. wanted' \in Nat /\ wanted' \in 0..MaxPid
    BY <1>1, <1>2, WalkAssumption DEF Types
  <2> QED
    BY <2>1, WalkAssumption
<1>6. Types'
  BY <1>1, <1>2, <1>4, <1>5 DEF Types
<1>7. PidInv' /\ ListInv' /\ Reach(listed)'
  BY <1>1, <1>4, BeginListed
<1>8. Searching'
  <2> SUFFICES ASSUME NEW s \in listed, s # Kthreadd,
                      \/ Place(pid, Kthreadd, s) < Place(pid, Kthreadd, Kthreadd)
                      \/ Place(pid, Kthreadd, s) = Place(pid, Kthreadd, Kthreadd)
               PROVE  FALSE
    BY <1>1, <1>4 DEF Searching, Passed
  <2>1. s \in Slots /\ pid[s] \in Nat /\ pid[Kthreadd] = 2 /\ MaxPid \in Nat /\ 2 <= MaxPid
    BY <1>2, WalkAssumption DEF Types, PidInv
  <2>2. pid[s] = 2
    BY <2>1 DEF Place
  <2> QED
    BY <2>1, <2>2, <1>2, <1>4 DEF PidInv
<1>9. WalkInv'
  BY <1>1, <1>3, <1>4, <1>5, <1>7, <1>8 DEF WalkInv, Reachable
<1>10. Once' /\ Found'
  BY <1>1, <1>3 DEF Once, Found
<1> QED
  BY <1>6, <1>7, <1>9, <1>10 DEF IInv

\* getTasks: the task at which the walk is goes into tasks
LEMMA ListPid == IInv /\ ReadTask /\ wanted = Null => IInv'
<1> SUFFICES ASSUME IInv, ReadTask, wanted = Null PROVE IInv'
  OBVIOUS
<1>1. /\ label = "readTask" /\ label' = "readNext"
      /\ tasks' = Append(tasks, it)
      /\ UNCHANGED guest
      /\ UNCHANGED <<listed, next, pid, lastPid, initTask, start, it, wanted, result, stayed, reused>>
  BY DEF ReadTask, guest
<1>2. Types /\ PidInv /\ ListInv /\ WalkInv /\ Once /\ Found
  BY DEF IInv
<1>3. it \in Slots
  BY <1>1, <1>2 DEF WalkInv, Walking
<1>4. tasks' \in Seq(Slots) /\ Len(tasks') = Len(tasks) + 1 /\ Len(tasks) \in Nat
      /\ tasks \in Seq(Slots) /\ DOMAIN tasks = 1..Len(tasks) /\ DOMAIN tasks' = 1..(Len(tasks) + 1)
  BY <1>1, <1>2, <1>3, LenProperties DEF Types
<1>5. /\ tasks'[Len(tasks) + 1] = it
      /\ \A k \in DOMAIN tasks : tasks'[k] = tasks[k]
  BY <1>1, <1>3, <1>4
<1>6. Types'
  BY <1>1, <1>2, <1>4 DEF Types
<1>7. PidInv' /\ ListInv'
  BY <1>1, <1>2, GuestKept
<1>8. ASSUME ~reused PROVE Reachable' /\ Listing' /\ Once'
  <2>1. PICK W : Reach(W)
    BY <1>1, <1>2, <1>8 DEF WalkInv, Walking, Reachable
  <2>2. Reach(W)'
    <3>1. \A k \in DOMAIN tasks' : tasks'[k] \in W
      BY <2>1, <1>4, <1>5 DEF Reach
    <3>2. \A s \in W : LeadsOn(s, stayed)'
      BY <2>1, <1>1 DEF Reach, LeadsOn
    <3> QED
      BY <3>1, <3>2, <2>1, <1>1 DEF Reach
  <2>3. Listing
    BY <1>1, <1>2, <1>8 DEF WalkInv, Walking
  <2>4. Listing'
    <3> DEFINE at(x) == Place(pid, start, x)
    <3>0. \A x \in Slots : at(x) \in Nat
      BY <1>2, <1>3, WalkAssumption DEF Types, WalkInv, Walking, Place
    <3>4. /\ \A j, k \in DOMAIN tasks : j < k => at(tasks[j]) < at(tasks[k])
          /\ \A k \in DOMAIN tasks : at(tasks[k]) < at(it) /\ tasks[k] \in Slots
          /\ \A s \in stayed : at(s) < at(it) => InTasks(s)
      BY <2>1, <2>3, <1>1 DEF Listing, Passed, Reach
    <3>5. \A s \in stayed : at(s) = at(it) => s = it
      <4>1. start \in Slots
        BY <1>1, <1>2, WalkAssumption DEF WalkInv, Walking
      <4>2. \A s \in stayed : s \in W /\ it \in W
        BY <2>1, <1>2 DEF Types, Reach
      <4> QED
        BY <4>1, <4>2, <2>1, <1>2, OnePlace
    <3> HIDE DEF at
    <3>1. \A k \in DOMAIN tasks' : at(tasks'[k]) <= at(it)
      <4>1. \A k \in DOMAIN tasks' : k \in DOMAIN tasks \/ tasks'[k] = it
        BY <1>4, <1>5
      <4>2. at(it) <= at(it)
        BY <3>0, <1>3
      <4>3. \A k \in DOMAIN tasks : at(tasks[k]) <= at(it)
        BY <3>0, <3>4, <1>3
      <4> QED
        BY <4>1, <4>2, <4>3, <1>5
    <3>2. \A j, k \in DOMAIN tasks' : j < k => at(tasks'[j]) < at(tasks'[k])
      <4> SUFFICES ASSUME NEW j \in DOMAIN tasks', NEW k \in DOMAIN tasks', j < k
                   PROVE  at(tasks'[j]) < at(tasks'[k])
        OBVIOUS
      <4>1. j \in DOMAIN tasks
        BY <1>4
      <4>2. k \in DOMAIN tasks \/ k = Len(tasks) + 1
        BY <1>4
      <4> QED
        BY <4>1, <4>2, <3>4, <1>5
    <3>3. ASSUME NEW s \in stayed, at(s) < at(it) \/ at(s) = at(it)
          PROVE  InTasks(s)'
      <4>1. CASE at(s) < at(it)
        BY <4>1, <3>4, <1>4, <1>5 DEF InTasks
      <4>2. CASE at(s) = at(it)
        BY <4>2, <3>5, <1>4, <1>5 DEF InTasks
      <4> QED
        BY <3>3, <4>1, <4>2
    <3> QED
      BY <3>1, <3>2, <3>3, <1>1 DEF Listing, Passed, at
  <2>5. Once'
    <3>1. Types' /\ PidInv' /\ start' \in Slots
      BY <1>1, <1>2, <1>6, <1>7, WalkAssumption DEF WalkInv, Walking
    <3>2. (Types /\ PidInv /\ start \in Slots /\ Reachable /\ Listing => Once)'
      BY ListedOnce, PTL
    <3> QED
      BY <3>1, <3>2, <2>2, <2>4 DEF Reachable
  <2> QED
    BY <2>2, <2>4, <2>5 DEF Reachable
<1>9. WalkInv'
  BY <1>1, <1>2, <1>3, <1>8 DEF WalkInv, Walking
<1>10. Once'
  BY <1>1, <1>8 DEF Once
<1>11. Found'
  BY <1>1 DEF Found
<1> QED
  BY <1>6, <1>7, <1>9, <1>10, <1>11 DEF IInv

\* getTaskForPID: the walk ends if the task has the wanted pid
LEMMA CheckPid == IInv /\ ReadTask /\ wanted # Null => IInv'
<1> SUFFICES ASSUME IInv, ReadTask, wanted # Null PROVE IInv'
  OBVIOUS
<1>1. /\ label = "readTask"
      /\ IF pid[it] = wanted
            THEN result' = it /\ label' = "done"
            ELSE label' = "readNext" /\ UNCHANGED result
      /\ UNCHANGED guest
      /\ UNCHANGED <<listed, next, pid, lastPid, initTask, start, it, wanted, tasks, stayed, reused>>
  BY DEF ReadTask, guest
<1>2. Types /\ PidInv /\ ListInv /\ WalkInv /\ Once /\ Found
  BY DEF IInv
<1>3. it \in Slots
  BY <1>1, <1>2 DEF WalkInv, Walking
<1>4. Types'
  BY <1>1, <1>2 DEF Types
<1>5. PidInv' /\ ListInv'
  BY <1>1, <1>2, GuestKept
<1>6. ASSUME ~reused
      PROVE  /\ label' = "readNext" => Reachable' /\ Searching'
             /\ label' = "done" => \A s \in stayed : pid[s] = wanted => result' = s
  <2>1. PICK W : Reach(W)
    BY <1>1, <1>2, <1>6 DEF WalkInv, Walking, Reachable
  <2>2. Searching
    BY <1>1, <1>2, <1>6 DEF WalkInv, Walking
  <2>3. Reach(W)'
    <3>1. \A s \in W : LeadsOn(s, stayed)'
      BY <2>1, <1>1 DEF Reach, LeadsOn
    <3> QED
      BY <3>1, <2>1, <1>1 DEF Reach
  <2>4. ASSUME label' = "readNext" PROVE Searching'
    <3>1. pid[it] # wanted /\ start \in Slots
      BY <2>4, <1>1, <1>2, WalkAssumption DEF WalkInv, Walking
    <3>2. \A s \in stayed : Place(pid, start, s) = Place(pid, start, it) => s = it
      BY <3>1, <2>1, <1>2, OnePlace DEF Types, Reach
    <3> QED
      BY <3>1, <3>2, <2>2, <2>4, <1>1 DEF Searching, Passed
  <2>5. ASSUME label' = "done", NEW s \in stayed, pid[s] = wanted PROVE result' = s
    <3>1. pid[it] = wanted /\ result' = it
      BY <2>5, <1>1
    <3> QED
      BY <3>1, <2>1, <2>5, <1>2, OneInReach DEF Types, Reach
  <2> QED
    BY <2>3, <2>4, <2>5 DEF Reachable
<1>7. WalkInv'
  BY <1>1, <1>2, <1>3, <1>6 DEF WalkInv, Walking
<1>8. Once'
  BY <1>1, <1>2 DEF Once
<1>9. Found'
  BY <1>1, <1>6 DEF Found
<1> QED
  BY <1>4, <1>5, <1>7, <1>8, <1>9 DEF IInv

LEMMA ReadNextStep == IInv /\ ReadNext => IInv'
<1> SUFFICES ASSUME IInv, ReadNext PROVE IInv'
  OBVIOUS
<1>1. /\ label = "readNext"
      /\ it' = next[it]
      /\ label' = IF next[it] = start THEN "done" ELSE "readTask"
      /\ UNCHANGED guest
      /\ UNCHANGED <<listed, next, pid, lastPid, initTask, start, wanted, tasks, result, stayed, reused>>
  BY DEF ReadNext, NextTask, guest
<1>2. Types /\ PidInv /\ ListInv /\ WalkInv /\ Once /\ Found
  BY DEF IInv
<1>3. it \in Slots /\ next[it] \in Slots
  BY <1>1, <1>2 DEF Types, WalkInv, Walking
<1>4. Types'
  BY <1>1, <1>2, <1>3 DEF Types
<1>5. PidInv' /\ ListInv'
  BY <1>1, <1>2, GuestKept
<1>6. \A s \in Slots : pid[s] \in Nat
  BY <1>2 DEF Types
<1>7. ASSUME ~reused
      PROVE  /\ Reachable'
             /\ wanted = Null => Found' /\ (label' = "readTask" => Listing')
             /\ wanted # Null => Found' /\ (label' = "readTask" => Searching')
  <2>1. PICK W : Reach(W)
    BY <1>1, <1>2, <1>7 DEF WalkInv, Walking, Reachable
  <2>2. Reach(W)'
    <3>1. \A s \in W : LeadsOn(s, stayed)'
      BY <2>1, <1>1 DEF Reach, LeadsOn
    <3> QED
      BY <3>1, <2>1, <1>1 DEF Reach
  <2> DEFINE at(x) == Place(pid, start, x)
  <2>3. /\ start \in {InitTask, Child, Kthreadd}
        /\ wanted # Null => start = Kthreadd
    BY <1>1, <1>2 DEF WalkInv, Walking
  <2>4. \A s \in Slots : at(s) \in Nat
    BY <2>3, <1>2, WalkAssumption DEF Types, Place
  <2>5. \A s \in stayed : s \in Slots
    BY <1>2 DEF Types
  <2>6. /\ next[it] # start => at(it) < at(next[it])
        /\ next[it] # start => \A s \in stayed : at(it) < at(s) => at(next[it]) <= at(s)
        /\ next[it] = start => \A s \in stayed : at(s) <= at(it)
    BY <2>1, <2>3, <1>2, WalkOrder
  <2> HIDE DEF at
  \* what the walk passes with this step, it has passed before
  <2>7. ASSUME NEW s \in stayed, next[it] = start \/ at(s) < at(next[it])
        PROVE  Passed(s)
    <3>1. at(s) < at(it) \/ at(s) = at(it)
      BY <2>4, <2>5, <2>6, <2>7, <1>3
    <3> QED
      BY <3>1, <1>1 DEF Passed, at
  <2>8. ASSUME wanted = Null PROVE Found' /\ (label' = "readTask" => Listing')
    <3>1. Listing
      BY <2>8, <1>1, <1>2, <1>7 DEF WalkInv, Walking
    <3>2. Found'
      BY <3>1, <2>7, <2>8, <1>1 DEF Found, Listing, InTasks
    <3>3. ASSUME label' = "readTask" PROVE Listing'
      <4>1. next[it] # start /\ at(it) < at(next[it])
        BY <3>3, <2>6, <1>1
      <4>2. \A k \in DOMAIN tasks : tasks[k] \in Slots /\ at(tasks[k]) <= at(it)
        BY <3>1, <2>1, <1>1 DEF Listing, Reach, at
      <4>3. \A k \in DOMAIN tasks : at(tasks[k]) < at(next[it])
        BY <4>1, <4>2, <2>4, <1>3
      <4>4. \A s \in stayed : at(s) < at(next[it]) => InTasks(s)
        BY <3>1, <2>7 DEF Listing
      <4> QED
        BY <3>1, <3>3, <4>3, <4>4, <1>1 DEF Listing, Passed, InTasks, at
    <3> QED
      BY <3>2, <3>3
  <2>9. ASSUME wanted # Null PROVE Found' /\ (label' = "readTask" => Searching')
    <3>1. Searching
      BY <2>9, <1>1, <1>2, <1>7 DEF WalkInv, Walking
    <3>2. Found'
      BY <3>1, <2>3, <2>7, <2>9, <1>1 DEF Found, Searching
    <3>3. ASSUME label' = "readTask" PROVE Searching'
      BY <3>1, <3>3, <2>7, <1>1 DEF Searching, Passed, at
    <3> QED
      BY <3>2, <3>3
  <2> QED
    BY <2>2, <2>8, <2>9 DEF Reachable
<1>8. WalkInv'
  BY <1>1, <1>2, <1>3, <1>7 DEF WalkInv, Walking
<1>9. Once'
  BY <1>1, <1>2 DEF Once
<1>10. Found'
  BY <1>1, <1>7 DEF Found
<1> QED
  BY <1>4, <1>5, <1>8, <1>9, <1>10 DEF IInv

LEMMA StutterStep == IInv /\ UNCHANGED vars => IInv'
<1> SUFFICES ASSUME IInv, UNCHANGED vars PROVE IInv'
  OBVIOUS
<1>1. /\ UNCHANGED guest
      /\ UNCHANGED <<listed, next, pid, lastPid, initTask, label, start, it, wanted, tasks, result>>
      /\ UNCHANGED <<stayed, reused>>
  BY DEF vars, guest, walk
<1>2. Types' /\ PidInv' /\ ListInv'
  BY <1>1, GuestKept DEF IInv, Types
<1>3. Reachable => Reachable'
  BY <1>1 DEF Reachable, Reach, LeadsOn
<1>4. (Listing => Listing') /\ (Searching => Searching')
  BY <1>1 DEF Listing, Searching, Passed, InTasks
<1>5. WalkInv'
  BY <1>1, <1>3, <1>4 DEF IInv, WalkInv, Walking
<1>6. Once' /\ Found'
  BY <1>1 DEF IInv, Once, Found, InTasks
<1> QED
  BY <1>2, <1>5, <1>6 DEF IInv

-----------------------------------------------------------------------------
LEMMA InvStep == IInv /\ [Next]_vars => IInv'
BY ForkStep, ExitStep, InitTaskManagerStep, GetTasksStep, UpdateStackAddressesStep, GetTaskForPIDStep, ListPid, CheckPid, ReadNextStep, StutterStep
DEF Next, WalkStep

\* Every variable has its type, and no two tasks of the guest's list have the
\* same next: what the walks go over is one circular list, and they begin and end
\* at a task that never ends.
THEOREM TypeCorrect == Spec => []TypeOK
<1>1. IInv => TypeOK
  BY TypeImplied
<1> QED
  BY <1>1, InvInit, InvStep, PTL DEF Spec

\* Whatever tasks begin and end during a walk of taskmanager.cpp, getTasks
\* returns every task that lived all the while and none twice, updateStackAddresses
\* (kernelvalidator.cpp) finds the stack of each of them, and getTaskForPID finds
\* the task, unless it is pid 2, from which it starts: as long as no task_struct
\* is used again during the walk.
THEOREM SurvivorsAreFound == Spec => []SurvivorsFound
<1>1. IInv => SurvivorsFound
  BY DEF IInv, Once, Found, SurvivorsFound
<1> QED
  BY <1>1, InvInit, InvStep, PTL DEF Spec
=============================================================================
