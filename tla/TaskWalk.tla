----------------------------- MODULE TaskWalk -----------------------------
(***************************************************************************)
(* kernint's walks over the guest's circular task list, while the guest    *)
(* runs.  TaskManager::init stores the task behind init_task, pid 1.       *)
(* getTasks begins and ends there; getTaskForPID, which looks for a pid,   *)
(* begins and ends at the task behind that one, pid 2, which it does not   *)
(* look at; KernelValidator::updateStackAddresses begins and ends at       *)
(* init_task itself.  Each member of a task_struct is a read of guest      *)
(* memory of its own; a walk holds neither a lock nor a reference.         *)
(*                                                                         *)
(* The guest (external) appends a new task in front of init_task and, when *)
(* a task ends, unlinks it; the links of an unlinked task stay as they are *)
(* until its memory is used for a new task.                                *)
(***************************************************************************)
EXTENDS Naturals, Sequences

CONSTANTS
  Slots,     \* memory for task_structs
  InitTask,  \* init_task, pid 0
  Child,     \* the task that is pid 1, which never ends
  Kthreadd,  \* the kernel's task that is pid 2, which never ends either
  Null,      \* an Instance with address 0
  MaxPid     \* bound: the last pid that the guest gives to a task

ASSUME WalkAssumption ==
  /\ {InitTask, Child, Kthreadd} \subseteq Slots
  /\ InitTask # Child /\ InitTask # Kthreadd /\ Child # Kthreadd
  /\ Null \notin Slots \cup Nat
  /\ MaxPid \in Nat \ {0, 1}

VARIABLES
  listed,    \* guest: the tasks in the list
  next,      \* guest: task_struct.tasks.next
  pid,       \* guest: task_struct.pid
  lastPid,   \* guest: the last pid given
  initTask,  \* TaskManager's member
  label,     \* "init", "idle", "readTask", "readNext" or "done"
  start,     \* taskStruct, or init_task in updateStackAddresses
  it,
  wanted,    \* the pid that getTaskForPID looks for, Null in the other walks
  tasks,     \* what getTasks returns, and the tasks of stackAddresses
  result,    \* what getTaskForPID returns
  stayed,    \* history: the tasks that have been in the list since the start
  reused     \* history: memory of a task has been used again during the walk

guest == <<listed, next, pid, lastPid>>
walk == <<initTask, label, start, it, wanted, tasks, result>>
vars == <<guest, walk, stayed, reused>>

Init ==
  /\ listed = {InitTask, Child, Kthreadd}
  /\ next = [s \in Slots |-> IF s = InitTask THEN Child
                             ELSE IF s = Child THEN Kthreadd ELSE InitTask]
  /\ pid = [s \in Slots |-> IF s = Child THEN 1 ELSE IF s = Kthreadd THEN 2 ELSE 0]
  /\ lastPid = 2
  /\ initTask = Null
  /\ label = "init"
  /\ start = Null
  /\ it = Null
  /\ wanted = Null
  /\ tasks = <<>>
  /\ result = Null
  /\ stayed = {}
  /\ reused = FALSE

Walking == label \in {"readTask", "readNext"}

-----------------------------------------------------------------------------
(* The guest.                                                              *)

Fork ==
  \E s \in Slots \ listed : \E last \in listed :
    /\ next[last] = InitTask
    /\ lastPid < MaxPid
    /\ lastPid' = lastPid + 1
    /\ listed' = listed \cup {s}
    /\ next' = [next EXCEPT ![last] = s, ![s] = InitTask]
    /\ pid' = [pid EXCEPT ![s] = lastPid']
    /\ reused' = (reused \/ (Walking /\ pid[s] # 0))
    /\ UNCHANGED <<walk, stayed>>

Exit ==
  \E s \in listed \ {InitTask, Child, Kthreadd} : \E before \in listed :
    /\ next[before] = s
    /\ listed' = listed \ {s}
    /\ next' = [next EXCEPT ![before] = next[s]]
    /\ stayed' = stayed \ {s}
    /\ UNCHANGED <<pid, lastPid, walk, reused>>

-----------------------------------------------------------------------------
(* The walks.                                                              *)

\* nextTask, which goes to the task behind the next one
NextTaskSkips(s) == next[next[s]]

NextTask(s) == next[s]

\* init_task's next
InitTaskManager ==
  /\ label = "init"
  /\ label' = "idle"
  /\ initTask' = NextTask(InitTask)
  /\ UNCHANGED <<guest, start, it, wanted, tasks, result, stayed, reused>>

BeginWalk(first, there) ==
  /\ label = "idle"
  /\ label' = there
  /\ start' = first
  /\ it' = first
  /\ stayed' = listed
  /\ UNCHANGED <<guest, initTask, tasks, result, reused>>

\* do { ... } while (it != taskStruct)
GetTasks ==
  /\ BeginWalk(initTask, "readTask")
  /\ UNCHANGED wanted

\* do { ... } while (task != init_task)
UpdateStackAddresses ==
  /\ BeginWalk(InitTask, "readTask")
  /\ UNCHANGED wanted

\* the walk's end is one task further on, which may end
GetTaskForPIDBehind ==
  /\ BeginWalk(NextTask(NextTask(initTask)), "readNext")
  /\ wanted' \in 0..lastPid

\* it = nextTask(taskStruct) and then while (it != taskStruct) { ... }
GetTaskForPID ==
  /\ BeginWalk(NextTask(initTask), "readNext")
  /\ wanted' \in 0..lastPid

ReadTask ==
  /\ label = "readTask"
  /\ IF wanted = Null
     THEN /\ tasks' = Append(tasks, it)
          /\ label' = "readNext"
          /\ UNCHANGED result
     ELSE /\ IF pid[it] = wanted
             THEN result' = it /\ label' = "done"
             ELSE label' = "readNext" /\ UNCHANGED result
          /\ UNCHANGED tasks
  /\ UNCHANGED <<guest, initTask, start, it, wanted, stayed, reused>>

ReadNext ==
  /\ label = "readNext"
  /\ it' = NextTask(it)
  /\ label' = IF it' = start THEN "done" ELSE "readTask"
  /\ UNCHANGED <<guest, initTask, start, wanted, tasks, result, stayed, reused>>

WalkStep == ReadTask \/ ReadNext

Next ==
  \/ Fork \/ Exit
  \/ InitTaskManager
  \/ GetTasks \/ UpdateStackAddresses \/ GetTaskForPID \/ WalkStep
  \/ label = "done" /\ UNCHANGED vars

Spec == Init /\ [][Next]_vars /\ WF_vars(WalkStep)

-----------------------------------------------------------------------------
(* Properties.                                                             *)

(***************************************************************************)
(* Every variable has its type, the guest's list is a list, and a walk     *)
(* begins and ends at a task that never ends.                              *)
(***************************************************************************)
TypeOK ==
  /\ listed \subseteq Slots /\ {InitTask, Child, Kthreadd} \subseteq listed
  /\ next \in [Slots -> Slots]
  /\ \A s, t \in listed : next[s] \in listed /\ (next[s] = next[t] => s = t)
  /\ pid \in [Slots -> 0..MaxPid] /\ lastPid \in 2..MaxPid
  /\ initTask \in {Null, Child}
  /\ label \in {"init", "idle", "readTask", "readNext", "done"}
  /\ start \in {Null, InitTask, Child, Kthreadd}
  /\ it \in Slots \cup {Null}
  /\ wanted \in {Null} \cup 0..MaxPid
  /\ tasks \in Seq(Slots)
  /\ result \in Slots \cup {Null}
  /\ stayed \subseteq listed
  /\ reused \in BOOLEAN

InTasks(s) == \E k \in DOMAIN tasks : tasks[k] = s

(***************************************************************************)
(* Whatever tasks begin and end during the walk, before or behind it, or   *)
(* under it, getTasks returns every task that lived all the while, and no  *)
(* task twice, so that --list-procs checks none twice; updateStackAddresses*)
(* finds the stack of each such task; and getTaskForPID finds the task,    *)
(* unless it is pid 2, from which the search starts.  The walks rely on    *)
(* the stale links of ended tasks: they need that their memory is not used *)
(* again while they last.                                                  *)
(***************************************************************************)
SurvivorsFound ==
  /\ label = "done" /\ ~reused =>
       \A s \in stayed :
          IF wanted = Null
          THEN InTasks(s)
          ELSE pid[s] = wanted /\ s # Kthreadd => result = s
  /\ ~reused => \A j, k \in DOMAIN tasks : tasks[j] = tasks[k] => j = k

(***************************************************************************)
(* A walk ends, though the guest's changes never stop it from being on a   *)
(* task that is no longer in the list (and as long as the guest does not   *)
(* append new tasks faster than the walk goes on: their number is MaxPid). *)
(***************************************************************************)
WalkEnds == Walking ~> label = "done"
=============================================================================
