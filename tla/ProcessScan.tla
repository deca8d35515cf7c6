---------------------------- MODULE ProcessScan ----------------------------
(***************************************************************************)
(* The scan of the guest's user processes: kernint's --pid and --list-procs*)
(* modes (kernint.cpp), the Process constructor (process.cpp), the library *)
(* cache of the TaskManager (taskmanager.cpp) and the choice of the image  *)
(* that a mapping is compared with (processvalidator.cpp).                 *)
(*                                                                         *)
(* The guest runs on while it is scanned: a task may exec or exit between  *)
(* any two reads of its task_struct.  An address space is given by the     *)
(* program that runs in it: its VMAs, in address order, are Vmas[program]. *)
(***************************************************************************)
EXTENDS Naturals, Sequences

CONSTANTS
  Tasks,        \* the guest's tasks
  KernelTasks,  \* the ones of process group 0
  Files,        \* every file that can be mapped, by its path in the guest
  Programs,     \* the ones a task can exec
  Elf,          \* the files loadElfFile accepts
  Vdso,         \* the name "[vdso]"
  Needed,       \* Needed[f]: f's DT_NEEDED entries, as loadLibrary finds them
  Rank,         \* a topological numbering of the files by Needed
  Located,      \* Located[f]: the file the search path gives for f's basename
  Vmas,         \* Vmas[p]: the named VMAs of a task that runs p
  Tails,        \* Tails[p]: the files whose path is a tail of p's, p included
  MaxExecs,     \* bound: exec calls of one task
  NoMm,         \* a kernel task, or one that has exited and was not yet reaped
  Gone,         \* a task that has left the task list
  None          \* no task, no file, no loader

\* a cached loader, and for which Process it was relocated last
Loader == [relocatedFor : Nat]

(***************************************************************************)
(* A VMA entry stands for all mappings of one file.  "segments" is what    *)
(* the dynamic linker makes: one mapping for each of the file's segments,  *)
(* with the segment's flags; "plain" is a file mapped as data.             *)
(***************************************************************************)
Vma == [file : Files, as : {"segments", "plain"}]

ASSUME FileAssumption ==
  /\ KernelTasks \subseteq Tasks
  /\ Programs \subseteq Files
  /\ Elf \subseteq Files
  /\ Vdso \in Files \ (Elf \cup Programs)
  /\ Needed \in [Files -> Seq(Elf \cup {None})]
  /\ Needed[Vdso] = <<>>
  /\ Located \in [Files -> Elf \cup {None}]
  /\ Vmas \in [Programs -> Seq(Vma)]
  /\ Tails \in [Programs -> SUBSET Files]
  /\ \A p \in Programs : p \in Tails[p]
  /\ MaxExecs \in Nat
  /\ {NoMm, Gone, None} \cap Files = {}
  /\ None \notin Loader
  /\ NoMm # Gone
  /\ None \notin Tasks

(***************************************************************************)
(* No library needs itself, directly or not.  The code does not check it:  *)
(* a loader gets into the cache only after its dependencies, so that a     *)
(* cycle would be a recursion without end.                                 *)
(***************************************************************************)
ASSUME DependencyAssumption ==
  /\ Rank \in [Files -> Nat]
  /\ \A f \in Files : \A i \in DOMAIN Needed[f] :
        Needed[f][i] # None => Rank[Needed[f][i]] < Rank[f]

VARIABLES
  image,       \* image[t]: the program guest task t runs, NoMm or Gone
  execs,       \* execs[t]: how often t has called exec
  mode,        \* "single" until --pid's task is done, then "list"
  todo,        \* what is left of the snapshot that getTasks took
  task,        \* the task whose turn it is
  binaryName,  \* its exe name, as main read it
  nameExecs,   \* execs[task] at that moment
  procs,       \* how many Process objects were made; the last is the current
  mappedVMAs,  \* the current Process's VMAs
  execLoader,  \* the current Process's execLoader, by its file
  mappings,    \* loader_mappings: the VMAs that have a loader, by position
  symbols,     \* the loaders whose symbols the current Process registered
  libraryMap,  \* libraryMap[f]: the loader cached under the name f
  parsed,      \* parsed[f]: how many ElfFile objects were made of f
  stack,       \* the loads in progress: a file and its next DT_NEEDED entry
  vmaIx,       \* the position in a loop over mappedVMAs
  pc,          \* where kernint is
  ended        \* "no", "finished", "exception" (uncaught) or "assert"

guestVars == <<image, execs>>
mainVars  == <<mode, todo, task, binaryName, nameExecs>>
procVars  == <<procs, mappedVMAs, execLoader, mappings, symbols>>
loadVars  == <<libraryMap, parsed, stack, vmaIx>>
vars      == <<guestVars, mainVars, procVars, loadVars, pc, ended>>

HasMm(t) == image[t] \in Programs
Cached(f) == libraryMap[f] # None

Init ==
  /\ image \in [Tasks -> Programs \cup {NoMm}]
  /\ \A t \in Tasks : t \in KernelTasks <=> image[t] = NoMm
  /\ execs = [t \in Tasks |-> 0]
  /\ task \in Tasks \cup {None}
  /\ mode = IF task = None THEN "list" ELSE "single"
  /\ pc = mode
  /\ todo = {}
  /\ binaryName = None
  /\ nameExecs = 0
  /\ procs = 0
  /\ mappedVMAs = <<>>
  /\ execLoader = None
  /\ mappings = {}
  /\ symbols = {}
  /\ libraryMap = [f \in Files |-> None]
  /\ parsed = [f \in Files |-> 0]
  /\ stack = <<>>
  /\ vmaIx = 0
  /\ ended = "no"

-----------------------------------------------------------------------------
(* The guest.                                                              *)

Exec(t) ==
  /\ HasMm(t)
  /\ execs[t] < MaxExecs
  /\ \E p \in Programs \ {image[t]} : image' = [image EXCEPT ![t] = p]
  /\ execs' = [execs EXCEPT ![t] = @ + 1]
  /\ UNCHANGED <<mainVars, procVars, loadVars, pc, ended>>

\* exit gives the mm back at once; the parent's wait unlinks the task later
Exit(t) ==
  /\ t \notin KernelTasks
  /\ \/ HasMm(t) /\ image' = [image EXCEPT ![t] = NoMm]
     \/ image[t] = NoMm /\ image' = [image EXCEPT ![t] = Gone]
  /\ UNCHANGED <<execs, mainVars, procVars, loadVars, pc, ended>>

-----------------------------------------------------------------------------
(* main.                                                                   *)

Goto(label) == pc' = label

\* an exception or a failed assert, which nothing catches; or the end of main
EndBy(how) ==
  /\ ended' = how
  /\ UNCHANGED <<guestVars, mainVars, procVars, loadVars, pc>>

ListTasks ==
  /\ pc = "list"
  /\ mode' = "list"
  /\ todo' = {t \in Tasks : image[t] # Gone}
  /\ Goto("next")
  /\ UNCHANGED <<guestVars, task, binaryName, nameExecs, procVars, loadVars, ended>>

\* the loop does not move on
NextTaskAgain ==
  /\ pc = "next"
  /\ \E t \in todo : todo' = todo /\ task' = t
  /\ Goto("listed")
  /\ UNCHANGED <<guestVars, mode, binaryName, nameExecs, procVars, loadVars, ended>>

NextTask ==
  /\ pc = "next"
  /\ \E t \in todo : todo' = todo \ {t} /\ task' = t
  /\ Goto("listed")
  /\ UNCHANGED <<guestVars, mode, binaryName, nameExecs, procVars, loadVars, ended>>

ScanFinished ==
  /\ pc = "next"
  /\ todo = {}
  /\ EndBy("finished")

\* what main does after a task
AfterTask == IF mode = "single" THEN "list" ELSE "next"

\* tm->terminated(pid): the task list has no such pid any more
CheckTerminated ==
  /\ \/ /\ pc \in {"single", "listed"}
        /\ image[task] = Gone
        /\ Goto(AfterTask)
     \/ pc = "single" /\ image[task] # Gone /\ Goto("name")
     \/ pc = "listed" /\ image[task] # Gone /\ Goto("kernelTask")
  /\ UNCHANGED <<guestVars, mainVars, procVars, loadVars, ended>>

(***************************************************************************)
(* isKernelTask(task) reads the task_struct at the address the snapshot    *)
(* gave; of a task that is gone it reads whatever is there by now.         *)
(***************************************************************************)
CheckKernelTask ==
  /\ pc = "kernelTask"
  /\ \/ task \in KernelTasks /\ Goto("next")
     \/ task \notin KernelTasks /\ Goto("name")
     \/ image[task] = Gone /\ Goto("next")
  /\ UNCHANGED <<guestVars, mainVars, procVars, loadVars, ended>>

\* getTaskExeName(pid) follows task->mm->exe_file
ReadExeName ==
  /\ pc = "name"
  /\ HasMm(task)
  /\ binaryName' = image[task]
  /\ nameExecs' = execs[task]
  /\ Goto("process")
  /\ UNCHANGED <<guestVars, mode, todo, task, procVars, loadVars, ended>>

\* ... or a null mm, of --pid's kernel task or of a task that has exited
NoExeName ==
  /\ pc \in {"name", "exec"}
  /\ ~HasMm(task)
  /\ EndBy("exception")

-----------------------------------------------------------------------------
(* Process::Process.                                                       *)

\* a Process that is filled a second time
ReuseProcess ==
  /\ pc = "process"
  /\ procs' = procs + 1
  /\ mappedVMAs' = <<>>
  /\ execLoader' = None
  /\ symbols' = {}
  /\ Goto(IF image[task] = Gone THEN "environment" ELSE "vmas")
  /\ UNCHANGED <<guestVars, mainVars, mappings, loadVars, ended>>

\* for a task that has gone the constructor returns early, and main goes on
\* to validate the empty Process
MakeProcess ==
  /\ pc = "process"
  /\ procs' = procs + 1
  /\ mappedVMAs' = <<>>
  /\ execLoader' = None
  /\ mappings' = {}
  /\ symbols' = {}
  /\ Goto(IF image[task] = Gone THEN "environment" ELSE "vmas")
  /\ UNCHANGED <<guestVars, mainVars, loadVars, ended>>

GetVMAInfo ==
  /\ pc = "vmas"
  /\ mappedVMAs' = IF HasMm(task) THEN Vmas[image[task]] ELSE <<>>
  /\ Goto("exec")
  /\ UNCHANGED <<guestVars, mainVars, procs, execLoader, mappings, symbols, loadVars,
                 ended>>

\* ElfFile::loadElfFile and parseUserspace: one more activation of
\* loadDependencies, which starts at the first DT_NEEDED entry
Parse(f) ==
  /\ parsed' = [parsed EXCEPT ![f] = @ + 1]
  /\ stack' = <<[file |-> f, dep |-> 1]>> \o stack
  /\ Goto("load")

\* loadExec reads the name of the executable once more, and never looks into
\* the cache
LoadExec ==
  /\ pc = "exec"
  /\ image[task] \in Elf
  /\ Parse(image[task])
  /\ UNCHANGED <<guestVars, mainVars, procVars, libraryMap, vmaIx, ended>>

\* the executable is not under the root path, or no ELF file
NoExecFile ==
  /\ pc = "exec"
  /\ HasMm(task)
  /\ image[task] \notin Elf
  /\ EndBy("exception")

-----------------------------------------------------------------------------
(* loadLibrary and loadDependencies.                                       *)

Top == stack[1]

CallLibrary(lib) ==
  /\ pc = "load"
  /\ Top.dep <= Len(Needed[Top.file])
  /\ Needed[Top.file][Top.dep] = lib

NextDependency ==
  Goto("load") /\ stack' = <<[Top EXCEPT !.dep = @ + 1]>> \o Tail(stack)

FindLibrary ==
  /\ \E lib \in Elf : Cached(lib) /\ CallLibrary(lib)
  /\ NextDependency
  /\ UNCHANGED <<guestVars, mainVars, procVars, libraryMap, parsed, vmaIx, ended>>

LoadLibraryAgain ==
  /\ \E lib \in Elf : CallLibrary(lib) /\ Parse(lib)
  /\ UNCHANGED <<guestVars, mainVars, procVars, libraryMap, vmaIx, ended>>

LoadLibrary ==
  /\ \E lib \in Elf : ~Cached(lib) /\ CallLibrary(lib) /\ Parse(lib)
  /\ UNCHANGED <<guestVars, mainVars, procVars, libraryMap, vmaIx, ended>>

\* with the assert compiled out
MissingLibrarySkipped ==
  /\ CallLibrary(None)
  /\ NextDependency
  /\ UNCHANGED <<guestVars, mainVars, procVars, libraryMap, parsed, vmaIx, ended>>

\* not on disk or no ELF file: loadLibrary returns a null pointer, and
\* loadDependencies asserts
MissingLibrary ==
  /\ CallLibrary(None)
  /\ EndBy("assert")

\* a fresh loader: made for the current Process, not relocated, no data yet
NewLoader == [relocatedFor |-> 0]

(***************************************************************************)
(* All dependencies are loaded: the loader is put into libraryMap, over an *)
(* older one in the case of an executable, and the call returns.           *)
(***************************************************************************)
InsertLoader ==
  /\ pc = "load"
  /\ Top.dep > Len(Needed[Top.file])
  /\ libraryMap' = [libraryMap EXCEPT ![Top.file] = NewLoader]
  /\ IF Len(stack) > 1
       THEN /\ stack' = <<[stack[2] EXCEPT !.dep = @ + 1]>> \o Tail(Tail(stack))
            /\ Goto("load")
            /\ UNCHANGED execLoader
       ELSE /\ stack' = <<>>
            /\ execLoader' = IF execLoader = None THEN Top.file ELSE execLoader
            /\ Goto(IF execLoader = None THEN "vdso" ELSE "collect")
  /\ UNCHANGED <<guestVars, mainVars, procs, mappedVMAs, mappings, symbols, parsed,
                 vmaIx, ended>>

-----------------------------------------------------------------------------
(* Process::processLoadRel.                                                *)

LoadVDSO ==
  /\ pc = "vdso"
  /\ libraryMap' =
       IF Cached(Vdso) THEN libraryMap ELSE [libraryMap EXCEPT ![Vdso] = NewLoader]
  /\ parsed' = IF Cached(Vdso) THEN parsed ELSE [parsed EXCEPT ![Vdso] = @ + 1]
  /\ vmaIx' = 1
  /\ Goto("collect")
  /\ UNCHANGED <<guestVars, mainVars, procVars, stack, ended>>

\* no loader has the VMA's name: load the file that the search path gives
CollectLibrary ==
  /\ pc = "collect"
  /\ vmaIx <= Len(mappedVMAs)
  /\ LET file == mappedVMAs[vmaIx].file IN
       /\ ~Cached(file)
       /\ Located[file] # None
       /\ ~Cached(Located[file])
       /\ Parse(Located[file])
  /\ UNCHANGED <<guestVars, mainVars, procVars, libraryMap, vmaIx, ended>>

\* the VMA has a loader ...
CollectMapping ==
  /\ pc = "collect"
  /\ vmaIx <= Len(mappedVMAs)
  /\ Cached(mappedVMAs[vmaIx].file)
  /\ mappings' = mappings \cup {vmaIx}
  /\ vmaIx' = vmaIx + 1
  /\ UNCHANGED <<guestVars, mainVars, procs, mappedVMAs, execLoader, symbols,
                 libraryMap, parsed, stack, pc, ended>>

\* ... or there is no way to get one
CollectNothing ==
  /\ pc = "collect"
  /\ vmaIx <= Len(mappedVMAs)
  /\ LET file == mappedVMAs[vmaIx].file IN
       /\ ~Cached(file)
       /\ Located[file] # None => Cached(Located[file])
  /\ vmaIx' = vmaIx + 1
  /\ UNCHANGED <<guestVars, mainVars, procVars, libraryMap, parsed, stack, pc,
                 ended>>

CollectDone ==
  /\ pc = "collect"
  /\ vmaIx > Len(mappedVMAs)
  /\ Goto("register")
  /\ UNCHANGED <<guestVars, mainVars, procVars, loadVars, ended>>

Loaders == {mappedVMAs[i].file : i \in mappings}

MappingsOf(f, as) ==
  {i \in mappings : mappedVMAs[i].file = f /\ mappedVMAs[i].as = as}

\* registerSyms finds one mapping with the flags of each symbol's segment
RegisterSyms ==
  /\ pc = "register"
  /\ \A f \in Loaders : \E i \in mappings : MappingsOf(f, "segments") = {i}
  /\ symbols' = Loaders
  /\ Goto("relocate")
  /\ UNCHANGED <<guestVars, mainVars, procs, mappedVMAs, execLoader, mappings,
                 loadVars, ended>>

\* it finds none, or a second one (which a plain mapping of the file can be)
NoMapping ==
  /\ pc = "register"
  /\ \E f \in Loaders :
        \/ MappingsOf(f, "plain") # {}
        \/ \A i \in mappings : MappingsOf(f, "segments") # {i}
  /\ EndBy("exception")

\* only the loaders that this Process has added
ApplyRelocationsNew ==
  /\ pc = "relocate"
  /\ libraryMap' =
       [f \in Files |-> IF f \in Loaders /\ libraryMap[f].relocatedFor = 0
                          THEN [libraryMap[f] EXCEPT !.relocatedFor = procs]
                          ELSE libraryMap[f]]
  /\ vmaIx' = 1
  /\ Goto("environment")
  /\ UNCHANGED <<guestVars, mainVars, procVars, parsed, stack, ended>>

(***************************************************************************)
(* applyRelocations writes the addresses that the Process has for the      *)
(* imported symbols into the file image of every loader, cached or new.    *)
(***************************************************************************)
ApplyRelocations ==
  /\ pc = "relocate"
  /\ libraryMap' =
       [f \in Files |-> IF f \in Loaders
                          THEN [libraryMap[f] EXCEPT !.relocatedFor = procs]
                          ELSE libraryMap[f]]
  /\ vmaIx' = 1
  /\ Goto("environment")
  /\ UNCHANGED <<guestVars, mainVars, procVars, parsed, stack, ended>>

\* a symbol of a library that is not mapped into this Process
UndefinedSymbol ==
  /\ pc = "relocate"
  /\ \E f \in Loaders : \E i \in DOMAIN Needed[f] : Needed[f][i] \notin symbols
  /\ EndBy("exception")

-----------------------------------------------------------------------------
(* validateUserspace: checkEnvironment, then validateProcess.              *)

\* of a task without an mm the read may still find active_mm
CheckEnvironment ==
  /\ pc = "environment"
  /\ Goto("validate")
  /\ UNCHANGED <<guestVars, mainVars, procVars, loadVars, ended>>

NoEnvironment ==
  /\ pc = "environment"
  /\ ~HasMm(task)
  /\ EndBy("exception")

\* one image for all code mappings that are not libraries of the search path
CodeImageExec(v) ==
  IF v.file \in Programs THEN execLoader
  ELSE IF Cached(v.file) THEN v.file
  ELSE None

(***************************************************************************)
(* validateCodePage's choice of the image to compare the mapping with: the *)
(* executable's if the process name ends in the mapping's name, else the   *)
(* cached one of that name, if there is one.                               *)
(***************************************************************************)
CodeImage(v) ==
  IF v.file \in Tails[binaryName] THEN execLoader
  ELSE IF Cached(v.file) THEN v.file
  ELSE None

ValidateVMA ==
  /\ pc = "validate"
  /\ vmaIx <= Len(mappedVMAs)
  /\ vmaIx' = vmaIx + 1
  /\ UNCHANGED <<guestVars, mainVars, procVars, libraryMap, parsed, stack, pc,
                 ended>>

ValidateDone ==
  /\ pc = "validate"
  /\ vmaIx > Len(mappedVMAs)
  /\ Goto(AfterTask)
  /\ UNCHANGED <<guestVars, mainVars, procVars, loadVars, ended>>

-----------------------------------------------------------------------------
Kernint ==
  /\ ended = "no"
  /\ \/ ListTasks \/ NextTask \/ ScanFinished \/ CheckTerminated
     \/ CheckKernelTask \/ ReadExeName \/ NoExeName \/ MakeProcess
     \/ GetVMAInfo \/ LoadExec \/ NoExecFile \/ FindLibrary \/ LoadLibrary
     \/ MissingLibrary \/ InsertLoader \/ LoadVDSO \/ CollectLibrary
     \/ CollectMapping \/ CollectNothing \/ CollectDone \/ RegisterSyms
     \/ NoMapping \/ ApplyRelocations \/ UndefinedSymbol \/ CheckEnvironment
     \/ NoEnvironment \/ ValidateVMA \/ ValidateDone

Guest == ended = "no" /\ \E t \in Tasks : Exec(t) \/ Exit(t)

Next == Kernint \/ Guest \/ (ended # "no" /\ UNCHANGED vars)

Spec == Init /\ [][Next]_vars

\* kernint is one thread that runs until it ends; the guest need do nothing
FairSpec == Spec /\ WF_vars(Kernint)

-----------------------------------------------------------------------------
(* Properties.                                                             *)

Labels == {"single", "list", "next", "listed", "kernelTask", "name", "process",
           "vmas", "exec", "load", "vdso", "collect", "register", "relocate",
           "environment", "validate"}

(***************************************************************************)
(* Every variable has its type.                                            *)
(***************************************************************************)
TypeOK ==
  /\ image \in [Tasks -> Programs \cup {NoMm, Gone}]
  /\ execs \in [Tasks -> 0..MaxExecs]
  /\ mode \in {"single", "list"}
  /\ todo \subseteq Tasks
  /\ task \in Tasks \cup {None}
  /\ binaryName \in Programs \cup {None}
  /\ nameExecs \in 0..MaxExecs
  /\ procs \in Nat
  /\ mappedVMAs \in Seq(Vma)
  /\ execLoader \in Files \cup {None}
  /\ mappings \subseteq DOMAIN mappedVMAs
  /\ symbols \subseteq Files
  /\ libraryMap \in [Files -> Loader \cup {None}]
  /\ parsed \in [Files -> Nat]
  /\ stack \in Seq([file : Files, dep : Nat \ {0}])
  /\ vmaIx \in Nat
  /\ pc \in Labels
  /\ ended \in {"no", "finished", "exception", "assert"}

(***************************************************************************)
(* A loader is in libraryMap only with all the libraries it needs: it is   *)
(* inserted after loadDependencies has returned, however deep the recursion*)
(* and whichever process asked first.  isDependency and the symbol lookup  *)
(* walk from a cached loader to its dependencies without a check.          *)
(***************************************************************************)
LibraryMapClosed ==
  \A f \in Files : Cached(f) =>
     \A i \in DOMAIN Needed[f] :
        Needed[f][i] # None /\ Cached(Needed[f][i])

(***************************************************************************)
(* A library is read from disk and parsed once, by whatever path through   *)
(* the DT_NEEDED graph, the VMAs and the processes it is reached; and no   *)
(* load is in progress twice.  Only executables are parsed again, once for *)
(* each process.                                                           *)
(***************************************************************************)
ParsedOnce ==
  /\ \A f \in Files \ Programs : parsed[f] <= 1
  /\ \A f \in Programs : parsed[f] <= procs
  /\ \A i, j \in DOMAIN stack : stack[i].file = stack[j].file => i = j

(***************************************************************************)
(* When the mappings of a process are validated, every loader that was     *)
(* found for one of them carries the addresses of this process, although   *)
(* the cache keeps the loaders of the processes before it: processLoadRel  *)
(* relocates all of them again.                                            *)
(***************************************************************************)
RelocatedForThisProcess ==
  pc \in {"environment", "validate"} =>
     /\ Loaders \subseteq symbols
     /\ \A f \in Loaders : libraryMap[f].relocatedFor = procs

(***************************************************************************)
(* A mapping is compared with the image of its own file, unless the task   *)
(* has called exec since main read its name, or the file's path is a tail  *)
(* of the program's (the code compares tails, not names).  In particular   *)
(* no image is chosen by dereferencing a null execLoader, although the     *)
(* constructor of a Process for a task that has exited leaves one.         *)
(***************************************************************************)
ComparedWithOwnFile ==
  pc = "validate" => \A i \in DOMAIN mappedVMAs :
     LET v == mappedVMAs[i] IN
       /\ execLoader # None
       /\ \/ CodeImage(v) \in {v.file, None}
          \/ execs[task] > nameExecs
          \/ v.file \in Tails[binaryName] \ {binaryName}

(***************************************************************************)
(* The scan comes to an end, whatever the guest does meanwhile: the loads  *)
(* of dependencies do, and no task is visited twice.                       *)
(***************************************************************************)
ScanEnds == <>(ended # "no")
=============================================================================
