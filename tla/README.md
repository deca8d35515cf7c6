# Verification of kernel_integrity

kernel_integrity examines the memory of a running Linux guest from outside
(through libvmi) and reports what an unmodified kernel and unmodified programs
could not have put there. It rebuilds the text that the guest *should* have
from the ELF files of its kernel, modules, programs and libraries, and compares
it with what the guest *has*; and it examines the pointers in stacks and data.
The guest is not paused meanwhile: it forks, execs, exits, maps pages and
patches its own text between any two reads.

A report is worth something only if both directions hold: what has not been
changed is not reported, and what has been changed does not slip through
because of an ordering, a stale read or an off-by-one. That is what these
modules state, check (TLC) and, for the central parts, prove (TLAPS).

Source paths below are relative to `src/src/`.

## 1. Inventory

| Component | Source | State | Operations |
| --- | --- | --- | --- |
| Kernel module loading | `kernel.cpp`, `elfmoduleloader.cpp` | `moduleMap` with null placeholders, its mutex, the threads' common list, the symbol store | `loadAllModules`, `loadModuleThread`, `loadModule`, `loadDependencies`, `initText` |
| Kernel text patching | `elfkernelspaceloader.cpp`, `elfkernelloader.cpp`, `elfmoduleloader.cpp` | the text in the file, `textSegmentContent`, `jumpEntries`, `jumpDestinations`, `smpOffsets` | `initText`: `applyAltinstr`, `applySmpLocks`, `applyMcount`, `applyJumpEntries` |
| Paravirt patching | `paravirt_patch.cpp`, `paravirt_state.cpp` | the guest's `pv_*_ops`, `ideal_nops` | `applyParainstr`, `patch_*`, `add_nops`, `updateState` |
| Kernel scan | `kernint.cpp`, `kernelvalidator.cpp` | the options, the global `validator`, the snapshots of an iteration | `validatePages`, `validatePage`, the signal handler |
| Kernel text comparison | `kernelvalidator.cpp` | the loop counter | `validateCodePage`, `isValidJmpLabel` |
| Kernel stacks and data | `kernelvalidator.cpp` | `stackAddresses`, `returnAddresses`, pointer counters | `validateStackPage`, `validateDataPage`, `findCodePtrs` |
| Task list access | `taskmanager.cpp` | none; the list is the guest's | `getTaskForPID`, `getTasks`, `nextTask` |
| Process scan, library cache | `kernint.cpp`, `process.cpp`, `taskmanager.cpp`, `elfuserspaceloader.cpp` | `libraryMap`, a `Process` with its VMAs and symbols | `main`'s `--pid` and `--list-procs`, `loadExec`, `loadVDSO`, `loadLibrary`, `processLoadRel`, `registerSyms` |
| Process text comparison | `processvalidator.cpp` | `bytesChecked` | `validateCodePage` |
| Process pointers | `processvalidator.cpp` | `glob_stats`, `PagePtrInfo` | `validateDataPage`, `showPtrs` |
| ELF parsing, relocation | `elffile.cpp`, `elffile64.cpp` | the mapped file, which relocation changes: `st_value` of its symbols, the fields | `parse*`, `applyRelocations`, `addSymbolsToStore` |
| Helpers, errors | `helpers.cpp`, `error.cpp`, `exceptions.cpp` | none | directory search, disassembly, error tables |

How they interact: `main` makes an `ElfKernelLoader`, whose `initText` patches
the kernel's text and whose module loading runs `loadModule` in several
threads. `loadModule` calls the parser, the parser calls `initImage` of the
module's loader, and that calls `loadModule` again for each dependency before
it relocates. The finished loaders are read by the kernel scan. The process
scan uses the same `TaskManager` for every process, and with it the library
cache.

What is hard:

* **Threads** share `moduleMap`; a placeholder makes other threads spin.
* **The guest moves.** A pid, a VMA list, a page list, a static key or a stack
  pointer is read once and used later.
* **Signals** call a handler that writes the options of the scan, between any
  two steps.
* **Order**: export symbols before importers relocate; parse a library before
  its loader can be found; patch before copying.
* **Windows and chunks**: byte loops that advance by more than one.
* **Errors end the program**: `assert` stays compiled in (the only `NDEBUG` is
  in `config.h`, which no source file includes), and `main` has no `try`. A
  failed assert and an exception are both an end of the run in these models.

What makes each component correct is stated with its module in section 3; the
places where it could go wrong are the `hazards` of `PROJECT.json`, each with
its line and the properties that watch it.

## 2. Modules

| Module | Models | Runs | Proofs |
| --- | --- | --- | --- |
| `ModuleLoading` | module loading by threads | `module_loading` | `ModuleLoading_proofs` |
| `ModuleLoadingAbs` | what it promises | as a property | refinement proved |
| `TextPatch` | both `initText`, paravirt patching | `text_patch` | `TextPatch_proofs` |
| `KernelScan` | kernel block of `main`, `validatePages`, signals | `kernel_scan`, `kernel_scan_handler` | `KernelScan_proofs` |
| `CodePage` | comparison of one kernel text page | `code_page` | `CodePage_proofs` |
| `TaskWalk` | walks over the live task list | `task_walk` | `TaskWalk_proofs` |
| `ProcessScan` | `--pid`, `--list-procs`, library cache | `process_scan` | `ProcessScan_proofs` |
| `UserCodePage` | comparison of one code mapping of a process | `user_code_page` | `CodePage_proofs` |
| `KernelPtrs` | pointers in kernel stacks and data, read-only data | `kernel_ptrs` | `KernelPtrs_proofs` |
| `PtrClass` | classification of a process's pointers | `ptr_class` | `PtrClass_proofs` |
| `Relocation` | relocation of modules and libraries, export of symbols | `relocation`, `relocation_locals` | `TextPatch_proofs` |

Two proof modules are about two models each, which they extend both:
`CodePage_proofs` (the comparison of text, in the kernel and in a process) and
`TextPatch_proofs` (what is compared with: patched and relocated files). So that
their names differ, `UserCodePage` has `UserInit`, `UserTypeOK` ..., and
`Relocation` has `RelocInit`, `RelocTypeOK` ... and `elfFile`.

They meet at stated interfaces. `TextPatch` ends with the text, `jumpEntries`
and `smpOffsets` that `CodePage` starts from, and its `Explained` is what
`CodePage` accepts. `ModuleLoading` takes the phases of `initText` as one step
after its dependencies. `KernelScan` takes the comparison of a page as one
step, `CodePage` is that step; `KernelPtrs` is what it does to a stack and to a
page of data. `ProcessScan` takes reading a task, comparing a mapping and
relocating a loader as steps; `TaskWalk`, `UserCodePage` and `Relocation` are
those, and `PtrClass` is what happens to the mappings that are not compared.

## 3. What each module says

### ModuleLoading

State: the guest's module list (`instances`), the threads' list with its mutex,
`moduleMap` (`"absent"`, a placeholder, loaded) with its mutex, a `loadModule`
call stack per thread, the parser's progress per module, and the store of
symbols. One action per critical section and per call: `LockMap`,
`FoundModule`, `AwaitModule`, `InsertPlaceholder`, `LoadModuleFile`,
`CallDependency`, `ApplyRelocations`, `AddSymbols`, `PublishModule`; and
`SpawnThread`, `JoinThreads`, `CheckModules` of the main thread. `Abort` is a
failed assert: missing file, module that the guest does not have.

* `OneLoaderPerModule`: no module is parsed twice, under whichever spelling of
  its name (`-` and `_`) and from whichever thread it is reached.
* `DependencySymbolsResolved`: a module is relocated only when its dependencies'
  symbols are in the store. Otherwise they silently resolve to 0.
* `WaitersDescend`: who spins waits for a thread that is at work further down
  the dependency order; so waits have no cycle.
* `LoadsInOrder`: it implements `ModuleLoadingAbs`, which loads each module
  once, after its dependencies, and ends with every listed module loaded.
* `LoadingEnds`: it ends, unless an assert ended it.

Bounds: three modules in a chain with a cross edge, one dependency entry in the
other spelling, every subset of them in the guest's list, three threads. A race
needs two threads and one module; the wait through a middle module needs three
of each. Fairness: weak on each thread and on `main` (the operating system
schedules every thread) and strong on the steps that take a mutex. The mutex is
`std::mutex`; a spinning thread releases it and yields each time round, so
that a waiting thread finds it free again and again. That it then takes it is
what the strong fairness assumes; the mutex promises nothing of the kind, and
`LoadingEnds` does not show that no thread starves on it.

### TextPatch

State: the file and the guest that is loaded, the loop (`stage`, `next`), the
text in the file (`elf`), `textSegmentContent` (`copy`), the three maps, and
the guest's static keys. One action per loop body, `CopyText`, `Fill`, and
`GuestTogglesKey`. A byte is an opcode or the k-th byte of something longer, so
that a call's operand is kept as its distance.

* `LoadedTextExplained`: what `initText` has built differs from the text of an
  unmodified guest only where the page scan can explain it. It covers the
  relocation of moved calls through two sections, the padding, what does not
  fit, and labels whose key the guest toggles while they are loaded.
* `PatchStaysInSite`: no step writes outside of the patch site it is at.

`applyMcount` and `applyJumpEntries` do not check that the site is in the copy.
With one that is not, the loader writes outside of its vector: the model stops
in `"undefined"` (`PatchBehindCopy`), of which the properties say nothing.

What the text of an unmodified guest is, `GuestAssumption` says of the guest's
kernel, which has addresses where the loader has a file: the forms that it may
have at each site (`GuestForms`), and the file's bytes everywhere else. The
memory itself is written out in `MCTextPatch`, with distances worked out by hand
and nops from a table, so that TLC compares the assumption and the loader with
bytes that neither has computed. Bounds: 80 bytes with every kind of site, and
seven behind `.text` with a second call of mcount; a call of mcount and a label
behind the copy; every set of three CPU
features; every state of three labels; paravirt calls of each kind with room
for 0 to 7 bytes and two clobber sets. The longest nop is 8 bytes, as in the
code, so that a gap of 10 is split. Operands are integers here and modulo 2^32
in the code: equality of the former gives equality of the latter.
A replacement never is longer than its site (`kernel_headers.h:62` says so);
without that the `uint8_t` length of the padding would wrap around. That the
code finds a site of the kernel by the file offset of `.text` (l.89) depends on
the layout of the file and is taken for granted. Sites do not overlap
(`GuestAssumption`). Modules have no jump labels here: the code does not apply
them (`applyJumpEntries` asserts), so that a label toggled in a module is
reported.

### CodePage

State: one page (image, memory, what the loader knows about it), the loop
counter, the accepted windows (history), the verdict. One action per outcome of
the loop's body. `Advance` is how far `i` moves for each patch that the scan
knows.

* `NoFalseAlarm`: a page in which only patch sites differ is found intact, if
  the sites are inside the page, not across a border of the hypercall page, and
  have three untouched bytes between them (`SitesApart`). The distance is what the code needs: with two, a site right
  behind another is met in its middle, because a window is one byte longer than
  its patch (`i += 5`, then `++`).
* `ChangesAccountedFor`: every changed byte behind the counter and outside of
  the hypercall page is in an accepted window (`BehindPatch`), or in a run of
  changes that goes on from such a window or from the hypercall page
  (`BehindHypercall`). This says exactly what may be passed over: the remainder
  of a run, of which only the first byte is looked at.
* `TypeOK` bounds the counter by five bytes behind the page.

What a patch site has in the image and in memory is `SiteAssumption`: a label in
one of its three forms, a lock prefix, a nop or empty jump that was replaced,
the rest of a nop that begins on the page before, and a call that the scan takes
for one of `copy_user_generic_unrolled`. Of the two nops of five bytes it needs
that they differ in the third byte at most, which is then 66 in one and 90 in
the other; the K8's and the P6's do (`kernel_headers.h:17`, l.27).

Bounds: 16 bytes hold two sites of five bytes and a gap; all pairs of sites in
all states, and one site with a foreign byte anywhere. The hypercall page, 4K of
a page of 2M, is four bytes of the 16 here, with one site, or a run of changes
from anywhere to anywhere. The nops are those of a
K8, where `ideal_nops[5]` and `ideal_nops[9]` differ.

### KernelScan

State: the options, the installed handler, the lifetime of the validator, the
guest's pages and tasks, and the snapshots of an iteration. Signals may come
before any step.

* `IterationComplete`: an iteration without a signal has examined every task's
  stack and every page in its snapshots as the options ask, the pages that both
  segments of a module claim included.
* `NothingNewAfterInterrupt`, `InterruptEndsScan`: after a signal no further
  page is chosen for a comparison and the scan comes to its end. It is not so of
  stacks: `pointerExamination` is tested once, in front of them
  (`kernelvalidator.cpp:83`), and the walk and the validation of the stacks that
  it has found go on.

`updateStackAddresses` reads one task per step while the guest forks and exits:
here any task that has been in the list since the walk began may be read,
`TaskWalk` says which are.
* Violated by the code: `HandlerTargetAlive`, see section 6.

Bounds: a text page, a page that both segments claim, an executable vmalloc
page of no module; two tasks. Iterations are not counted: the state returns.
Fairness: weak on the main thread's steps; none on the guest or on signals.

### TaskWalk

State: the guest's memory slots with their `next` links, `initTask`, a walk
(`it`, the end mark, the tasks found). There are three walks, each read of a
task and of a link a step of its own; the guest forks, exits and uses memory
again between them.

* `getTasks` begins and ends at `initTask`, which `TaskManager::init` has set to
  the task behind `init_task`: pid 1.
* `getTaskForPID` begins and ends at the task behind that, pid 2, which it does
  not look at.
* `updateStackAddresses` of the kernel scan begins and ends at `init_task`.

None of the three ends, so that the walk comes back to where it began.

* `SurvivorsFound`: a task that lives during the whole walk is found, and no
  task is returned twice, unless memory was used again during the walk. Pid 2
  is excepted for `getTaskForPID` (section 6).
* `WalkEnds`: a walk ends. Pids are bounded (`MaxPid`), so the guest cannot
  fork ahead of the walk for ever.

Bounds: six slots and pids up to 6: besides init_task and pids 1 and 2 three
tasks at a time, four in all, so that memory is used a second time. Fairness:
weak on the walk.

### ProcessScan

State: the guest's tasks (program, exited, reaped), the walk of `main`, the
`Process` (VMAs, symbols, execLoader), `libraryMap`, the recursion of
`loadLibrary`, what each loader is relocated for.

* `LibraryMapClosed`: whoever finds a loader in the cache finds the libraries
  it needs there too, after any history of processes.
* `ParsedOnce`: no library is parsed twice.
* `RelocatedForThisProcess`: when a mapping is compared, its loader's imports
  were resolved for this process and not for an earlier one.
* `ComparedWithOwnFile`: a mapping is compared with the file it maps; the
  exceptions, an exec between two reads and a library whose path is a tail of
  the program's, are named in the property.
* `ScanEnds`.

Bounds: two user tasks and a kernel task, four programs (one needs a missing
library, one is not on disk), libraries with shared and missing dependencies, a
second copy of one outside of the search path, at most one exec per task
(`MaxExecs`): the race needs one. Fairness: weak on the program. Assumed
(`DependencyAssumption`): no library needs itself; the code has no check, and a
cycle would be a recursion without end.

### UserCodePage

State: which pages of the mapping are present, `bytesChecked` in pages, the
read that is going on, and which pages were compared or given up.

* `OnlyAbsentUnchecked`: a page of text goes unchecked only if it was absent
  when it was to be read, or is the one behind a mapping smaller than the text.
* `LookedAtOnce`: no page is both compared and given up.
* `UserTypeOK`: no read goes behind a mapping that has all of the text.
* `ValidationEnds`.

A mapping may be smaller than the text. Then the page directly behind it is
skipped, and the length of the next read wraps around: the text is compared with
what the process has there, or the read throws (section 6).

Bounds: text of four pages, in a mapping of five or of two, and one page and four
pages of address space behind it. Fairness: weak on the loop.

### KernelPtrs

State: the stack or page that is examined, the counter of the byte loop,
`returnAddresses`, how far the second loop of `validateStackPage` has come,
`oldRetFunc`, and what was said of which position. A kernel pointer is a
quadword whose upper half is `ffffffff`; what is known of it (`About`: a symbol,
code of a module, behind the text that was loaded, a jump label, behind a call,
the function it is in, the targets of the last call site) is a function of its
lower half, as it is in the code, where all of it comes from tables. One action
per outcome of a loop's body.

* `PointersAccountedFor`: neither loop passes a pointer over that it cannot
  explain, but in and directly behind a quadword of ones and behind
  `bp_int3_addr`; and the count is that of the positions.
* `ReturnsLinked`: of two neighbouring return addresses the upper one follows
  from the function of the lower one (`FollowsFrom`), or it is reported, or that
  function is unknown. Only the first is free.
* `RoDataReported`: each changed byte of the kernel's read-only data is
  reported, but for the pointer to `kvm_guest_apic_eoi_write` and what is behind
  the page that should be zero. Of a module's nothing can be said: the place in
  its read-only data is reckoned from the kernel's address (l.583), so that the
  page is compared with other bytes (`loaded`) than those of its file (`file`).
* `TypeOK` bounds the counter by twelve bytes behind the page.

Bounds: pages of 32 bytes, four quadwords of every kind (zero, ones, a pointer
of each class), aligned or not, so that pointers stand directly behind ones and
straddle the end; stacks with chains of four return addresses; read-only data
with a pointer and a byte changed anywhere, and pages of a module that are
compared with other bytes. The stack pointer is at least 4
bytes above the start of its stack (with 0 the code reads below its buffer).
`symbols.callTargets` is the target set of the last call site (`targets`).

### PtrClass

State: the section of the process that is searched, the position in it, the
pointers collected per executable mapping, and the statistics of the section
and of the process. Instructions are data: `At` is what the disassembler finds
at a byte (a length and whether it is a call or a return), and the walks of
`helpers.cpp` are operators over it.

* `StatsAgree`: no assertion on the statistics fails.
* `PointersCounted`: at the end each quadword that points into an executable
  mapping is counted exactly once, whatever was merged on the way. The loop's
  two exits (own file, program headers) are in its conditions.
* `UnknownUnlessExplained`: a pointer into code that is not called unknown has
  a name, is the entry or the beginning of a section, or stands behind a call on
  an instruction that the code really comes to. All sections at its place are
  code. Here the walk is stated as a path, not as the loop.

Bounds: seven mappings (program, library, vdso, stack, an executable mapping of
a file that is no library; library and vdso are adjacent), a library text of 20
bytes with calls that begin in the middle of instructions, and three quadwords
per section, in every combination of 16 targets on the stack and of fewer in
the data of program and library. Assumed
(`SymbolAssumption`): the symbol before a pointer into code is in the same
mapping, or too far away to be used; the code does not check it.

### Relocation

State: the file with what relocation writes into it (`image`, and `symValue`,
the `st_value` of its symbols), for whom it is relocated, the two loops with
what they keep between rounds (`target`, `symSection`), and the store. A
relocation is one action, `ApplyRela`; a library is relocated again for every
process, in the same file.

* `FieldsResolved`: when the relocations have been applied, each field holds
  what the ELF specification says for this owner, whatever was relocated before
  in the same file. The right-hand side (`RightValue`) is computed from the
  symbols as they were in the file and, for addresses in a library itself, from
  the base that the owner has it at (RELATIVE is B + A). The code leaves this
  base out, as its TODOs say: such fields are excepted (`BaseLeftOut`), so that
  of a library that was moved only the imports are spoken of, and of a program
  at fixed addresses every field but PC32 ones.
* `ExportedAddresses`: the store has, by name, the guest's addresses of a
  module's functions and of its symbols that a relocation refers to, if no
  other symbol, of this module or of an earlier one, is stored under the name.
* `LocalNamesUnique` (run `relocation_locals`, violated): local symbols have
  names of their own in the store, as the code's comment has it.
* `RelocTypeOK`: a module's relocations are written inside of allocated sections.

The store is a function from stored names to addresses: a name, and whether it
has the suffix of local symbols. `addSymbolAddress` is libdwarfparser's; as the
code does not show whether it replaces an address that is there, `Export` does
either. The ends of the program are `FailRela` and `FailSection`: an SHT_REL
section, relocations without a table of symbols (those of a static program), a
module without `.data..percpu`, a missing target, section or import, and an
unknown type.

Bounds: modules with text, data, per-cpu data, `.altinstructions`, init code
that the guest has freed, an import, an absolute symbol, two local functions
of one name and one of a name that an earlier module has used, two or three
relocations per section in both orders, and one module for each way that a
section ends the program; libraries with a PLT and a data section, at two
bases, the same as programs at fixed addresses, and two processes that resolve
differently, relocated three times (`MaxRounds`): once, for the other process,
and for the first again. Left out of `FieldsResolved`: libraries with a field that the code misplaces
(`AllPlaced`), fields overwritten by a too wide `R_X86_64_32` (section 6).
Of the files it is assumed (`WellFormed`) what compiler, linker and guest see
to: a relocation's field lies in the section it is for (of a library, in one
section at most), fields do not overlap, and a module's symbols have offsets
that are smaller than the guest's addresses, so that the code can tell a value
that it has already replaced.
Words are integers; the code computes modulo 2^64, so that equal values here are
equal there.

## 4. What is proved

| Theorem | Module | States |
| --- | --- | --- |
| `TypeCorrect`, `LoadedOnce`, `RelocatedAgainstDependencies`, `NoWaitCycle` | `ModuleLoading_proofs` | the type invariant and the three safety invariants of `ModuleLoading` |
| `ImplementsOrderedLoading` | `ModuleLoading_proofs` | `ModuleLoading` implements `ModuleLoadingAbs` |
| `TypeCorrect`, `NothingElseSkipped`, `NoneReportedFalsely` | `CodePage_proofs` | the counter's bound; `ChangesAccountedFor`; `NoFalseAlarm` |
| `TypeCorrect`, `PatchesStayInSite`, `LoadedTextIsRight` | `TextPatch_proofs` | lengths and types; `PatchStaysInSite`; `LoadedTextExplained` |
| `RelocTypesCorrect`, `FieldsAreResolved`, `ExportsAreRight` | `TextPatch_proofs` | all three invariants of `Relocation` |
| `ReadsStayInMapping`, `OnlyAbsentPagesPass`, `NoPageLookedAtTwice` | `CodePage_proofs` | the safety invariants of `UserCodePage` |
| `TypeCorrect`, `PointersCorrect`, `ReturnsCorrect`, `RoDataCorrect` | `KernelPtrs_proofs` | all four invariants of `KernelPtrs` |
| `TypeCorrect`, `StatsCorrect`, `CountsCorrect`, `UnknownsCorrect` | `PtrClass_proofs` | all four invariants of `PtrClass` |
| `TypeCorrect`, `SurvivorsAreFound` | `TaskWalk_proofs` | the type invariant and `SurvivorsFound` of `TaskWalk` |
| `TypeCorrect`, `IterationsComplete`, `NothingChosenAfterInterrupt` | `KernelScan_proofs` | the type invariant, `IterationComplete` and `NothingNewAfterInterrupt` |
| `TypeCorrect`, `CacheClosed`, `EachParsedOnce`, `RelocationIsOwn`, `ComparisonIsOwn` | `ProcessScan_proofs` | the five safety invariants of `ProcessScan` |

They hold for all values of the constants that satisfy the modules'
assumptions: any module list, any acyclic dependency graph (`AcyclicAssumption`,
by a rank; `depmod` refuses cycles, and with one the code deadlocks), spellings
that a name normalises (`NameAssumption`), at least one thread
(`ThreadAssumption`); any page size, contents and patch set (`PageAssumption`),
for `NoFalseAlarm` with sites of the forms that the guest's kernel makes
(`SiteAssumption`); any ELF file, template and length of nops (`FileAssumption`:
a replacement fits its site, and paravirt sites are in `.text` or behind it),
for `LoadedTextExplained` with the memory of an unmodified guest
(`GuestAssumption`); any file that a compiler has made, owner and earlier
content of the stores (`RelocationAssumption`); any number of task_structs and pids
(`WalkAssumption`); an address space and a text that are small against 2^64 (`SizeAssumption`); a page
of more than eight bytes (`AreaAssumption`); mappings of a process that do not
overlap, and symbols that are in the pointer's mapping or too far away
(`PtrClassAssumption`, `SymbolAssumption`); libraries none of which needs itself, and a vdso that needs
none (`DependencyAssumption` and `FileAssumption` of `ProcessScan`). TLC
evaluates each assumption in the runs of its module.

*ModuleLoading.* None of the three invariants is inductive. The inductive one,
`IInv`, adds: who holds each mutex (`LockInv`); that the top of a call stack
fits the thread's place in the code (`TopInv`), each frame below it is at the
dependency loop (`CallerInv`), and frames descend in rank (`ChainInv`); that a
call is for a listed module or for a dependency of its caller (`ArgInv`); that
a placeholder stands for exactly one frame of one thread (`MapInv`), which
gives `LoadedOnce`; that dependencies before the loop's index are loaded
(`DepInv`) and the parser's phase agrees with the frame (`ParseInv`,
`LoaderInv`), which gives `RelocatedAgainstDependencies`; and what the list and
the main thread know of each other (`ListInv`). A waiting thread's call is for
a name with a placeholder, `MapInv` gives its owner and `ChainInv` the descent.
The refinement uses the same invariant: only `ApplyRelocations`,
`AddSymbols` and the end are steps of the abstract loader, the others stutter.

*CodePage.* `TypeOK` and `ChangesAccountedFor` together are inductive; the work
is in the cases of `Advance`, each of which lays a window over what it skips.
`NoFalseAlarm` is not inductive. `AheadInSites` is: what differs from the
counter on is in sites whose differing bytes the scan has not touched, so that
it comes to each site at the first byte that differs there. There one of the
patches is recognised, and its window covers what differs in the site and at
most three bytes behind it (`Covers`, one lemma per form of site); with
`SitesApart` those are in front of the next site.

*TextPatch.* `Inv` adds to `TypeOK` how much of the text the copy has at each
stage (`CopyOfText`): without it the last page could end before `.text` does.
The lemmas on bytes say how long a patch is: nops fill exactly what is asked
for, and each way to patch a call uses no more than the site (`PatchFits`), so
that a patch and its padding are as long as the site (`PaddedType`).
`LoadedTextExplained` speaks of the last state only. The invariant under it
(`LoadInv`) says of every state which sites are done (`DoneSites`: those whose
entry the loop of their table has passed), that a byte in no such site is still
that of the file, that each such site has one of the forms that the loader
writes there (`Built`), and that the maps know its lock prefixes and labels
(`MapsInv`). As sites do not overlap, a step makes one site done and leaves the
others and the bytes between them (`WriteBuilt`); and a paravirt call is still
unpatched when its turn comes, so that what the loader leaves of it is what the
guest's kernel has left. Where the loader's form is not the guest's, both are
lock prefixes, forms of one label, or a nop and an atomic nop: what `Explained`
asks for.

*Relocation.* What is written for one relocation depends on `st_value`, which an
earlier one may have replaced by an address. `RelocInv` says that each symbol's
value is what the file had or its address (`SymInv`), an address if a relocation
that was applied refers to it (`ReferencedInv`), and that each field done in
this round is resolved for this owner (`ResolvedInv`); earlier fields stay so
because fields are apart.

*TaskWalk.* The list is sorted by pid, as the guest appends and pids ascend, so
that the order of pids can stand for the order along the links, and no
reachability, which would need induction, is spoken of. A walk comes to the
tasks in the order of their pids from its start on, those before the start last
(`Place`). A task that was unlinked while the walk is on it still leads to a
task that is not behind any that has stayed (`LeadsOn`, for the tasks that the
walk may be on, `Reach`); what has stayed and has been passed by the walk
(`Passed`) has been found.

*UserCodePage.* The inductive invariant relates the history to the counter:
what is behind it was compared or absent, what is in front was not looked at
(`LookedAt`, `Accounted`).

*KernelScan.* `Inv` adds to `TypeOK` what the options are before and behind the
handler (`OptionsInv`), and that a stack or page of the iteration which is not
covered is still in its work list, or is the current page with the right
comparison chosen (`StacksInv`, `PagesInv`).

*ProcessScan.* `IInv` has where the construction of a `Process` is (`Control`);
for each load in progress, that the entries before its own are in the cache,
that its entry is the file of the call above it, and that ranks descend
(`FramesReady`, `FramesChained`, `FramesDescend`): so a loader's dependencies
are in the cache when it is inserted, and no file is called that is on the
stack. `ParsedInv` says that what was parsed is on the stack or in the cache
ever since. `ImageInv` says that as long as the task has not called exec since
its name was read, it runs that program or none, and the executable's image is
that program's.

*KernelPtrs.* For the pointers (`SearchInv`): every quadword that the loop has
passed is explained, and the count is that of the reported positions. For the
return addresses (`Chain`): the function kept from the round before is that of
the nearest address below. For read-only data (`RoDataInv`): what is behind the
counter is equal, reported or excused.

*PtrClass.* `Inv` has for each mapping that the pointers kept with it lie in it
and are not its first byte (`Collected`). As mappings do not overlap, a pointer
is kept with one mapping only, so that all statistics agree on its flags
(`Sound`), and `SoundAgree` gives that the assert holds. For the counts,
`CountInv` says of each address that what is kept of it are as many entries as
there were positions in the section (`ScanInv`, a bijection of the two), and
that the merged count is the number of positions in the sections before. For the
walk over instructions, the function that the loop computes is the least set
that has the symbol and is closed under what follows an instruction
(`WalkExists`), and a byte in it is reached by a path, since a smallest
counterexample would have one in front of it.

## 5. What is only model-checked

Liveness (`LoadingEnds`, `ScanEnds`, `WalkEnds`, `ValidationEnds`,
`InterruptEndsScan`): fairness and `ENABLED` are out of the prover's reach. All
safety invariants and action properties of the passing runs are proved.

## 6. Where code and text disagree

Runs that TLC ends with a counterexample, one property each:

* `kernel_scan_handler`: the handler's `validator` is the address of a local of
  a block that has been left while the handler stays installed. A signal
  during the process validation writes dead stack and does not end the program.

* `relocation_locals`: "Store local variables with uniq names": the suffix is the
  same for all, so that equal names of local symbols replace each other.

Met while modelling, with no run of their own; the models have what the code
does:

* `main`'s comment that libraries must be loaded again for each process; the
  call that does it is commented out. (Offsets are not reused all the same:
  `RelocatedForThisProcess`, `FieldsResolved`.)
* `getTaskForPID` "goes through all the children of the init process", but never
  compares the task it starts from, pid 2: `terminated(2)` is true while
  kthreadd lives (`GetTaskForPID`, excepted in `SurvivorsFound`).
* The guards that are to skip the identity mapping and the c9 addresses compare
  bits that their mask has cleared, and are never true (`MaskedEquals`).
* The comment of `terminated` (`taskmanager.h:90`) states the opposite of what
  it returns and of how it is used.
* `applySmpLocks` chooses the lock prefix by `X86_FEATURE_UP` the wrong way
  round; it is not reported because the page scan accepts either prefix.
* Of a run of changed bytes that begins in the hypercall page and goes on behind
  it nothing is shown, because the byte in front of the first one behind it is
  taken for shown (`FirstOfRun`, `Candidate`).
* A page of a module's read-only data is compared with bytes outside of that
  data, because its place is reckoned from the kernel's section (`Area`).
* A call of mcount or a jump label outside of the copied text is patched all the
  same, outside of the vector (`PatchBehindCopy`).
* If a mapping is smaller than the text, the length of a read wraps around and
  what is behind the mapping is compared with the file (`ToRead`).
* "RELATIVE: B + A": the base of a library is left out of what is written for
  RELATIVE and for the library's own symbols (`BaseLeftOut`).
* A library's first field in each section is written in the wrong place,
  because `locInElf` is computed from the section before (`LocInElf`).
* A relocation against an absolute symbol ends the program before the case for
  it is reached (`Fails`); `R_X86_64_32` writes eight bytes (`Written`).
* "Go through every byte": the pointer directly behind a quadword of ones and
  the last quadword are not looked at (`SkipOnes`, `InPageLoop`).
* A kernel address is too large for `strtol`, so that no return address is ever
  accepted because of the call before it (`CallAddr`).
* The test for the exception table has no upper bound: every pointer into a
  module's text passes it (`afterTable`).
* The loop over a process's mappings breaks at the section's own file before it
  looks at the address, and never reaches the mappings behind it (`Breaks`).
* `showPtrs` dereferences a loader before it tests it for null (`NoLoader`).
* The operand of a call of `copy_user_generic_unrolled` is read one byte too far
  (`kernelvalidator.cpp:424`: `i` is the operand's first byte already), so that
  such a call is not recognised: what is recognised is a call whose operand is
  followed by the right bytes (`IsUnrolledSite`). That a replaced call is in the
  image as in memory is `applyAltinstr`'s doing.

## 7. What is not modelled

* The IDT pages (`validateDataPage`, l.525-573): each entry is compared by
  itself and printed; there is no state for a property to relate.
* The parsing of ELF headers into sections and segments, and `initData`: the
  data images that it builds have no reader (`getDataSegment` is never called).
* `findMemAddressOfSegment`: `Relocation` takes a section's address in the guest
  as given; `ParavirtState::updateState` likewise for the guest's ops and nops.
* The names of unnamed VMAs, and the reading of arguments and environment (that
  `checkEnvironment` reads them of a task that may be gone is in `ProcessScan`).
* `parseSystemMap`, command line, printing, directory search, error tables and
  exception classes: sequential, no state that lasts. Where an exception ends
  the program the models say so.
* libvmi, libdwarfparser, capstone and the guest are external: what the modules
  have of them is how the code uses them.

## 8. Plan

1. Composition: the page that `TextPatch` builds given to `CodePage`, so that
   `SitesApart` becomes a condition on the files; the symbols that `Relocation`
   exports given to `ModuleLoading`'s store.
2. More of the system: the VMA list, which the guest changes while
   `getVMAInfo` walks it, and the naming with the vvar offset that the first
   process lacks.
