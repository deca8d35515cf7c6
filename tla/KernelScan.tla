---------------------------- MODULE KernelScan ----------------------------
(***************************************************************************)
(* kernint's kernel validation (kernint.cpp, KernelValidator): main builds *)
(* a validator, publishes it to the signal handler, and runs validatePages,*)
(* which, once or until a signal clears loopMode, validates the kernel     *)
(* stacks and then every page that the guest's kernel maps executable.  The*)
(* guest runs on: tasks come and go and pages are mapped and unmapped at   *)
(* any time.  Signals arrive between any two steps.  What a page's         *)
(* comparison does is module CodePage; the walk over the guest's task list *)
(* is module TaskWalk.                                                     *)
(***************************************************************************)
EXTENDS Integers

CONSTANTS
  Pages,        \* page frames that the kernel may map
  Info,         \* what kernint knows of a page: see PageInfo
  Tasks         \* tasks of the guest; each has a kernel stack

(***************************************************************************)
(* The address of a page is that of the guest, of which only the bits that *)
(* are tested matter: bits 40 to 47, and those above them.                 *)
(***************************************************************************)
PageInfo ==
  [bits48up : 0..15, bits40to47 : 0..255,
   code : BOOLEAN,     \* getModuleForAddress()->isCodeAddress
   data : BOOLEAN,     \* getModuleForAddress()->isDataAddress
   exec : BOOLEAN]     \* vmi->isPageExecutable

ASSUME InfoAssumption == Info \in [Pages -> PageInfo]

Signals == {"SIGINT", "SIGTERM"}
Options == [loopMode : BOOLEAN, codeValidation : BOOLEAN,
            pointerExamination : BOOLEAN]

VARIABLES
  live,        \* guest: its tasks
  listed,      \* guest: those that have been in the list since the walk began
  mapped,      \* guest: the pages its kernel maps
  command,     \* the options on the command line
  label,       \* where main is
  options,     \* val.options
  validator,   \* "null" or "val", which main's kernel block declares
  handlers,    \* signals with kernint's handler
  stackAddresses, \* tasks whose stacks updateStackAddresses found
  stacksToDo,
  snapshot,    \* executablePageMap
  pagesToDo,
  current,     \* the page in validatePage
  covered,     \* history: what this iteration validated or reported
  interrupted, \* history: the handler has run in the kernel block
  wroteDead    \* history: the handler has run behind the kernel block

guest == <<live, listed, mapped>>
progress == <<stackAddresses, stacksToDo, snapshot, pagesToDo, current, covered>>
signal == <<validator, handlers>>
history == <<interrupted, wroteDead>>
vars == <<guest, command, label, options, signal, progress, history>>

Labels == {"construct", "setOptions", "setValidator", "install", "iterate",
           "updateStacks", "stacks", "getPages", "pages", "validatePage", "codePage",
           "dataPage", "loop", "processes", "killed"}

Init ==
  /\ live \in SUBSET Tasks
  /\ listed = {}
  /\ mapped \in SUBSET Pages
  /\ command \in Options
  /\ label = "construct"
  /\ options \in Options       \* not initialised before the constructor
  /\ validator = "null"
  /\ handlers = {}
  /\ stackAddresses = {}
  /\ stacksToDo = {}
  /\ snapshot = {}
  /\ pagesToDo = {}
  /\ current \in Pages
  /\ covered = {}
  /\ interrupted = FALSE
  /\ wroteDead = FALSE

-----------------------------------------------------------------------------
(* The guest.                                                              *)

Fork ==
  /\ \E t \in Tasks \ live :
       /\ live' = live \cup {t}
       /\ listed' = IF label = "updateStacks" THEN listed \cup {t} ELSE listed
  /\ UNCHANGED <<mapped, command, label, options, signal, progress, history>>

Exit ==
  /\ \E t \in live : live' = live \ {t}
  /\ UNCHANGED <<listed, mapped, command, label, options, signal, progress, history>>

MapPage ==
  /\ \E p \in Pages \ mapped : mapped' = mapped \cup {p}
  /\ UNCHANGED <<live, listed, command, label, options, signal, progress, history>>

UnmapPage ==
  /\ \E p \in mapped : mapped' = mapped \ {p}
  /\ UNCHANGED <<live, listed, command, label, options, signal, progress, history>>

GuestStep == Fork \/ Exit \/ MapPage \/ UnmapPage

-----------------------------------------------------------------------------
(* main and the constructor.                                               *)

Goto(here, there) == label = here /\ label' = there

Default == [loopMode |-> FALSE, codeValidation |-> TRUE, pointerExamination |-> TRUE]
AllOff == [o \in DOMAIN Default |-> FALSE]

Construct ==
  /\ Goto("construct", "setOptions")
  /\ options' = Default
  /\ UNCHANGED <<guest, command, signal, progress, history>>

SetOptions ==
  /\ Goto("setOptions", "setValidator")
  /\ options' = command
  /\ UNCHANGED <<guest, command, signal, progress, history>>

SetValidator ==
  /\ Goto("setValidator", "install")
  /\ validator' = "val"
  /\ UNCHANGED <<guest, command, options, handlers, progress, history>>

\* SIGINT first
InstallHandler ==
  /\ label = "install"
  /\ handlers' = IF handlers = {} THEN {"SIGINT"} ELSE Signals
  /\ label' = IF handlers = {} THEN "install" ELSE "iterate"
  /\ UNCHANGED <<guest, command, options, validator, progress, history>>

\* only the loop is ended
HandledLoopOnly == [options EXCEPT !.loopMode = FALSE]

\* only the validation is turned off
HandledButLoop == [AllOff EXCEPT !.loopMode = options.loopMode]

Handled == AllOff

(***************************************************************************)
(* A signal that kernint handles writes the options of *validator, in the  *)
(* kernel block and behind it, where val is no longer there.               *)
(***************************************************************************)
HandleSignal ==
  /\ handlers # {}
  /\ validator # "null"
  /\ label # "killed"
  /\ IF label = "processes"
     THEN /\ wroteDead' = TRUE
          /\ UNCHANGED <<options, interrupted>>
     ELSE /\ options' = Handled
          /\ interrupted' = TRUE
          /\ UNCHANGED wroteDead
  /\ UNCHANGED <<guest, command, label, signal, progress>>

\* the default action
Kill ==
  /\ handlers # Signals
  /\ label # "killed"
  /\ label' = "killed"
  /\ UNCHANGED <<guest, command, options, signal, progress, history>>

-----------------------------------------------------------------------------
(* validatePages.                                                          *)

BeginIteration ==
  /\ label = "iterate"
  /\ covered' = {}
  /\ IF options.pointerExamination
     THEN /\ stackAddresses' = {} /\ stacksToDo' = {}
          /\ listed' = live
          /\ label' = "updateStacks"
     ELSE /\ label' = "getPages"
          /\ UNCHANGED <<stackAddresses, stacksToDo, listed>>
  /\ UNCHANGED <<live, mapped, command, options, signal, snapshot, pagesToDo, current, history>>

\* updateStackAddresses reads a task that is or was in the list; which ones it
\* comes to is module TaskWalk
AddStackAddress ==
  /\ label = "updateStacks"
  /\ \E t \in listed \ stackAddresses : stackAddresses' = stackAddresses \cup {t}
  /\ UNCHANGED <<guest, command, label, options, signal, stacksToDo, snapshot,
                 pagesToDo, current, covered, history>>

\* the stacks of the list as it is, not of what was read of it
StackAddressesListed ==
  /\ Goto("updateStacks", "stacks")
  /\ stacksToDo' = listed
  /\ UNCHANGED <<guest, command, options, signal, stackAddresses, snapshot,
                 pagesToDo, current, covered, history>>

\* the walk is back at init_task
StackAddressesRead ==
  /\ Goto("updateStacks", "stacks")
  /\ stacksToDo' = stackAddresses
  /\ UNCHANGED <<guest, command, options, signal, stackAddresses, snapshot,
                 pagesToDo, current, covered, history>>

ValidateStackPage ==
  /\ label = "stacks"
  /\ IF stacksToDo = {}
     THEN /\ label' = "getPages"
          /\ UNCHANGED <<stacksToDo, covered>>
     ELSE \E t \in stacksToDo :
            /\ stacksToDo' = stacksToDo \ {t}
            /\ covered' = covered \cup {<<"stack", t>>}
            /\ UNCHANGED label
  /\ UNCHANGED <<guest, command, options, signal, stackAddresses, snapshot,
                 pagesToDo, current, history>>

GetPages ==
  /\ Goto("getPages", "pages")
  /\ snapshot' = mapped
  /\ pagesToDo' = mapped
  /\ UNCHANGED <<guest, command, options, signal, stackAddresses, stacksToDo,
                 current, covered, history>>

\* (vaddr & 0xff0000000000) == 0x<h>..., with h the bits above bit 47 and the
\* bits 40 to 47: the mask leaves nothing above bit 47
MaskedEquals(p, h48, h40) ==
  /\ h48 = 0
  /\ Info[p].bits40to47 = h40

IsIdentityMapping(p) == MaskedEquals(p, 8, 128)    \* 0x8 80 0000000000
IsC9Address(p) == MaskedEquals(p, 12, 144)         \* 0xc 90 0000000000

\* the page map's loop, which skips the identity mapping
NextPage ==
  /\ label = "pages"
  /\ \E p \in pagesToDo :
        /\ pagesToDo' = pagesToDo \ {p}
        /\ current' = p
        /\ label' = IF IsIdentityMapping(p) THEN "pages" ELSE "validatePage"
  /\ UNCHANGED <<guest, command, options, signal, stackAddresses, stacksToDo,
                 snapshot, covered, history>>

PagesDone ==
  /\ Goto("pages", "loop")
  /\ pagesToDo = {}
  /\ UNCHANGED <<guest, command, options, signal, progress, history>>

Cover(how) == covered' = covered \cup {<<how, current>>}

\* a page of code is never taken for data
TestsExclusive(p) ==
  IF Info[p].code
  THEN IF options.codeValidation THEN "codePage" ELSE "pages"
  ELSE IF options.pointerExamination /\ Info[p].data THEN "dataPage" ELSE "pages"

\* the branch that validatePage takes for a page with a module
Tests(p) ==
  IF options.codeValidation /\ Info[p].code THEN "codePage"
  ELSE IF options.pointerExamination /\ Info[p].data THEN "dataPage"
  ELSE "pages"

ValidatePage ==
  /\ label = "validatePage"
  /\ IF IsC9Address(current)
     THEN label' = "pages" /\ UNCHANGED covered
     ELSE IF ~Info[current].code /\ ~Info[current].data   \* no module
     THEN /\ label' = "pages"
          /\ IF Info[current].exec THEN Cover("unknown") ELSE UNCHANGED covered
     ELSE label' = Tests(current) /\ UNCHANGED covered
  /\ UNCHANGED <<guest, command, options, signal, stackAddresses, stacksToDo,
                 snapshot, pagesToDo, current, history>>

ValidateCodePage ==
  /\ Goto("codePage", "pages")
  /\ Cover("code")
  /\ UNCHANGED <<guest, command, options, signal, stackAddresses, stacksToDo,
                 snapshot, pagesToDo, current, history>>

ValidateDataPage ==
  /\ Goto("dataPage", "pages")
  /\ Cover("data")
  /\ UNCHANGED <<guest, command, options, signal, stackAddresses, stacksToDo,
                 snapshot, pagesToDo, current, history>>

\* while (options.loopMode); the kernel block ends behind the loop
Loop ==
  /\ label = "loop"
  /\ label' = IF options.loopMode THEN "iterate" ELSE "processes"
  /\ UNCHANGED <<guest, command, options, signal, progress, history>>

-----------------------------------------------------------------------------
MainStep ==
  \/ Construct \/ SetOptions \/ SetValidator \/ InstallHandler
  \/ BeginIteration \/ AddStackAddress \/ StackAddressesRead \/ ValidateStackPage
  \/ GetPages \/ NextPage \/ PagesDone
  \/ ValidatePage \/ ValidateCodePage \/ ValidateDataPage \/ Loop

Next == GuestStep \/ MainStep \/ HandleSignal \/ Kill

\* main runs on a host that schedules it; nothing is asked of the guest
Spec == Init /\ [][Next]_vars /\ WF_vars(MainStep)

-----------------------------------------------------------------------------
(* Properties.                                                             *)

(***************************************************************************)
(* Every variable has its type, and each work list is taken from what the  *)
(* iteration found.                                                        *)
(***************************************************************************)
TypeOK ==
  /\ live \subseteq Tasks /\ listed \subseteq Tasks /\ mapped \subseteq Pages
  /\ command \in Options /\ options \in Options
  /\ label \in Labels
  /\ validator \in {"null", "val"}
  /\ handlers \subseteq Signals
  /\ stackAddresses \subseteq Tasks /\ stacksToDo \subseteq stackAddresses
  /\ snapshot \subseteq Pages /\ pagesToDo \subseteq snapshot
  /\ current \in Pages
  /\ covered \subseteq ({"stack"} \X Tasks)
                         \cup ({"code", "data", "unknown"} \X Pages)
  /\ interrupted \in BOOLEAN /\ wroteDead \in BOOLEAN

(***************************************************************************)
(* "Done validating pages" is true: an iteration that no signal cut short  *)
(* has validated every stack it found and, whatever the guest has mapped   *)
(* and unmapped meanwhile, every page of the map it read, as the options on*)
(* the command line ask.  A page that the segments of a module claim both  *)
(* as code and as data (containsMemAddress includes the end) is compared or*)
(* at least examined.                                                      *)
(***************************************************************************)
Wanted(p) ==
  IF ~Info[p].code /\ ~Info[p].data
  THEN IF Info[p].exec THEN {"unknown"} ELSE {}
  ELSE IF Info[p].code /\ command.codeValidation THEN {"code"}
  ELSE IF Info[p].data /\ command.pointerExamination THEN {"data"}
  ELSE {}

IterationComplete ==
  label = "loop" /\ ~interrupted =>
    /\ command.pointerExamination =>
         \A t \in stackAddresses : <<"stack", t>> \in covered
    /\ \A p \in snapshot : \A how \in Wanted(p) : <<how, p>> \in covered

(***************************************************************************)
(* After the handler has run, at whatever step, no comparison of a page is *)
(* started: at most the one that validatePage had already chosen is made.  *)
(* (The stacks do go on being walked and validated: validatePages tests the*)
(* options in front of them only.)                                         *)
(***************************************************************************)
NothingNewAfterInterrupt ==
  [][interrupted /\ label' \in {"codePage", "dataPage"} => label' = label]_vars

(***************************************************************************)
(* A handled signal ends the loop: whatever step it interrupts and whatever*)
(* the guest does, main gets to the processes (or is killed by a signal).  *)
(***************************************************************************)
InterruptEndsScan == interrupted ~> label \in {"processes", "killed"}

(***************************************************************************)
(* "if (validator)" (kernint.cpp:284) tells whether there is a validator to*)
(* write to: it is declared for the signal handler and null until then.    *)
(***************************************************************************)
HandlerTargetAlive == ~wroteDead
=============================================================================
