------------------------- MODULE KernelScan_proofs -------------------------
(***************************************************************************)
(* That an iteration of the kernel scan which no signal cuts short has     *)
(* examined all that the options ask for, and that no page is chosen for a *)
(* comparison behind a signal, for every set of pages and tasks and every layout of   *)
(* the modules.                                                            *)
(***************************************************************************)
EXTENDS KernelScan, TLAPS

(***************************************************************************)
(* The options are those of the command line until a signal, and all off   *)
(* from then on, as long as there is a validator that has them.            *)
(***************************************************************************)
Early == {"construct", "setOptions"}
Over == {"processes", "killed"}

OptionsInv ==
  /\ label \notin Early \cup Over /\ ~interrupted => options = command
  /\ label \notin Over /\ interrupted => options = AllOff
  /\ handlers # {} \/ interrupted => label \notin Early

(***************************************************************************)
(* What an iteration without a signal has not yet covered is still to do:  *)
(* a stack is in the work list; a page is, or it is the current one and    *)
(* the step that covers it is chosen.                                      *)
(***************************************************************************)
OfPages == {"pages", "validatePage", "codePage", "dataPage", "loop"}
OfCurrent == {"validatePage", "codePage", "dataPage"}

StacksInv ==
  /\ label \in {"stacks", "getPages"} \cup OfPages
  /\ ~interrupted
  /\ command.pointerExamination
  => /\ \A t \in stackAddresses : t \in stacksToDo \/ <<"stack", t>> \in covered
     /\ label # "stacks" => stacksToDo = {}

Complete(p) == \A how \in Wanted(p) : <<how, p>> \in covered

PagesInv ==
  label \in OfPages /\ ~interrupted =>
    /\ \A p \in snapshot :
         p \in pagesToDo \/ Complete(p) \/ (label \in OfCurrent /\ p = current)
    /\ label = "codePage" => Wanted(current) = {"code"}
    /\ label = "dataPage" => Wanted(current) = {"data"}
    /\ label = "loop" => pagesToDo = {}

Inv == TypeOK /\ OptionsInv /\ StacksInv /\ PagesInv

-----------------------------------------------------------------------------
LEMMA InitInv == Init => Inv
<1> SUFFICES ASSUME Init PROVE Inv
  OBVIOUS
<1> USE DEF Init
<1>1. TypeOK
  BY DEF TypeOK, Labels, Signals
<1>2. OptionsInv
  BY DEF OptionsInv, Early, Over
<1>3. StacksInv /\ PagesInv
  BY DEF StacksInv, PagesInv, OfPages
<1> QED
  BY <1>1, <1>2, <1>3 DEF Inv

\* no bit above 47 is left by the mask, so that no page is skipped
LEMMA NothingSkipped ==
  ASSUME NEW p PROVE ~IsIdentityMapping(p) /\ ~IsC9Address(p)
BY DEF IsIdentityMapping, IsC9Address, MaskedEquals

LEMMA AllOffType ==
  /\ AllOff \in Options
  /\ ~AllOff.loopMode /\ ~AllOff.codeValidation /\ ~AllOff.pointerExamination
<1> DEFINE O == {"loopMode", "codeValidation", "pointerExamination"}
<1>1. DOMAIN Default = O
  BY DEF Default
<1>2. AllOff = [o \in O |-> FALSE]
  BY <1>1 DEF AllOff
<1>3. [o \in O |-> FALSE] \in [O -> BOOLEAN]
  OBVIOUS
<1>4. Options = [O -> BOOLEAN]
  BY DEF Options
<1> QED
  BY <1>2, <1>3, <1>4

-----------------------------------------------------------------------------
LEMMA TypeStep == TypeOK /\ [Next]_vars => TypeOK'
<1> SUFFICES ASSUME TypeOK, [Next]_vars PROVE TypeOK'
  OBVIOUS
<1> USE DEF TypeOK, progress, signal, history, guest
<1>1. CASE GuestStep
  BY <1>1 DEF GuestStep, Fork, Exit, MapPage, UnmapPage
<1>2. CASE Construct
  BY <1>2 DEF Construct, Goto, Default, Options, Labels
<1>3. CASE SetOptions \/ SetValidator
  BY <1>3 DEF SetOptions, SetValidator, Goto, Labels
<1>4. CASE InstallHandler
  BY <1>4 DEF InstallHandler, Labels, Signals
<1>5. CASE BeginIteration
  BY <1>5 DEF BeginIteration, Labels
<1>15. CASE AddStackAddress \/ StackAddressesRead
  BY <1>15 DEF AddStackAddress, StackAddressesRead, Goto, Labels
<1>6. CASE ValidateStackPage
  BY <1>6 DEF ValidateStackPage, Labels
<1>7. CASE GetPages \/ PagesDone
  BY <1>7 DEF GetPages, PagesDone, Goto, Labels
<1>8. CASE NextPage
  BY <1>8 DEF NextPage, Labels
<1>9. CASE ValidatePage
  BY <1>9 DEF ValidatePage, Tests, Cover, Labels
<1>10. CASE ValidateCodePage \/ ValidateDataPage
  BY <1>10 DEF ValidateCodePage, ValidateDataPage, Cover, Goto, Labels
<1>11. CASE Loop
  BY <1>11 DEF Loop, Labels
<1>12. CASE HandleSignal
  BY <1>12, AllOffType DEF HandleSignal, Handled
<1>13. CASE Kill
  BY <1>13 DEF Kill, Labels
<1>14. CASE UNCHANGED vars
  BY <1>14 DEF vars
<1> QED
  BY <1>1, <1>2, <1>3, <1>4, <1>5, <1>6, <1>7, <1>8, <1>9, <1>10, <1>11, <1>12, <1>13,
     <1>14, <1>15 DEF Next, MainStep

LEMMA OptionsStep == OptionsInv /\ [Next]_vars => OptionsInv'
<1> SUFFICES ASSUME OptionsInv, [Next]_vars PROVE OptionsInv'
  OBVIOUS
<1> USE DEF OptionsInv, Early, Over, progress, signal, history
<1>1. CASE GuestStep
  BY <1>1 DEF GuestStep, Fork, Exit, MapPage, UnmapPage
<1>2. CASE Construct \/ SetOptions \/ SetValidator
  BY <1>2 DEF Construct, SetOptions, SetValidator, Goto
<1>3. CASE InstallHandler
  BY <1>3 DEF InstallHandler
<1>4. CASE BeginIteration \/ AddStackAddress \/ StackAddressesRead \/ ValidateStackPage
  BY <1>4 DEF BeginIteration, AddStackAddress, StackAddressesRead, Goto, ValidateStackPage
<1>5. CASE GetPages \/ PagesDone \/ NextPage
  BY <1>5 DEF GetPages, PagesDone, NextPage, Goto
<1>6. CASE ValidatePage
  BY <1>6 DEF ValidatePage, Tests, Cover
<1>7. CASE ValidateCodePage \/ ValidateDataPage
  BY <1>7 DEF ValidateCodePage, ValidateDataPage, Goto
<1>8. CASE Loop
  BY <1>8 DEF Loop
<1>9. CASE HandleSignal
  BY <1>9 DEF HandleSignal, Handled
<1>10. CASE Kill
  BY <1>10 DEF Kill
<1>11. CASE UNCHANGED vars
  BY <1>11 DEF vars
<1> QED
  BY <1>1, <1>2, <1>3, <1>4, <1>5, <1>6, <1>7, <1>8, <1>9, <1>10, <1>11 DEF Next, MainStep

LEMMA StacksStep == OptionsInv /\ StacksInv /\ [Next]_vars => StacksInv'
<1> SUFFICES ASSUME OptionsInv, StacksInv, [Next]_vars PROVE StacksInv'
  OBVIOUS
<1> USE DEF StacksInv, OfPages, progress, signal, history
<1>1. CASE GuestStep
  BY <1>1 DEF GuestStep, Fork, Exit, MapPage, UnmapPage
<1>2. CASE Construct \/ SetOptions \/ SetValidator \/ InstallHandler
  BY <1>2 DEF Construct, SetOptions, SetValidator, InstallHandler, Goto
<1>3. CASE BeginIteration
  <2>1. ~interrupted => options = command
    BY <1>3 DEF BeginIteration, OptionsInv, Early, Over
  <2> QED
    BY <1>3, <2>1 DEF BeginIteration
<1>12. CASE AddStackAddress \/ StackAddressesRead
  BY <1>12 DEF AddStackAddress, StackAddressesRead, Goto
<1>4. CASE ValidateStackPage
  BY <1>4 DEF ValidateStackPage
<1>5. CASE GetPages \/ PagesDone \/ NextPage
  BY <1>5 DEF GetPages, PagesDone, NextPage, Goto
<1>6. CASE ValidatePage
  BY <1>6 DEF ValidatePage, Tests, Cover
<1>7. CASE ValidateCodePage \/ ValidateDataPage
  BY <1>7 DEF ValidateCodePage, ValidateDataPage, Cover, Goto
<1>8. CASE Loop
  BY <1>8 DEF Loop
<1>9. CASE HandleSignal
  BY <1>9 DEF HandleSignal
<1>10. CASE Kill
  BY <1>10 DEF Kill
<1>11. CASE UNCHANGED vars
  BY <1>11 DEF vars
<1> QED
  BY <1>1, <1>2, <1>3, <1>4, <1>5, <1>6, <1>7, <1>8, <1>9, <1>10, <1>11, <1>12 DEF Next, MainStep

LEMMA PagesStep == OptionsInv /\ PagesInv /\ [Next]_vars => PagesInv'
<1> SUFFICES ASSUME OptionsInv, PagesInv, [Next]_vars PROVE PagesInv'
  OBVIOUS
<1> USE DEF PagesInv, OfPages, OfCurrent, progress, signal, history
<1>1. CASE GuestStep
  BY <1>1 DEF GuestStep, Fork, Exit, MapPage, UnmapPage, Complete, Wanted
<1>2. CASE Construct \/ SetOptions \/ SetValidator \/ InstallHandler
  BY <1>2 DEF Construct, SetOptions, SetValidator, InstallHandler, Goto
<1>3. CASE BeginIteration \/ AddStackAddress \/ StackAddressesRead \/ ValidateStackPage
  BY <1>3 DEF BeginIteration, AddStackAddress, StackAddressesRead, Goto, ValidateStackPage
<1>4. CASE GetPages
  BY <1>4 DEF GetPages, Goto
<1>5. CASE NextPage
  BY <1>5, NothingSkipped DEF NextPage, Complete, Wanted
<1>6. CASE PagesDone
  BY <1>6 DEF PagesDone, Goto, Complete, Wanted
<1>7. CASE ValidatePage
  <2> SUFFICES ASSUME ~interrupted PROVE PagesInv'
    BY <1>7 DEF ValidatePage
  <2>1. options = command
    BY <1>7 DEF ValidatePage, OptionsInv, Early, Over
  <2>2. /\ UNCHANGED <<command, snapshot, pagesToDo, current, interrupted>>
        /\ \A p : Complete(p) => Complete(p)'
    BY <1>7 DEF ValidatePage, Complete, Wanted, Cover
  <2>3. \/ label' = "codePage" /\ Wanted(current) = {"code"}
        \/ label' = "dataPage" /\ Wanted(current) = {"data"}
        \/ label' = "pages" /\ Complete(current)'
    BY <1>7, <2>1, NothingSkipped DEF ValidatePage, Tests, Cover, Wanted, Complete
  <2>4. Wanted(current)' = Wanted(current)
    BY <2>2 DEF Wanted
  <2> QED
    BY <1>7, <2>2, <2>3, <2>4 DEF ValidatePage
<1>8. CASE ValidateCodePage \/ ValidateDataPage
  <2>1. /\ label' = "pages"
        /\ UNCHANGED <<command, snapshot, pagesToDo, current, interrupted>>
        /\ \A p : Complete(p) => Complete(p)'
    BY <1>8 DEF ValidateCodePage, ValidateDataPage, Goto, Cover, Complete, Wanted
  <2>2. ~interrupted => Complete(current)'
    <3>1. Wanted(current)' = Wanted(current)
      BY <2>1 DEF Wanted
    <3>2. CASE ValidateCodePage
      BY <3>1, <3>2, <2>1 DEF ValidateCodePage, Goto, Cover, Complete
    <3>3. CASE ValidateDataPage
      BY <3>1, <3>3, <2>1 DEF ValidateDataPage, Goto, Cover, Complete
    <3> QED
      BY <1>8, <3>2, <3>3
  <2> QED
    BY <1>8, <2>1, <2>2 DEF ValidateCodePage, ValidateDataPage, Goto
<1>9. CASE Loop
  BY <1>9 DEF Loop
<1>10. CASE HandleSignal
  BY <1>10 DEF HandleSignal, Complete, Wanted
<1>11. CASE Kill
  BY <1>11 DEF Kill
<1>12. CASE UNCHANGED vars
  BY <1>12 DEF vars, guest, Complete, Wanted
<1> QED
  BY <1>1, <1>2, <1>3, <1>4, <1>5, <1>6, <1>7, <1>8, <1>9, <1>10, <1>11, <1>12
  DEF Next, MainStep

LEMMA InvStep == Inv /\ [Next]_vars => Inv'
BY TypeStep, OptionsStep, StacksStep, PagesStep DEF Inv

THEOREM Invariance == Spec => []Inv
BY InitInv, InvStep, PTL DEF Spec

-----------------------------------------------------------------------------
(***************************************************************************)
(* The variables of the kernel scan keep their types, and its work lists   *)
(* stay within what the iteration has found.                               *)
(***************************************************************************)
THEOREM TypeCorrect == Spec => []TypeOK
<1>1. Inv => TypeOK
  BY DEF Inv
<1> QED
  BY <1>1, Invariance, PTL

(***************************************************************************)
(* An iteration that no signal has cut short has validated every stack and *)
(* every page that it found, as the command line asks.                     *)
(***************************************************************************)
THEOREM IterationsComplete == Spec => []IterationComplete
<1>1. Inv => IterationComplete
  <2> SUFFICES ASSUME Inv, label = "loop", ~interrupted
               PROVE  /\ command.pointerExamination =>
                           \A t \in stackAddresses : <<"stack", t>> \in covered
                      /\ \A p \in snapshot : Complete(p)
    BY DEF IterationComplete, Complete
  <2>1. command.pointerExamination => \A t \in stackAddresses : <<"stack", t>> \in covered
    BY DEF Inv, StacksInv, OfPages
  <2>2. \A p \in snapshot : Complete(p)
    BY DEF Inv, PagesInv, OfPages, OfCurrent
  <2> QED
    BY <2>1, <2>2
<1> QED
  BY <1>1, Invariance, PTL

(***************************************************************************)
(* Behind a signal that the handler took, validatePage chooses no further  *)
(* comparison: it reads the options that the handler has cleared.          *)
(***************************************************************************)
THEOREM NothingChosenAfterInterrupt == Spec => NothingNewAfterInterrupt
<1> DEFINE A == interrupted /\ label' \in {"codePage", "dataPage"} => label' = label
<1>1. Inv /\ [Next]_vars => A
  <2> SUFFICES ASSUME Inv, [Next]_vars, interrupted, label' \in {"codePage", "dataPage"},
                      label' # label
               PROVE  FALSE
    OBVIOUS
  <2>1. ValidatePage
    BY DEF Next, MainStep, GuestStep, Fork, Exit, MapPage, UnmapPage, Construct,
           SetOptions, SetValidator, InstallHandler, BeginIteration, AddStackAddress, StackAddressesRead,
           ValidateStackPage,
           GetPages, NextPage, PagesDone, ValidateCodePage, ValidateDataPage, Loop,
           HandleSignal, Kill, Goto, vars
  <2>2. options = AllOff
    BY <2>1 DEF ValidatePage, Inv, OptionsInv, Over
  <2> QED
    BY <2>1, <2>2, AllOffType DEF ValidatePage, Tests
<1>2. Inv /\ [Next]_vars => [A]_vars
  BY <1>1
<1> QED
  BY <1>2, Invariance, PTL DEF Spec, NothingNewAfterInterrupt
=============================================================================
