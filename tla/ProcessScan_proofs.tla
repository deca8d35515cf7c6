------------------------- MODULE ProcessScan_proofs -------------------------
(***************************************************************************)
(* That the library cache is closed under dependencies, that nothing is    *)
(* parsed twice, and that a process is validated against its own images,   *)
(* relocated for it, for all tasks, files, address spaces and graphs of    *)
(* dependencies, whatever the guest does meanwhile.                        *)
(***************************************************************************)
EXTENDS ProcessScan, SequenceTheorems, TLAPS

Frame == [file : Files, dep : Nat \ {0}]

(***************************************************************************)
(* Where kernint is in the construction of a Process: whether a load is in *)
(* progress, whether it is the executable's, and what the later steps find *)
(* set.                                                                    *)
(***************************************************************************)
HasExec == {"vdso", "collect", "register", "relocate"}

Control ==
  /\ pc \notin {"list", "next"} => task \in Tasks
  /\ pc = "load" <=> stack # <<>>
  /\ pc \in HasExec => execLoader # None
  /\ pc \in {"vmas", "exec"} => execLoader = None
  /\ pc = "vmas" => mappings = {}
  /\ pc = "collect" \/ (pc = "load" /\ execLoader # None) => vmaIx # 0
  /\ pc = "relocate" => symbols = Loaders
  /\ \A i \in mappings : Cached(mappedVMAs[i].file)

-----------------------------------------------------------------------------
(* Sequences used as stacks.                                               *)

LEMMA PushFrame ==
  ASSUME NEW S, NEW s \in Seq(S), NEW x \in S
  PROVE  /\ <<x>> \o s \in Seq(S)
         /\ <<x>> \o s # <<>>
         /\ Len(<<x>> \o s) = Len(s) + 1
         /\ (<<x>> \o s)[1] = x
         /\ \A k \in 1..Len(s) : (<<x>> \o s)[k + 1] = s[k]
<1> DEFINE t == <<x>> \o s
<1>1. <<x>> \in Seq(S) /\ Len(<<x>>) = 1 /\ <<x>>[1] = x
  OBVIOUS
<1>2. Len(s) \in Nat
  BY LenProperties
<1>3. /\ t \in Seq(S)
      /\ Len(t) = 1 + Len(s)
      /\ \A i \in 1..(1 + Len(s)) : t[i] = IF i <= 1 THEN <<x>>[i] ELSE s[i - 1]
  BY <1>1, ConcatProperties
<1>4. t # <<>>
  BY <1>2, <1>3, EmptySeq
<1>5. \A k \in 1..Len(s) : t[k + 1] = s[k]
  BY <1>2, <1>3
<1> QED
  BY <1>1, <1>2, <1>3, <1>4, <1>5

LEMMA FrameType ==
  ASSUME TypeOK
  PROVE  /\ Len(stack) \in Nat
         /\ \A k \in 1..Len(stack) : stack[k] \in Frame
         /\ stack # <<>> => 1 \in 1..Len(stack) /\ Top \in Frame
<1>1. stack \in Seq(Frame)
  BY DEF TypeOK, Frame
<1>2. Len(stack) \in Nat /\ \A k \in 1..Len(stack) : stack[k] \in Frame
  BY <1>1, LenProperties, ElementOfSeq
<1>3. stack # <<>> => Len(stack) # 0
  BY <1>1, EmptySeq
<1> QED
  BY <1>2, <1>3 DEF Top

\* the current frame is at its next entry
LEMMA MovedType ==
  ASSUME NEW fr \in Frame
  PROVE  /\ [fr EXCEPT !.dep = @ + 1] \in Frame
         /\ [fr EXCEPT !.dep = @ + 1].file = fr.file
         /\ [fr EXCEPT !.dep = @ + 1].dep = fr.dep + 1
BY DEF Frame

(***************************************************************************)
(* The three things that happen to the calls in progress.                  *)
(***************************************************************************)
Pushed(f) ==
  /\ stack' \in Seq(Frame) /\ stack' # <<>>
  /\ Len(stack') = Len(stack) + 1
  /\ stack'[1] = [file |-> f, dep |-> 1]
  /\ \A k \in 1..Len(stack) : stack'[k + 1] = stack[k]

Moved ==
  /\ stack' \in Seq(Frame) /\ stack' # <<>>
  /\ Len(stack') = Len(stack)
  /\ stack'[1].file = Top.file /\ stack'[1].dep = Top.dep + 1
  /\ \A k \in 2..Len(stack) : stack'[k] = stack[k]

Popped ==
  /\ stack' \in Seq(Frame) /\ stack' # <<>>
  /\ Len(stack') = Len(stack) - 1
  /\ stack'[1].file = stack[2].file /\ stack'[1].dep = stack[2].dep + 1
  /\ \A k \in 2..Len(stack') : stack'[k] = stack[k + 1]

LEMMA ParsePushes ==
  ASSUME TypeOK, NEW f \in Files, Parse(f)
  PROVE  Pushed(f)
<1>1. [file |-> f, dep |-> 1] \in Frame
  BY DEF Frame
<1>2. stack \in Seq(Frame)
  BY DEF TypeOK, Frame
<1> QED
  BY <1>1, <1>2, PushFrame DEF Parse, Pushed

LEMMA NextDependencyMoves ==
  ASSUME TypeOK, stack # <<>>, NextDependency
  PROVE  Moved
<1>1. stack \in Seq(Frame) /\ Top \in Frame
  BY FrameType DEF TypeOK, Frame
<1>2. /\ Tail(stack) \in Seq(Frame)
      /\ Len(Tail(stack)) = Len(stack) - 1
      /\ \A i \in 1..Len(Tail(stack)) : Tail(stack)[i] = stack[i + 1]
  BY <1>1, HeadTailProperties
<1> DEFINE x == [Top EXCEPT !.dep = @ + 1]
<1>3. x \in Frame /\ x.file = Top.file /\ x.dep = Top.dep + 1
  BY <1>1, MovedType
<1>4. stack' = <<x>> \o Tail(stack)
  BY DEF NextDependency
<1> HIDE DEF x
<1>5. /\ stack' \in Seq(Frame) /\ stack' # <<>>
      /\ Len(stack') = Len(stack)
      /\ stack'[1] = x
      /\ \A k \in 1..Len(Tail(stack)) : stack'[k + 1] = Tail(stack)[k]
  BY <1>2, <1>3, <1>4, PushFrame, FrameType
<1>6. ASSUME NEW k \in 2..Len(stack) PROVE stack'[k] = stack[k]
  <2>1. k - 1 \in 1..Len(Tail(stack)) /\ (k - 1) + 1 = k
    BY <1>2, FrameType
  <2> QED
    BY <2>1, <1>2, <1>5
<1> QED
  BY <1>3, <1>5, <1>6 DEF Moved

LEMMA InsertPops ==
  ASSUME TypeOK, InsertLoader, Len(stack) > 1
  PROVE  Popped
<1>1. stack \in Seq(Frame) /\ Len(stack) \in Nat /\ stack[2] \in Frame
  BY FrameType DEF TypeOK, Frame
<1>2. stack # <<>>
  BY EmptySeq
<1>3. /\ Tail(stack) \in Seq(Frame)
      /\ Len(Tail(stack)) = Len(stack) - 1
      /\ \A i \in 1..Len(Tail(stack)) : Tail(stack)[i] = stack[i + 1]
  BY <1>1, <1>2, HeadTailProperties
<1>4. Tail(stack) # <<>>
  <2>1. Len(Tail(stack)) # 0
    BY <1>1, <1>3
  <2> QED
    BY <2>1, <1>3, EmptySeq
<1>5. /\ Tail(Tail(stack)) \in Seq(Frame)
      /\ Len(Tail(Tail(stack))) = Len(stack) - 2
      /\ \A i \in 1..Len(Tail(Tail(stack))) : Tail(Tail(stack))[i] = Tail(stack)[i + 1]
  BY <1>1, <1>3, <1>4, HeadTailProperties
<1> DEFINE x == [stack[2] EXCEPT !.dep = @ + 1]
<1>6. x \in Frame /\ x.file = stack[2].file /\ x.dep = stack[2].dep + 1
  BY <1>1, MovedType
<1>7. stack' = <<x>> \o Tail(Tail(stack))
  BY DEF InsertLoader
<1> HIDE DEF x
<1>8. /\ stack' \in Seq(Frame) /\ stack' # <<>>
      /\ Len(stack') = Len(stack) - 1
      /\ stack'[1] = x
      /\ \A k \in 1..Len(Tail(Tail(stack))) : stack'[k + 1] = Tail(Tail(stack))[k]
  BY <1>1, <1>5, <1>6, <1>7, PushFrame
<1>9. ASSUME NEW k \in 2..Len(stack') PROVE stack'[k] = stack[k + 1]
  <2>1. /\ k - 1 \in 1..Len(Tail(Tail(stack))) /\ (k - 1) + 1 = k
        /\ k \in 1..Len(Tail(stack))
    BY <1>1, <1>3, <1>5, <1>8
  <2> QED
    BY <2>1, <1>3, <1>5, <1>8
<1> QED
  BY <1>6, <1>8, <1>9 DEF Popped

-----------------------------------------------------------------------------
(* Types, and where the steps lead.                                        *)

LEMMA CacheGrows ==
  TypeOK /\ Control /\ [Next]_vars => \A f \in Files : Cached(f) => Cached(f)'
<1> SUFFICES ASSUME TypeOK, Control, [Next]_vars, NEW f \in Files, Cached(f)
             PROVE  Cached(f)'
  OBVIOUS
<1> USE FileAssumption DEF TypeOK, Cached, Loader
<1>1. CASE UNCHANGED libraryMap
  BY <1>1
<1>2. NewLoader # None
  BY DEF NewLoader
<1>3. CASE InsertLoader
  BY <1>2, <1>3 DEF InsertLoader
<1>4. CASE LoadVDSO
  BY <1>2, <1>4 DEF LoadVDSO
<1>5. CASE ApplyRelocations
  BY <1>5 DEF ApplyRelocations
<1>6. CASE Guest \/ UNCHANGED vars
  BY <1>1, <1>6 DEF Guest, Exec, Exit, loadVars, vars
<1>7. CASE Kernint
  BY <1>1, <1>3, <1>4, <1>5, <1>7
  DEF Kernint, ListTasks, NextTask, ScanFinished, CheckTerminated, CheckKernelTask,
      ReadExeName, NoExeName, MakeProcess, GetVMAInfo, LoadExec, NoExecFile, FindLibrary,
      LoadLibrary, MissingLibrary, CollectLibrary, CollectMapping, CollectNothing,
      CollectDone, RegisterSyms, NoMapping, UndefinedSymbol, CheckEnvironment,
      NoEnvironment, ValidateVMA, ValidateDone, EndBy, loadVars
<1> QED
  BY <1>6, <1>7 DEF Next

LEMMA InitTypes == Init => TypeOK /\ Control
<1> SUFFICES ASSUME Init PROVE TypeOK /\ Control
  OBVIOUS
<1>1. TypeOK
  <2>1. <<>> \in Seq(Vma) /\ <<>> \in Seq(Frame)
    OBVIOUS
  <2> QED
    BY <2>1, FileAssumption DEF Init, TypeOK, Labels, Frame
<1>2. Control
  BY <1>1, FileAssumption DEF Init, Control, HasExec, TypeOK
<1> QED
  BY <1>1, <1>2

LEMMA MappedFiles ==
  ASSUME TypeOK
  PROVE  /\ DOMAIN mappedVMAs = 1..Len(mappedVMAs) /\ Len(mappedVMAs) \in Nat
         /\ \A i \in DOMAIN mappedVMAs : mappedVMAs[i] \in Vma /\ mappedVMAs[i].file \in Files
         /\ \A i \in mappings : mappedVMAs[i].file \in Files
         /\ Loaders \subseteq Files
<1>1. DOMAIN mappedVMAs = 1..Len(mappedVMAs) /\ Len(mappedVMAs) \in Nat
  BY LenProperties DEF TypeOK
<1>2. \A i \in DOMAIN mappedVMAs : mappedVMAs[i] \in Vma
  BY <1>1, ElementOfSeq DEF TypeOK
<1>3. \A i \in DOMAIN mappedVMAs : mappedVMAs[i].file \in Files
  BY <1>2 DEF Vma
<1>4. mappings \subseteq DOMAIN mappedVMAs
  BY DEF TypeOK
<1> QED
  BY <1>1, <1>2, <1>3, <1>4 DEF Loaders

\* the steps that end the program, and the guest's
Ending == ScanFinished \/ NoExeName \/ NoExecFile \/ MissingLibrary \/ NoMapping
          \/ UndefinedSymbol \/ NoEnvironment

LEMMA EndingFrame ==
  Ending => /\ UNCHANGED <<guestVars, mainVars, procVars, loadVars, pc>>
            /\ ended' \in {"finished", "exception", "assert"}
BY DEF Ending, ScanFinished, NoExeName, NoExecFile, MissingLibrary, NoMapping,
       UndefinedSymbol, NoEnvironment, EndBy

LEMMA GuestFrame ==
  Guest => UNCHANGED <<mainVars, procVars, loadVars, pc, ended>>
BY DEF Guest, Exec, Exit

LEMMA Unchanged ==
  ASSUME UNCHANGED <<mainVars, procVars, loadVars, pc>>
  PROVE  /\ mode' = mode /\ todo' = todo /\ task' = task /\ binaryName' = binaryName
         /\ nameExecs' = nameExecs /\ procs' = procs /\ mappedVMAs' = mappedVMAs
         /\ execLoader' = execLoader /\ mappings' = mappings /\ symbols' = symbols
         /\ libraryMap' = libraryMap /\ parsed' = parsed /\ stack' = stack
         /\ vmaIx' = vmaIx /\ pc' = pc
BY DEF mainVars, procVars, loadVars

LEMMA TypeStep == TypeOK /\ Control /\ [Next]_vars => TypeOK'
<1> SUFFICES ASSUME TypeOK, Control, [Next]_vars PROVE TypeOK'
  OBVIOUS
<1> USE DEF Goto, guestVars, mainVars, procVars, loadVars
<1>1. CASE UNCHANGED vars
  BY <1>1 DEF vars, TypeOK
<1>2. CASE Guest
  <2>1. image' \in [Tasks -> Programs \cup {NoMm, Gone}] /\ execs' \in [Tasks -> 0..MaxExecs]
    <3>1. MaxExecs \in Nat
      BY FileAssumption
    <3>2. ASSUME NEW t \in Tasks, Exec(t)
          PROVE  image' \in [Tasks -> Programs \cup {NoMm, Gone}] /\ execs' \in [Tasks -> 0..MaxExecs]
      <4>1. execs[t] + 1 \in 0..MaxExecs
        BY <3>1, <3>2 DEF Exec, TypeOK
      <4> QED
        BY <3>2, <4>1 DEF Exec, TypeOK
    <3>3. ASSUME NEW t \in Tasks, Exit(t)
          PROVE  image' \in [Tasks -> Programs \cup {NoMm, Gone}] /\ execs' = execs
      BY <3>3 DEF Exit, TypeOK
    <3> QED
      BY <1>2, <3>2, <3>3 DEF Guest, TypeOK
  <2> QED
    BY <1>2, <2>1, GuestFrame, Unchanged DEF TypeOK
<1>3. CASE ListTasks \/ NextTask \/ CheckTerminated \/ CheckKernelTask
  BY <1>3 DEF ListTasks, NextTask, CheckTerminated, CheckKernelTask, AfterTask, TypeOK,
              Labels
<1>4. CASE Ending
  <2>1. ended' \in {"no", "finished", "exception", "assert"} /\ UNCHANGED <<image, execs>>
    BY <1>4, EndingFrame
  <2> QED
    BY <1>4, <2>1, EndingFrame, Unchanged DEF TypeOK
<1>5. CASE ReadExeName
  BY <1>5 DEF ReadExeName, HasMm, TypeOK, Labels, Control
<1>6. CASE MakeProcess
  BY <1>6 DEF MakeProcess, TypeOK, Labels
<1>7. CASE GetVMAInfo
  <2>1. mappedVMAs' \in Seq(Vma)
    BY <1>7, FileAssumption DEF GetVMAInfo, HasMm
  <2> QED
    BY <1>7, <2>1 DEF GetVMAInfo, TypeOK, Labels, Control
<1>8. CASE LoadExec
  <2>1. image[task] \in Files
    BY <1>8, FileAssumption DEF LoadExec
  <2>2. stack' \in Seq(Frame)
    BY <1>8, <2>1, ParsePushes DEF LoadExec, Pushed
  <2> QED
    BY <1>8, <2>1, <2>2 DEF LoadExec, Parse, TypeOK, Frame, Labels
<1>9. CASE FindLibrary
  <2>1. stack' \in Seq(Frame)
    BY <1>9, NextDependencyMoves DEF FindLibrary, CallLibrary, Moved, Control
  <2> QED
    BY <1>9, <2>1 DEF FindLibrary, NextDependency, TypeOK, Frame, Labels
<1>10. CASE LoadLibrary
  <2>1. PICK lib \in Files : CallLibrary(lib) /\ Parse(lib)
    BY <1>10, FileAssumption DEF LoadLibrary
  <2>2. stack' \in Seq(Frame)
    BY <2>1, ParsePushes DEF Pushed
  <2> QED
    BY <1>10, <2>1, <2>2 DEF LoadLibrary, Parse, TypeOK, Frame, Labels
<1>11. CASE CollectLibrary
  <2>1. PICK lib \in Files : Parse(lib)
    <3>1. Control /\ vmaIx \in DOMAIN mappedVMAs
      BY <1>11, MappedFiles DEF CollectLibrary, Control, TypeOK
    <3>2. Located[mappedVMAs[vmaIx].file] \in Files
      BY <1>11, <3>1, MappedFiles, FileAssumption DEF CollectLibrary
    <3> QED
      BY <1>11, <3>2 DEF CollectLibrary
  <2>2. stack' \in Seq(Frame)
    BY <2>1, ParsePushes DEF Pushed
  <2> QED
    BY <1>11, <2>1, <2>2 DEF CollectLibrary, Parse, TypeOK, Frame, Labels
<1>12. CASE InsertLoader
  <2>1. Top.file \in Files
    BY <1>12, FrameType DEF InsertLoader, Frame, Control
  <2>2. libraryMap' \in [Files -> Loader \cup {None}]
    BY <1>12 DEF InsertLoader, NewLoader, Loader, TypeOK
  <2>3. stack' \in Seq(Frame)
    <3>1. CASE Len(stack) > 1
      BY <1>12, <3>1, InsertPops DEF Popped
    <3>2. CASE ~(Len(stack) > 1)
      BY <1>12, <3>2 DEF InsertLoader
    <3> QED
      BY <3>1, <3>2
  <2>4. execLoader' \in Files \cup {None} /\ pc' \in Labels
    BY <1>12, <2>1 DEF InsertLoader, TypeOK, Labels
  <2> QED
    BY <1>12, <2>2, <2>3, <2>4 DEF InsertLoader, TypeOK, Frame
<1>13. CASE LoadVDSO
  <2>1. libraryMap' \in [Files -> Loader \cup {None}] /\ parsed' \in [Files -> Nat]
    <3>1. NewLoader \in Loader
      BY DEF NewLoader, Loader
    <3>2. libraryMap' \in [Files -> Loader \cup {None}]
      BY <1>13, <3>1 DEF LoadVDSO, TypeOK
    <3>3. parsed' \in [Files -> Nat]
      <4>1. parsed \in [Files -> Nat] /\ Vdso \in Files
        BY FileAssumption DEF TypeOK
      <4>2. parsed' = parsed \/ parsed' = [parsed EXCEPT ![Vdso] = @ + 1]
        BY <1>13 DEF LoadVDSO
      <4> QED
        BY <4>1, <4>2
    <3> QED
      BY <3>2, <3>3
  <2> QED
    BY <1>13, <2>1 DEF LoadVDSO, TypeOK, Labels
<1>14. CASE CollectMapping
  <2>1. vmaIx \in DOMAIN mappedVMAs
    BY <1>14, MappedFiles DEF CollectMapping, TypeOK, Control
  <2> QED
    BY <1>14, <2>1 DEF CollectMapping, TypeOK
<1>15. CASE CollectNothing \/ CollectDone \/ CheckEnvironment \/ ValidateVMA \/ ValidateDone
  BY <1>15 DEF CollectNothing, CollectDone, CheckEnvironment, ValidateVMA, ValidateDone,
               AfterTask, TypeOK, Labels
<1>16. CASE RegisterSyms
  BY <1>16, MappedFiles DEF RegisterSyms, TypeOK, Labels
<1>17. CASE ApplyRelocations
  <2>1. ASSUME NEW f \in Files PROVE libraryMap'[f] \in Loader \cup {None}
    <3>1. libraryMap[f] \in Loader => [libraryMap[f] EXCEPT !.relocatedFor = procs] \in Loader
      BY DEF Loader, TypeOK
    <3>2. f \in Loaders => libraryMap[f] \in Loader
      BY DEF Loaders, Control, Cached, TypeOK
    <3> QED
      BY <1>17, <3>1, <3>2 DEF ApplyRelocations, TypeOK
  <2>2. libraryMap' \in [Files -> Loader \cup {None}]
    BY <1>17, <2>1 DEF ApplyRelocations
  <2> QED
    BY <1>17, <2>2 DEF ApplyRelocations, TypeOK, Labels
<1> QED
  BY <1>1, <1>2, <1>3, <1>4, <1>5, <1>6, <1>7, <1>8, <1>9, <1>10, <1>11, <1>12, <1>13,
     <1>14, <1>15, <1>16, <1>17 DEF Next, Kernint, Ending

LEMMA ControlStep == TypeOK /\ Control /\ [Next]_vars => Control'
<1> SUFFICES ASSUME TypeOK, Control, [Next]_vars PROVE Control'
  OBVIOUS
<1> USE DEF Control, HasExec, Goto, guestVars, mainVars, procVars, loadVars
\* the mappings keep their loaders, as long as they are those of one Process
<1>0. mappings' = mappings /\ mappedVMAs' = mappedVMAs
      => \A i \in mappings' : Cached(mappedVMAs[i].file)'
  BY MappedFiles, CacheGrows
<1>1. CASE UNCHANGED vars
  BY <1>1 DEF vars, Cached, Loaders
<1>2. CASE Guest
  BY <1>2, GuestFrame, Unchanged DEF Cached, Loaders
<1>3. CASE ListTasks \/ NextTask \/ CheckTerminated \/ CheckKernelTask
  BY <1>3 DEF ListTasks, NextTask, CheckTerminated, CheckKernelTask, AfterTask, Cached,
              Loaders, TypeOK
<1>4. CASE Ending
  BY <1>4, EndingFrame, Unchanged DEF Cached, Loaders
<1>5. CASE ReadExeName
  BY <1>5 DEF ReadExeName, Cached, Loaders
<1>6. CASE MakeProcess
  BY <1>6 DEF MakeProcess
<1>7. CASE GetVMAInfo
  BY <1>7 DEF GetVMAInfo
<1>8. CASE LoadExec
  <2>1. stack' # <<>>
    BY <1>8, ParsePushes, FileAssumption DEF LoadExec, Pushed
  <2> QED
    BY <1>0, <1>8, <2>1 DEF LoadExec, Parse
<1>9. CASE FindLibrary
  <2>1. stack' # <<>>
    BY <1>9, NextDependencyMoves DEF FindLibrary, CallLibrary, Moved
  <2> QED
    BY <1>0, <1>9, <2>1 DEF FindLibrary, CallLibrary, NextDependency
<1>10. CASE LoadLibrary
  <2>1. PICK lib \in Files : CallLibrary(lib) /\ Parse(lib)
    BY <1>10, FileAssumption DEF LoadLibrary
  <2>2. stack' # <<>>
    BY <2>1, ParsePushes DEF Pushed
  <2> QED
    BY <1>0, <1>10, <2>1, <2>2 DEF LoadLibrary, CallLibrary, Parse
<1>11. CASE CollectLibrary
  <2>1. PICK lib \in Files : Parse(lib)
    <3>1. vmaIx \in DOMAIN mappedVMAs
      BY <1>11, MappedFiles DEF CollectLibrary, TypeOK
    <3> QED
      BY <1>11, <3>1, MappedFiles, FileAssumption DEF CollectLibrary
  <2>2. stack' # <<>>
    BY <2>1, ParsePushes DEF Pushed
  <2> QED
    BY <1>0, <1>11, <2>1, <2>2 DEF CollectLibrary, Parse
<1>12. CASE InsertLoader
  <2>1. Top.file # None
    BY <1>12, FrameType, FileAssumption DEF InsertLoader, Frame
  <2>2. CASE Len(stack) > 1
    <3>1. stack' # <<>>
      BY <1>12, <2>2, InsertPops DEF Popped
    <3> QED
      BY <1>0, <1>12, <2>2, <3>1 DEF InsertLoader
  <2>3. CASE ~(Len(stack) > 1)
    BY <1>0, <1>12, <2>1, <2>3 DEF InsertLoader
  <2> QED
    BY <2>2, <2>3
<1>13. CASE LoadVDSO
  BY <1>0, <1>13 DEF LoadVDSO
<1>14. CASE CollectMapping
  <2>1. \A i \in mappings' : Cached(mappedVMAs[i].file)'
    BY <1>14 DEF CollectMapping, Cached
  <2> QED
    BY <1>14, <2>1 DEF CollectMapping, TypeOK
<1>15. CASE CollectNothing \/ CollectDone \/ CheckEnvironment \/ ValidateVMA \/ ValidateDone
  BY <1>0, <1>15 DEF CollectNothing, CollectDone, CheckEnvironment, ValidateVMA,
                     ValidateDone, AfterTask, TypeOK
<1>16. CASE RegisterSyms
  BY <1>0, <1>16 DEF RegisterSyms, Loaders
<1>17. CASE ApplyRelocations
  BY <1>0, <1>17 DEF ApplyRelocations
<1> QED
  BY <1>1, <1>2, <1>3, <1>4, <1>5, <1>6, <1>7, <1>8, <1>9, <1>10, <1>11, <1>12, <1>13,
     <1>14, <1>15, <1>16, <1>17 DEF Next, Kernint, Ending

-----------------------------------------------------------------------------
(* The cache: a library is in it with what it needs, and is parsed once.   *)

\* an entry of f that is in the cache
Ready(f, i) == Needed[f][i] # None /\ Cached(Needed[f][i])

(***************************************************************************)
(* The calls in progress: what is before a frame's entry is in the cache,  *)
(* the entry of each frame but the first is the file of the one above it.  *)
(***************************************************************************)
FramesReady ==
  \A k \in 1..Len(stack) : \A i \in DOMAIN Needed[stack[k].file] :
     i < stack[k].dep => Ready(stack[k].file, i)

FramesChained ==
  \A k \in 2..Len(stack) :
     /\ stack[k].dep \in DOMAIN Needed[stack[k].file]
     /\ Needed[stack[k].file][stack[k].dep] = stack[k - 1].file

FramesDescend ==
  \A k, l \in 1..Len(stack) : k < l => Rank[stack[k].file] < Rank[stack[l].file]

ClosedInv == FramesReady /\ FramesChained /\ FramesDescend /\ LibraryMapClosed

LEMMA NeededType ==
  ASSUME NEW f \in Files, NEW i \in DOMAIN Needed[f]
  PROVE  /\ Needed[f][i] \in Elf \cup {None}
         /\ i \in Nat
         /\ Needed[f][i] # None => Needed[f][i] \in Files
<1>1. Needed[f] \in Seq(Elf \cup {None})
  BY FileAssumption
<1>2. i \in 1..Len(Needed[f]) /\ Len(Needed[f]) \in Nat
  BY <1>1, LenProperties
<1>3. Needed[f][i] \in Elf \cup {None}
  BY <1>1, <1>2, ElementOfSeq
<1> QED
  BY <1>2, <1>3, FileAssumption

LEMMA NeededDomain ==
  ASSUME NEW f \in Files
  PROVE  Len(Needed[f]) \in Nat /\ DOMAIN Needed[f] = 1..Len(Needed[f])
BY FileAssumption, LenProperties

LEMMA ReadyGrows ==
  ASSUME TypeOK, Control, [Next]_vars, NEW f \in Files, NEW i \in DOMAIN Needed[f], Ready(f, i)
  PROVE  Needed[f][i] # None /\ libraryMap'[Needed[f][i]] # None
BY NeededType, CacheGrows DEF Ready, Cached

\* a call for a file: its frame is new and below it nothing moves
LEMMA PushedFrames ==
  ASSUME TypeOK, Control, ClosedInv, [Next]_vars, NEW f \in Files, Pushed(f),
         stack # <<>> => /\ Top.dep \in DOMAIN Needed[Top.file]
                         /\ Needed[Top.file][Top.dep] = f
  PROVE  (FramesReady /\ FramesChained /\ FramesDescend)'
<1> USE DEF ClosedInv
<1>0. /\ Len(stack) \in Nat /\ Len(stack') = Len(stack) + 1
      /\ \A k \in 1..Len(stack) : stack[k] \in Frame
  BY FrameType DEF Pushed
<1>1. ASSUME NEW k \in 1..Len(stack')
      PROVE  \/ k = 1 /\ stack'[k] = [file |-> f, dep |-> 1]
             \/ k - 1 \in 1..Len(stack) /\ stack'[k] = stack[k - 1]
  <2>1. CASE k = 1
    BY <2>1 DEF Pushed
  <2>2. CASE k # 1
    <3>1. k - 1 \in 1..Len(stack) /\ (k - 1) + 1 = k
      BY <1>0, <2>2
    <3> QED
      BY <3>1 DEF Pushed
  <2> QED
    BY <2>1, <2>2
<1>2. FramesReady'
  <2> SUFFICES ASSUME NEW k \in 1..Len(stack'), NEW i \in DOMAIN Needed[stack'[k].file],
                      i < stack'[k].dep
               PROVE  /\ Needed[stack'[k].file][i] # None
                      /\ libraryMap'[Needed[stack'[k].file][i]] # None
    BY DEF FramesReady, Ready, Cached
  <2>1. CASE k = 1 /\ stack'[k] = [file |-> f, dep |-> 1]
    BY <2>1, NeededDomain
  <2>2. CASE k - 1 \in 1..Len(stack) /\ stack'[k] = stack[k - 1]
    <3>1. stack[k - 1].file \in Files /\ Ready(stack[k - 1].file, i)
      BY <1>0, <2>2 DEF FramesReady, Frame
    <3> QED
      BY <2>2, <3>1, ReadyGrows
  <2> QED
    BY <1>1, <2>1, <2>2
<1>3. FramesChained'
  <2> SUFFICES ASSUME NEW k \in 2..Len(stack')
               PROVE  /\ stack'[k].dep \in DOMAIN Needed[stack'[k].file]
                      /\ Needed[stack'[k].file][stack'[k].dep] = stack'[k - 1].file
    BY DEF FramesChained
  <2>1. k - 1 \in 1..Len(stack) /\ stack'[k] = stack[k - 1]
    BY <1>0, <1>1
  <2>2. CASE k = 2
    <3>1. stack[1] = Top /\ stack # <<>> /\ stack'[1].file = f
      BY <2>1, <2>2, EmptySeq DEF Top, Pushed
    <3> QED
      BY <2>1, <2>2, <3>1
  <2>3. CASE k # 2
    <3>1. /\ k - 1 \in 2..Len(stack) /\ k - 1 \in 1..Len(stack')
          /\ stack'[k - 1] = stack[(k - 1) - 1]
      BY <1>0, <1>1, <2>1, <2>3
    <3> QED
      BY <2>1, <3>1 DEF FramesChained
  <2> QED
    BY <2>2, <2>3
<1>4. FramesDescend'
  <2> SUFFICES ASSUME NEW k \in 1..Len(stack'), NEW l \in 1..Len(stack'), k < l
               PROVE  Rank[stack'[k].file] < Rank[stack'[l].file]
    BY DEF FramesDescend
  <2>1. l - 1 \in 1..Len(stack) /\ stack'[l] = stack[l - 1]
    BY <1>0, <1>1
  <2>2. CASE k - 1 \in 1..Len(stack) /\ stack'[k] = stack[k - 1]
    BY <2>1, <2>2 DEF FramesDescend
  <2>3. CASE k = 1 /\ stack'[k] = [file |-> f, dep |-> 1]
    <3>1. stack # <<>> /\ 1 \in 1..Len(stack) /\ Top \in Frame
      BY <1>0, <2>1, EmptySeq, FrameType
    <3>2. Top.file \in Files /\ f # None
      BY <3>1, FileAssumption DEF Frame
    <3>3. Rank[f] < Rank[Top.file]
      BY <3>1, <3>2, DependencyAssumption
    <3>4. l - 1 = 1 \/ Rank[Top.file] < Rank[stack[l - 1].file]
      BY <1>0, <2>1, <3>1 DEF FramesDescend, Top
    <3>5. Rank[f] \in Nat /\ Rank[Top.file] \in Nat /\ Rank[stack[l - 1].file] \in Nat
      BY <1>0, <2>1, <3>2, DependencyAssumption DEF Frame
    <3> QED
      BY <2>1, <2>3, <3>3, <3>4, <3>5 DEF Top
  <2> QED
    BY <1>1, <2>2, <2>3
<1> QED
  BY <1>2, <1>3, <1>4

\* the current file's entry is in the cache: the loop goes on to the next
LEMMA MovedFrames ==
  ASSUME TypeOK, Control, ClosedInv, [Next]_vars, stack # <<>>, Moved, Ready(Top.file, Top.dep)
  PROVE  (FramesReady /\ FramesChained /\ FramesDescend)'
<1> USE DEF ClosedInv
<1>0. /\ Len(stack) \in Nat /\ Len(stack') = Len(stack) /\ 1 \in 1..Len(stack)
      /\ \A k \in 1..Len(stack) : stack[k] \in Frame
  BY FrameType DEF Moved
<1>1. ASSUME NEW k \in 1..Len(stack')
      PROVE  /\ stack'[k].file = stack[k].file
             /\ k # 1 => stack'[k] = stack[k]
             /\ k = 1 => stack'[k].dep = stack[k].dep + 1
  BY <1>0 DEF Moved, Top
<1>2. FramesReady'
  <2> SUFFICES ASSUME NEW k \in 1..Len(stack'), NEW i \in DOMAIN Needed[stack'[k].file],
                      i < stack'[k].dep
               PROVE  /\ Needed[stack'[k].file][i] # None
                      /\ libraryMap'[Needed[stack'[k].file][i]] # None
    BY DEF FramesReady, Ready, Cached
  <2>1. /\ stack[k].file \in Files /\ stack[k].dep \in Nat
        /\ stack'[k].file = stack[k].file /\ i \in Nat
    BY <1>0, <1>1, NeededType DEF Frame
  <2>2. i < stack[k].dep \/ (k = 1 /\ i = stack[k].dep)
    BY <1>0, <1>1, <2>1
  <2>3. Ready(stack[k].file, i)
    BY <1>0, <2>1, <2>2 DEF FramesReady, Top
  <2> QED
    BY <2>1, <2>3, ReadyGrows
<1>3. FramesChained'
  <2> SUFFICES ASSUME NEW k \in 2..Len(stack')
               PROVE  /\ stack'[k].dep \in DOMAIN Needed[stack'[k].file]
                      /\ Needed[stack'[k].file][stack'[k].dep] = stack'[k - 1].file
    BY DEF FramesChained
  <2>1. k \in 1..Len(stack') /\ k - 1 \in 1..Len(stack') /\ k # 1
    BY <1>0
  <2> QED
    BY <1>0, <1>1, <2>1 DEF FramesChained
<1>4. FramesDescend'
  BY <1>0, <1>1 DEF FramesDescend
<1> QED
  BY <1>2, <1>3, <1>4

\* a loader is in the cache: its caller's loop goes on to the next entry
LEMMA PoppedFrames ==
  ASSUME TypeOK, Control, ClosedInv, [Next]_vars, Len(stack) > 1, Popped,
         libraryMap'[Top.file] # None
  PROVE  (FramesReady /\ FramesChained /\ FramesDescend)'
<1> USE DEF ClosedInv
<1>0. /\ Len(stack) \in Nat /\ Len(stack') = Len(stack) - 1
      /\ \A k \in 1..Len(stack) : stack[k] \in Frame
  BY FrameType DEF Popped
<1>1. ASSUME NEW k \in 1..Len(stack')
      PROVE  /\ k + 1 \in 1..Len(stack)
             /\ stack'[k].file = stack[k + 1].file
             /\ k # 1 => stack'[k] = stack[k + 1]
             /\ k = 1 => stack'[k].dep = stack[2].dep + 1
  <2>1. k + 1 \in 1..Len(stack)
    BY <1>0
  <2>2. CASE k = 1
    BY <2>1, <2>2 DEF Popped
  <2>3. CASE k # 1
    <3>1. k \in 2..Len(stack')
      BY <1>0, <2>3
    <3> QED
      BY <2>1, <2>3, <3>1 DEF Popped
  <2> QED
    BY <2>2, <2>3
<1>2. FramesReady'
  <2> SUFFICES ASSUME NEW k \in 1..Len(stack'), NEW i \in DOMAIN Needed[stack'[k].file],
                      i < stack'[k].dep
               PROVE  /\ Needed[stack'[k].file][i] # None
                      /\ libraryMap'[Needed[stack'[k].file][i]] # None
    BY DEF FramesReady, Ready, Cached
  <2>1. /\ k + 1 \in 1..Len(stack)
        /\ stack[k + 1].file \in Files /\ stack[k + 1].dep \in Nat
        /\ stack'[k].file = stack[k + 1].file /\ i \in Nat
    BY <1>0, <1>1, NeededType DEF Frame
  <2>2. i < stack[k + 1].dep \/ (k = 1 /\ i = stack[2].dep)
    <3>1. CASE k = 1
      <4>1. i < stack[2].dep + 1 /\ stack[k + 1] = stack[2]
        BY <1>1, <3>1
      <4> QED
        BY <2>1, <3>1, <4>1
    <3>2. CASE k # 1
      BY <1>1, <3>2
    <3> QED
      BY <3>1, <3>2
  <2>3. CASE i < stack[k + 1].dep
    <3>1. Ready(stack[k + 1].file, i)
      BY <2>1, <2>3 DEF FramesReady
    <3> QED
      BY <2>1, <3>1, ReadyGrows
  <2>4. CASE k = 1 /\ i = stack[2].dep
    <3>1. Needed[stack[2].file][i] = Top.file /\ Top.file \in Files
      BY <1>0, <2>4 DEF FramesChained, Top, Frame
    <3> QED
      BY <2>1, <2>4, <3>1, FileAssumption
  <2> QED
    BY <2>2, <2>3, <2>4
<1>3. FramesChained'
  <2> SUFFICES ASSUME NEW k \in 2..Len(stack')
               PROVE  /\ stack'[k].dep \in DOMAIN Needed[stack'[k].file]
                      /\ Needed[stack'[k].file][stack'[k].dep] = stack'[k - 1].file
    BY DEF FramesChained
  <2>1. /\ k \in 1..Len(stack') /\ k - 1 \in 1..Len(stack') /\ k # 1
        /\ k + 1 \in 2..Len(stack) /\ (k - 1) + 1 = (k + 1) - 1
    BY <1>0
  <2> QED
    BY <1>1, <2>1 DEF FramesChained
<1>4. FramesDescend'
  <2> SUFFICES ASSUME NEW k \in 1..Len(stack'), NEW l \in 1..Len(stack'), k < l
               PROVE  Rank[stack'[k].file] < Rank[stack'[l].file]
    BY DEF FramesDescend
  <2>1. k + 1 < l + 1
    BY <1>0
  <2> QED
    BY <1>1, <2>1 DEF FramesDescend
<1> QED
  BY <1>2, <1>3, <1>4

\* the cache stays closed if what is new in it is
LEMMA ClosedGrows ==
  ASSUME TypeOK, Control, LibraryMapClosed, [Next]_vars,
         \A f \in Files : libraryMap'[f] # None => Cached(f) \/
            \A i \in DOMAIN Needed[f] : Ready(f, i)
  PROVE  LibraryMapClosed'
<1> SUFFICES ASSUME NEW f \in Files, libraryMap'[f] # None, NEW i \in DOMAIN Needed[f]
             PROVE  Needed[f][i] # None /\ libraryMap'[Needed[f][i]] # None
  BY DEF LibraryMapClosed, Cached
<1>1. Ready(f, i)
  BY DEF LibraryMapClosed, Ready
<1> QED
  BY <1>1, ReadyGrows

LEMMA ClosedStep == TypeOK /\ Control /\ ClosedInv /\ [Next]_vars => ClosedInv'
<1> SUFFICES ASSUME TypeOK, Control, ClosedInv, [Next]_vars PROVE ClosedInv'
  OBVIOUS
<1> USE DEF ClosedInv
<1>1. ASSUME \A f \in Files : libraryMap'[f] # None => Cached(f) PROVE LibraryMapClosed'
  BY <1>1, ClosedGrows
<1>2. ASSUME stack' = stack PROVE (FramesReady /\ FramesChained /\ FramesDescend)'
  <2>1. FramesReady'
    <3> SUFFICES ASSUME NEW k \in 1..Len(stack), NEW i \in DOMAIN Needed[stack[k].file],
                        i < stack[k].dep
                 PROVE  /\ Needed[stack[k].file][i] # None
                        /\ libraryMap'[Needed[stack[k].file][i]] # None
      BY <1>2 DEF FramesReady, Ready, Cached
    <3>1. stack[k].file \in Files
      BY FrameType DEF Frame
    <3> QED
      BY <3>1, ReadyGrows DEF FramesReady
  <2>2. (FramesChained /\ FramesDescend)'
    BY <1>2 DEF FramesChained, FramesDescend
  <2> QED
    BY <2>1, <2>2
<1>3. ASSUME stack' = <<>> PROVE (FramesReady /\ FramesChained /\ FramesDescend)'
  <2>1. Len(stack') = 0
    BY <1>3
  <2> QED
    BY <2>1 DEF FramesReady, FramesChained, FramesDescend
<1>4. CASE UNCHANGED <<libraryMap, stack>>
  BY <1>1, <1>2, <1>4 DEF Cached
<1>5. CASE LoadExec
  <2>1. image[task] \in Files /\ stack = <<>>
    BY <1>5, FileAssumption DEF LoadExec, Control
  <2> QED
    BY <1>1, <1>5, <2>1, ParsePushes, PushedFrames DEF LoadExec, Cached
<1>6. CASE FindLibrary
  <2>1. PICK lib \in Elf : Cached(lib) /\ CallLibrary(lib)
    BY <1>6 DEF FindLibrary
  <2>2. stack # <<>> /\ Moved
    BY <1>6, <2>1, NextDependencyMoves DEF FindLibrary, CallLibrary, Control
  <2>3. Ready(Top.file, Top.dep)
    BY <2>1, FileAssumption DEF Ready, CallLibrary
  <2> QED
    BY <1>1, <1>6, <2>2, <2>3, MovedFrames DEF FindLibrary, Cached
<1>7. CASE LoadLibrary
  <2>1. PICK lib \in Elf : CallLibrary(lib) /\ Parse(lib)
    BY <1>7 DEF LoadLibrary
  <2>2. lib \in Files /\ stack # <<>> /\ Top.file \in Files
    BY <2>1, FrameType, FileAssumption DEF CallLibrary, Control, Frame
  <2>3. Top.dep \in DOMAIN Needed[Top.file] /\ Needed[Top.file][Top.dep] = lib
    BY <2>1, <2>2, FrameType, NeededDomain DEF CallLibrary, Frame
  <2> QED
    BY <1>1, <1>7, <2>1, <2>2, <2>3, ParsePushes, PushedFrames DEF LoadLibrary, Cached
<1>8. CASE CollectLibrary
  <2>1. PICK lib \in Files : Parse(lib)
    <3>1. vmaIx \in DOMAIN mappedVMAs
      BY <1>8, MappedFiles DEF CollectLibrary, TypeOK, Control
    <3> QED
      BY <1>8, <3>1, MappedFiles, FileAssumption DEF CollectLibrary
  <2>2. stack = <<>>
    BY <1>8 DEF CollectLibrary, Control
  <2> QED
    BY <1>1, <1>8, <2>1, <2>2, ParsePushes, PushedFrames DEF CollectLibrary, Cached
<1>9. CASE InsertLoader
  <2>1. stack # <<>> /\ Top \in Frame /\ Top.file \in Files /\ Top = stack[1]
        /\ 1 \in 1..Len(stack)
    BY <1>9, FrameType DEF InsertLoader, Control, Frame, Top
  <2>2. \A i \in DOMAIN Needed[Top.file] : Ready(Top.file, i)
    <3> SUFFICES ASSUME NEW i \in DOMAIN Needed[Top.file] PROVE Ready(Top.file, i)
      OBVIOUS
    <3>1. i < Top.dep
      BY <1>9, <2>1, NeededDomain DEF InsertLoader, Frame
    <3> QED
      BY <2>1, <3>1 DEF FramesReady
  <2>3. NewLoader # None
    BY FileAssumption DEF NewLoader, Loader
  <2>4. LibraryMapClosed'
    <3>1. \A f \in Files : libraryMap'[f] # None => Cached(f) \/ f = Top.file
      BY <1>9 DEF InsertLoader, Cached, TypeOK
    <3> QED
      BY <2>2, <3>1, ClosedGrows
  <2>5. (FramesReady /\ FramesChained /\ FramesDescend)'
    <3>1. CASE Len(stack) > 1
      <4>1. libraryMap'[Top.file] # None
        BY <1>9, <2>1, <2>3 DEF InsertLoader, TypeOK
      <4> QED
        BY <1>9, <3>1, <4>1, InsertPops, PoppedFrames
    <3>2. CASE ~(Len(stack) > 1)
      BY <1>3, <1>9, <3>2 DEF InsertLoader
    <3> QED
      BY <3>1, <3>2
  <2> QED
    BY <2>4, <2>5
<1>10. CASE LoadVDSO
  <2>1. \A f \in Files : libraryMap'[f] # None => Cached(f) \/ f = Vdso
    BY <1>10 DEF LoadVDSO, Cached, TypeOK
  <2>2. DOMAIN Needed[Vdso] = {}
    <3>1. Needed[Vdso] = <<>>
      BY FileAssumption
    <3> QED
      BY <3>1
  <2>3. LibraryMapClosed'
    BY <2>1, <2>2, ClosedGrows
  <2> QED
    BY <1>2, <1>10, <2>3 DEF LoadVDSO
<1>11. CASE ApplyRelocations
  <2>1. \A f \in Files : libraryMap'[f] # None => Cached(f)
    BY <1>11 DEF ApplyRelocations, Control, Loaders, Cached, TypeOK
  <2> QED
    BY <1>1, <1>2, <1>11, <2>1 DEF ApplyRelocations
<1>12. CASE Guest \/ Ending \/ UNCHANGED vars
  BY <1>4, <1>12, GuestFrame, EndingFrame, Unchanged DEF vars, loadVars
<1>13. CASE Kernint
  BY <1>4, <1>5, <1>6, <1>7, <1>8, <1>9, <1>10, <1>11, <1>12, <1>13
  DEF Kernint, Ending, ListTasks, NextTask, CheckTerminated, CheckKernelTask, ReadExeName,
      MakeProcess, GetVMAInfo, CollectMapping, CollectNothing, CollectDone, RegisterSyms,
      CheckEnvironment, ValidateVMA, ValidateDone, loadVars
<1> QED
  BY <1>12, <1>13 DEF Next

(***************************************************************************)
(* What has been parsed: a library is being loaded or in the cache ever    *)
(* since; a program may be parsed once more by each Process, but not if it *)
(* was parsed for this one.                                                *)
(***************************************************************************)
OnStack(f) == \E k \in 1..Len(stack) : stack[k].file = f
Kept(f) == Cached(f) \/ OnStack(f)

ParsedInv ==
  /\ \A f \in Files \ Programs : parsed[f] <= 1 /\ (parsed[f] = 0 \/ Kept(f))
  /\ \A f \in Programs :
        /\ parsed[f] <= procs
        /\ pc \in {"vmas", "exec"} => parsed[f] < procs
        /\ pc \in {"load", "vdso", "collect"} => parsed[f] < procs \/ Kept(f)

\* a call is for a file that is not on the stack
LEMMA CalledIsNew ==
  ASSUME TypeOK, Control, ClosedInv, NEW f \in Files,
         stack # <<>> => /\ Top.dep \in DOMAIN Needed[Top.file]
                         /\ Needed[Top.file][Top.dep] = f
  PROVE  ~OnStack(f)
<1> SUFFICES ASSUME NEW k \in 1..Len(stack), stack[k].file = f PROVE FALSE
  BY DEF OnStack
<1>1. Len(stack) \in Nat /\ stack # <<>>
  BY FrameType
<1>2. Top \in Frame /\ Top = stack[1] /\ 1 \in 1..Len(stack)
  BY <1>1, FrameType DEF Top
<1>3. Top.file \in Files /\ f # None
  BY <1>2, FileAssumption DEF Frame
<1>4. Rank[f] < Rank[Top.file]
  BY <1>1, <1>3, DependencyAssumption
<1>5. k = 1 \/ Rank[Top.file] < Rank[f]
  BY <1>1, <1>2 DEF ClosedInv, FramesDescend
<1>6. Rank[f] \in Nat /\ Rank[Top.file] \in Nat
  BY <1>3, DependencyAssumption
<1> QED
  BY <1>2, <1>4, <1>5, <1>6

\* a parse that ParsedInv allows, of a file that was not kept
LEMMA ParseCounted ==
  ASSUME TypeOK, Control, ClosedInv, ParsedInv, [Next]_vars, NEW f \in Files, Parse(f),
         UNCHANGED <<libraryMap, procs>>, pc \in {"exec", "load", "collect"},
         f \in Programs => parsed[f] < procs,
         f \notin Programs => ~Kept(f)
  PROVE  ParsedInv'
<1>1. parsed' = [parsed EXCEPT ![f] = @ + 1] /\ pc' = "load"
  BY DEF Parse, Goto
<1>2. OnStack(f)' /\ \A g \in Files : OnStack(g) => OnStack(g)'
  <2>1. Pushed(f) /\ Len(stack) \in Nat
    BY ParsePushes, FrameType
  <2>2. 1 \in 1..Len(stack') /\ stack'[1].file = f
    BY <2>1 DEF Pushed
  <2>3. \A k \in 1..Len(stack) : k + 1 \in 1..Len(stack') /\ stack'[k + 1] = stack[k]
    BY <2>1 DEF Pushed
  <2> QED
    BY <2>2, <2>3 DEF OnStack
<1>3. \A g \in Files : Kept(g)' <=> Cached(g) \/ OnStack(g)'
  BY DEF Kept, Cached
<1>4. \A g \in Files : Kept(g) => Kept(g)'
  BY <1>2, <1>3 DEF Kept
<1>5. Kept(f)'
  BY <1>2, <1>3
<1>6. parsed \in [Files -> Nat] /\ procs \in Nat /\ procs' = procs
  BY DEF TypeOK
<1>7. ASSUME NEW g \in Files \ Programs PROVE parsed'[g] <= 1 /\ (parsed'[g] = 0 \/ Kept(g)')
  <2>1. CASE g = f
    BY <1>1, <1>5, <1>6, <2>1 DEF ParsedInv
  <2>2. CASE g # f
    BY <1>1, <1>4, <1>6, <2>2 DEF ParsedInv
  <2> QED
    BY <2>1, <2>2
<1>8. ASSUME NEW g \in Programs
      PROVE  parsed'[g] <= procs /\ (parsed'[g] < procs \/ Kept(g)')
  <2>0. g \in Files
    BY FileAssumption
  <2>1. CASE g = f
    BY <1>1, <1>5, <1>6, <2>0, <2>1
  <2>2. CASE g # f
    <3>1. parsed[g] <= procs /\ (parsed[g] < procs \/ Kept(g))
      <4>1. CASE pc \in {"load", "collect"}
        BY <4>1 DEF ParsedInv
      <4>2. CASE pc = "exec"
        BY <4>2 DEF ParsedInv
      <4> QED
        BY <4>1, <4>2
    <3> QED
      BY <1>1, <1>4, <1>6, <2>0, <2>2, <3>1
  <2> QED
    BY <2>1, <2>2
<1> QED
  BY <1>1, <1>6, <1>7, <1>8 DEF ParsedInv

\* what is kept stays kept: a loader leaves the stack for the cache
LEMMA KeptGrows ==
  ASSUME TypeOK, Control, [Next]_vars,
         stack' = stack \/ FindLibrary \/ InsertLoader
  PROVE  \A f \in Files : Kept(f) => Kept(f)'
<1> SUFFICES ASSUME NEW f \in Files, Kept(f) PROVE Kept(f)'
  OBVIOUS
<1>1. CASE Cached(f)
  BY <1>1, CacheGrows DEF Kept
<1>2. CASE OnStack(f)
  <2>1. PICK k \in 1..Len(stack) : stack[k].file = f
    BY <1>2 DEF OnStack
  <2>2. stack # <<>> /\ 1 \in 1..Len(stack) /\ Len(stack) \in Nat /\ Top.file = stack[1].file
    BY FrameType DEF Top
  <2>3. CASE stack' = stack
    BY <2>1, <2>3 DEF Kept, OnStack
  <2>4. CASE FindLibrary
    <3>1. Moved
      BY <2>2, <2>4, NextDependencyMoves DEF FindLibrary
    <3>2. k \in 1..Len(stack') /\ stack'[k].file = f
      BY <2>1, <2>2, <3>1 DEF Moved
    <3> QED
      BY <3>2 DEF Kept, OnStack
  <2>5. CASE InsertLoader
    <3>1. CASE k = 1
      <4>1. libraryMap'[f] # None
        <5>1. NewLoader # None
          BY FileAssumption DEF NewLoader, Loader
        <5>2. libraryMap' = [libraryMap EXCEPT ![f] = NewLoader]
          BY <2>1, <2>2, <2>5, <3>1 DEF InsertLoader
        <5> QED
          BY <5>1, <5>2 DEF TypeOK
      <4> QED
        BY <4>1 DEF Kept, Cached
    <3>2. CASE k # 1
      <4>1. Popped
        BY <2>1, <2>2, <2>5, <3>2, InsertPops
      <4>2. k - 1 \in 1..Len(stack') /\ (k - 1 = 1 \/ k - 1 \in 2..Len(stack'))
        BY <2>1, <2>2, <3>2, <4>1 DEF Popped
      <4>3. (k - 1) + 1 = k
        BY <2>1
      <4>4. stack'[k - 1].file = f
        <5>1. CASE k - 1 = 1
          BY <2>1, <4>1, <5>1 DEF Popped
        <5>2. CASE k - 1 \in 2..Len(stack')
          <6>1. stack'[k - 1] = stack[(k - 1) + 1]
            BY <4>1, <5>2 DEF Popped
          <6> QED
            BY <2>1, <4>3, <6>1
        <5> QED
          BY <4>2, <5>1, <5>2
      <4> QED
        BY <4>2, <4>4 DEF Kept, OnStack
    <3> QED
      BY <3>1, <3>2
  <2> QED
    BY <2>3, <2>4, <2>5
<1> QED
  BY <1>1, <1>2 DEF Kept

LEMMA ParsedStep == TypeOK /\ Control /\ ClosedInv /\ ParsedInv /\ [Next]_vars => ParsedInv'
<1> SUFFICES ASSUME TypeOK, Control, ClosedInv, ParsedInv, [Next]_vars PROVE ParsedInv'
  OBVIOUS
<1>0. /\ parsed \in [Files -> Nat] /\ procs \in Nat /\ Programs \subseteq Files
      /\ Elf \subseteq Files
  BY FileAssumption DEF TypeOK
<1>1. ASSUME UNCHANGED <<parsed, procs>>, stack' = stack \/ FindLibrary \/ InsertLoader,
             pc' \in {"vmas", "exec"} => pc \in {"vmas", "exec"},
             pc' \in {"load", "vdso", "collect"} => pc \in {"load", "vdso", "collect"}
      PROVE  ParsedInv'
  BY <1>0, <1>1, KeptGrows DEF ParsedInv
<1>2. CASE MakeProcess
  <2>1. /\ parsed' = parsed /\ procs' = procs + 1 /\ stack' = stack
        /\ pc' \in {"environment", "vmas"}
    BY <1>2 DEF MakeProcess, Goto, loadVars
  <2> QED
    BY <1>0, <2>1, KeptGrows DEF ParsedInv
<1>3. CASE LoadExec
  <2>1. task \in Tasks /\ image[task] \in Files /\ image[task] \in Programs
    BY <1>3, FileAssumption DEF LoadExec, Control, TypeOK
  <2> QED
    BY <1>3, <2>1, ParseCounted DEF LoadExec, procVars, ParsedInv
<1>4. CASE LoadLibrary
  <2>1. PICK lib \in Elf : ~Cached(lib) /\ CallLibrary(lib) /\ Parse(lib)
    BY <1>4 DEF LoadLibrary
  <2>2. /\ pc = "load" /\ lib \in Files /\ stack # <<>>
        /\ UNCHANGED <<libraryMap, procs>>
    BY <1>0, <1>4, <2>1 DEF LoadLibrary, CallLibrary, Control, procVars
  <2>3. Top.file \in Files /\ Top.dep \in Nat \ {0}
    BY <2>2, FrameType DEF Frame
  <2>4. Top.dep \in DOMAIN Needed[Top.file] /\ Needed[Top.file][Top.dep] = lib
    BY <2>1, <2>3, NeededDomain DEF CallLibrary
  <2>5. ~Kept(lib)
    BY <2>1, <2>2, <2>4, CalledIsNew DEF Kept
  <2> QED
    BY <2>1, <2>2, <2>5, ParseCounted DEF ParsedInv
<1>5. CASE CollectLibrary
  <2>1. PICK lib \in Files : ~Cached(lib) /\ Parse(lib)
    <3>1. vmaIx \in DOMAIN mappedVMAs
      BY <1>5, MappedFiles DEF CollectLibrary, TypeOK, Control
    <3> QED
      BY <1>5, <3>1, MappedFiles, FileAssumption DEF CollectLibrary
  <2>2. stack = <<>> /\ pc = "collect" /\ UNCHANGED <<libraryMap, procs>>
    BY <1>5 DEF CollectLibrary, Control, procVars
  <2>3. ~Kept(lib)
    BY <2>1, <2>2, CalledIsNew DEF Kept
  <2> QED
    BY <2>1, <2>2, <2>3, ParseCounted DEF ParsedInv
<1>6. CASE LoadVDSO
  <2>1. /\ pc = "vdso" /\ pc' = "collect" /\ procs' = procs /\ stack' = stack
        /\ stack = <<>> /\ Len(stack) = 0
    BY <1>6 DEF LoadVDSO, Goto, procVars, Control
  <2>2. \A f \in Files : Kept(f) => Kept(f)'
    BY <2>1, KeptGrows
  <2>3. Vdso \in Files \ Programs
    BY FileAssumption
  <2>4. CASE Cached(Vdso)
    BY <1>0, <1>6, <2>1, <2>2, <2>4 DEF LoadVDSO, ParsedInv
  <2>5. CASE ~Cached(Vdso)
    <3>1. parsed' = [parsed EXCEPT ![Vdso] = @ + 1]
      BY <1>6, <2>5 DEF LoadVDSO
    <3>2. parsed[Vdso] = 0
      BY <2>1, <2>3, <2>5 DEF ParsedInv, Kept, OnStack
    <3>3. Kept(Vdso)'
      <4>1. libraryMap'[Vdso] # None
        BY <1>6, <2>3, <2>5, FileAssumption DEF LoadVDSO, NewLoader, Loader, TypeOK
      <4> QED
        BY <4>1 DEF Kept, Cached
    <3>4. ASSUME NEW f \in Files \ Programs
          PROVE  parsed'[f] <= 1 /\ (parsed'[f] = 0 \/ Kept(f)')
      <4>1. CASE f = Vdso
        BY <1>0, <3>1, <3>2, <3>3, <4>1
      <4>2. CASE f # Vdso
        BY <1>0, <2>2, <3>1, <4>2 DEF ParsedInv
      <4> QED
        BY <4>1, <4>2
    <3>5. ASSUME NEW f \in Programs
          PROVE  parsed'[f] <= procs /\ (parsed'[f] < procs \/ Kept(f)')
      BY <1>0, <2>1, <2>2, <2>3, <3>1 DEF ParsedInv
    <3> QED
      BY <2>1, <3>4, <3>5 DEF ParsedInv
  <2> QED
    BY <2>4, <2>5
<1>7. CASE InsertLoader \/ FindLibrary
  BY <1>1, <1>7 DEF InsertLoader, FindLibrary, CallLibrary, NextDependency, Goto, procVars
<1>8. CASE Guest \/ Ending \/ UNCHANGED vars
  BY <1>1, <1>8, GuestFrame, EndingFrame, Unchanged DEF vars, loadVars, procVars
<1>9. CASE ListTasks \/ NextTask \/ CheckTerminated \/ CheckKernelTask \/ ReadExeName
           \/ GetVMAInfo \/ CollectMapping \/ CollectNothing \/ CollectDone \/ RegisterSyms
           \/ ApplyRelocations \/ CheckEnvironment \/ ValidateVMA \/ ValidateDone
  BY <1>1, <1>9
  DEF ListTasks, NextTask, CheckTerminated, CheckKernelTask, ReadExeName, GetVMAInfo,
      CollectMapping, CollectNothing, CollectDone, RegisterSyms, ApplyRelocations,
      CheckEnvironment, ValidateVMA, ValidateDone, AfterTask, Goto, loadVars, procVars
<1> QED
  BY <1>2, <1>3, <1>4, <1>5, <1>6, <1>7, <1>8, <1>9 DEF Next, Kernint, Ending

-----------------------------------------------------------------------------
(* The process that is scanned: its images and its name.                   *)

LEMMA RelocatedStep ==
  TypeOK /\ Control /\ RelocatedForThisProcess /\ [Next]_vars => RelocatedForThisProcess'
<1> SUFFICES ASSUME TypeOK, Control, RelocatedForThisProcess, [Next]_vars,
                    pc' \in {"environment", "validate"}
             PROVE  /\ Loaders' \subseteq symbols'
                    /\ \A f \in Loaders' : libraryMap'[f].relocatedFor = procs'
  BY DEF RelocatedForThisProcess
<1>1. CASE pc \in {"environment", "validate"} /\ UNCHANGED <<procVars, libraryMap>>
  BY <1>1 DEF RelocatedForThisProcess, Loaders, procVars
<1>2. CASE MakeProcess
  BY <1>2 DEF MakeProcess, Loaders
<1>3. CASE ApplyRelocations
  <2>1. /\ Loaders' = Loaders /\ procs' = procs /\ symbols' = symbols /\ symbols = Loaders
    BY <1>3 DEF ApplyRelocations, Loaders, Control, procVars
  <2>2. ASSUME NEW f \in Loaders PROVE libraryMap'[f].relocatedFor = procs
    <3>1. f \in Files /\ libraryMap[f] \in Loader
      BY MappedFiles DEF Loaders, Control, Cached, TypeOK
    <3>2. libraryMap'[f] = [libraryMap[f] EXCEPT !.relocatedFor = procs]
      BY <1>3, <3>1 DEF ApplyRelocations
    <3> QED
      BY <3>1, <3>2 DEF Loader
  <2> QED
    BY <2>1, <2>2
<1>4. CASE Guest \/ Ending \/ UNCHANGED vars
  BY <1>1, <1>4, GuestFrame, EndingFrame, Unchanged DEF vars, procVars
<1>5. CASE CheckEnvironment \/ ValidateVMA
  BY <1>1, <1>5 DEF CheckEnvironment, ValidateVMA, Goto, loadVars
<1>6. CASE Kernint
  BY <1>2, <1>3, <1>4, <1>5, <1>6
  DEF Kernint, Ending, ListTasks, NextTask, CheckTerminated, CheckKernelTask, ReadExeName,
      GetVMAInfo, LoadExec, FindLibrary, CallLibrary, NextDependency, LoadLibrary, Parse,
      InsertLoader, LoadVDSO, CollectLibrary, CollectMapping, CollectNothing, CollectDone,
      RegisterSyms, ValidateDone, AfterTask, Goto
<1> QED
  BY <1>4, <1>6 DEF Next

(***************************************************************************)
(* Unless the task has called exec since main read its name, it runs the   *)
(* program of that name or none, and so the executable's image is that     *)
(* program's, from the parse of the file on.                               *)
(***************************************************************************)
Named == {"process", "vmas", "exec", "load", "validate", "environment"} \cup HasExec

ImageInv ==
  pc \in Named =>
    /\ nameExecs <= execs[task]
    /\ binaryName \in Programs
    /\ pc \in {"environment", "validate"} /\ execLoader = None => mappedVMAs = <<>>
    /\ nameExecs = execs[task] =>
         /\ image[task] \in {binaryName, NoMm, Gone}
         /\ pc # "process" => execLoader \in {binaryName, None}
         /\ pc = "load" /\ execLoader = None => stack[Len(stack)].file = binaryName

LEMMA ImageStep == TypeOK /\ Control /\ ImageInv /\ [Next]_vars => ImageInv'
<1> SUFFICES ASSUME TypeOK, Control, ImageInv, [Next]_vars, pc' \in Named
             PROVE  ImageInv'
  BY DEF ImageInv
<1>0. pc \in Named => /\ task \in Tasks /\ nameExecs \in Nat /\ execs[task] \in Nat
                       /\ Len(stack) \in Nat
  BY FrameType, FileAssumption DEF Named, HasExec, Control, TypeOK
<1>1. CASE /\ UNCHANGED <<guestVars, mainVars, mappedVMAs, execLoader>> /\ pc \in Named
           /\ pc' \in {"environment", "validate"} => pc \in {"environment", "validate"} \cup HasExec
           /\ pc' # "process" => pc # "process"
           /\ pc' = "load" /\ execLoader = None
              => pc = "load" /\ stack'[Len(stack')].file = stack[Len(stack)].file
  BY <1>1 DEF ImageInv, guestVars, mainVars, Control, HasExec
<1>2. CASE ReadExeName
  <2>1. task \in Tasks /\ execs[task] \in Nat
    BY <1>2, FileAssumption DEF ReadExeName, Control, TypeOK
  <2>2. /\ nameExecs' = execs[task] /\ execs' = execs /\ image' = image /\ task' = task
        /\ binaryName' = image[task] /\ image[task] \in Programs /\ pc' = "process"
    BY <1>2 DEF ReadExeName, HasMm, Goto, guestVars
  <2> QED
    BY <2>1, <2>2 DEF ImageInv
<1>3. CASE MakeProcess
  BY <1>3 DEF MakeProcess, ImageInv, Named, Goto, guestVars, mainVars
<1>4. CASE GetVMAInfo
  BY <1>4 DEF GetVMAInfo, ImageInv, Named, Goto, guestVars, mainVars, Control
<1>5. CASE LoadExec
  <2>1. image[task] \in Files /\ Pushed(image[task]) /\ stack = <<>>
    BY <1>5, ParsePushes, FileAssumption DEF LoadExec, Control
  <2>2. Len(stack') = 1 /\ stack'[Len(stack')].file = image[task]
    BY <2>1 DEF Pushed
  <2>3. image[task] \notin {NoMm, Gone}
    BY <2>1, FileAssumption
  <2> QED
    BY <1>5, <2>2, <2>3
    DEF LoadExec, Parse, ImageInv, Named, Goto, guestVars, mainVars, procVars, Control
<1>6. CASE FindLibrary
  <2>1. stack # <<>> /\ Moved /\ 1 \in 1..Len(stack)
    BY <1>6, FrameType, NextDependencyMoves DEF FindLibrary, CallLibrary, Control
  <2>2. stack'[Len(stack')].file = stack[Len(stack)].file
    BY <1>0, <2>1, FrameType DEF Moved, Top
  <2> QED
    BY <1>1, <1>6, <2>2 DEF FindLibrary, CallLibrary, NextDependency, Goto, procVars, Named
<1>7. CASE LoadLibrary
  <2>1. PICK lib \in Elf : CallLibrary(lib) /\ Parse(lib)
    BY <1>7 DEF LoadLibrary
  <2>2. Pushed(lib) /\ stack # <<>> /\ Len(stack) \in 1..Len(stack)
    BY <2>1, ParsePushes, FrameType, FileAssumption DEF CallLibrary, Control
  <2>3. stack'[Len(stack')].file = stack[Len(stack)].file
    BY <2>2 DEF Pushed
  <2> QED
    BY <1>1, <1>7, <2>1, <2>3 DEF LoadLibrary, CallLibrary, Parse, Goto, procVars, Named
<1>8. CASE CollectLibrary
  BY <1>1, <1>8 DEF CollectLibrary, Parse, Goto, procVars, Named, HasExec, Control
<1>9. CASE InsertLoader
  <2>0. pc = "load" /\ stack # <<>> /\ 1 \in 1..Len(stack) /\ Len(stack) \in Nat
        /\ UNCHANGED <<guestVars, mainVars, mappedVMAs>>
    BY <1>9, FrameType DEF InsertLoader, Control
  <2>1. CASE Len(stack) > 1
    <3>1. Popped
      BY <1>9, <2>1, InsertPops
    <3>2. Len(stack') = 1 \/ Len(stack') \in 2..Len(stack')
      BY <2>0, <2>1, <3>1 DEF Popped
    <3>3. (Len(stack) - 1) + 1 = Len(stack) /\ (Len(stack') = 1 => Len(stack) = 2)
      BY <2>0, <3>1 DEF Popped
    <3>4. stack'[Len(stack')].file = stack[Len(stack)].file
      BY <2>0, <3>1, <3>2, <3>3 DEF Popped
    <3> QED
      BY <1>1, <1>9, <2>0, <2>1, <3>4 DEF InsertLoader, Goto, Named
  <2>2. CASE ~(Len(stack) > 1)
    <3>1. Len(stack) = 1 /\ Top.file = stack[Len(stack)].file
      BY <2>0, <2>2 DEF Top
    <3>2. pc' \in {"vdso", "collect"}
          /\ execLoader' = IF execLoader = None THEN Top.file ELSE execLoader
      BY <1>9, <2>2 DEF InsertLoader, Goto
    <3> QED
      BY <2>0, <3>1, <3>2 DEF ImageInv, Named, guestVars, mainVars
  <2> QED
    BY <2>1, <2>2
<1>10. CASE Guest
  <2>0. UNCHANGED <<mainVars, procVars, loadVars, pc>>
    BY <1>10, GuestFrame
  <2>1. task \in Tasks /\ pc \in Named
    BY <2>0 DEF Named, HasExec, Control
  <2>2. CASE execs'[task] = execs[task] /\ image'[task] \in {image[task], NoMm, Gone}
    BY <2>0, <2>1, <2>2, Unchanged DEF ImageInv
  <2>3. CASE execs'[task] = execs[task] + 1
    <3>1. nameExecs < execs'[task]
      BY <1>0, <2>1, <2>3 DEF ImageInv
    <3>2. nameExecs' < execs'[task]
      BY <2>0, <3>1, Unchanged
    <3>3. nameExecs' <= execs'[task] /\ nameExecs' # execs'[task]
      BY <1>0, <2>0, <2>1, <2>3, <3>2, Unchanged
    <3> QED
      BY <2>0, <2>1, <3>3, Unchanged DEF ImageInv
  <2> QED
    BY <1>10, <2>1, <2>2, <2>3 DEF Guest, Exec, Exit, TypeOK
<1>11. CASE Ending \/ UNCHANGED vars
  BY <1>1, <1>11, EndingFrame, Unchanged DEF vars, guestVars, mainVars, procVars, loadVars
<1>12. CASE LoadVDSO \/ CollectMapping \/ CollectNothing \/ CollectDone \/ RegisterSyms
            \/ ApplyRelocations \/ CheckEnvironment \/ ValidateVMA
  BY <1>1, <1>12
  DEF LoadVDSO, CollectMapping, CollectNothing, CollectDone, RegisterSyms, ApplyRelocations,
      CheckEnvironment, ValidateVMA, Goto, procVars, loadVars, Named, HasExec
<1>13. CASE ListTasks \/ NextTask \/ CheckTerminated \/ CheckKernelTask \/ ValidateDone
  BY <1>13 DEF ListTasks, NextTask, CheckTerminated, CheckKernelTask, ValidateDone, AfterTask,
               Goto, Named, HasExec
<1> QED
  BY <1>2, <1>3, <1>4, <1>5, <1>6, <1>7, <1>8, <1>9, <1>10, <1>11, <1>12, <1>13
  DEF Next, Kernint, Ending

-----------------------------------------------------------------------------
IInv ==
  TypeOK /\ Control /\ ClosedInv /\ ParsedInv /\ RelocatedForThisProcess /\ ImageInv

LEMMA IInvInit == Init => IInv
<1> SUFFICES ASSUME Init PROVE IInv
  OBVIOUS
<1>1. TypeOK /\ Control
  BY InitTypes
<1>2. Len(stack) = 0 /\ pc \in {"single", "list"}
  BY DEF Init
<1>3. \A f \in Files : ~Cached(f) /\ parsed[f] = 0
  BY DEF Init, Cached
<1>4. ClosedInv
  BY <1>2, <1>3 DEF ClosedInv, FramesReady, FramesChained, FramesDescend, LibraryMapClosed
<1>5. ParsedInv
  BY <1>2, <1>3, FileAssumption DEF ParsedInv, Init
<1>6. RelocatedForThisProcess /\ ImageInv
  BY <1>2 DEF RelocatedForThisProcess, ImageInv, Named, HasExec
<1> QED
  BY <1>1, <1>4, <1>5, <1>6 DEF IInv

LEMMA IInvStep == IInv /\ [Next]_vars => IInv'
BY TypeStep, ControlStep, ClosedStep, ParsedStep, RelocatedStep, ImageStep DEF IInv

THEOREM Invariance == Spec => []IInv
BY IInvInit, IInvStep, PTL DEF Spec

(***************************************************************************)
(* The variables of the process scan keep their types.                     *)
(***************************************************************************)
THEOREM TypeCorrect == Spec => []TypeOK
<1>1. IInv => TypeOK
  BY DEF IInv
<1> QED
  BY <1>1, Invariance, PTL

(***************************************************************************)
(* loadLibrary and loadExec put a loader into libraryMap behind all that it*)
(* needs.                                                                  *)
(***************************************************************************)
THEOREM CacheClosed == Spec => []LibraryMapClosed
<1>1. IInv => LibraryMapClosed
  BY DEF IInv, ClosedInv
<1> QED
  BY <1>1, Invariance, PTL

(***************************************************************************)
(* No library is parsed twice, a program at most once for each Process, and*)
(* no load is in progress twice, by whatever path a file is reached.       *)
(***************************************************************************)
THEOREM EachParsedOnce == Spec => []ParsedOnce
<1>1. IInv => ParsedOnce
  <2> SUFFICES ASSUME IInv PROVE ParsedOnce
    OBVIOUS
  <2>1. \A i, j \in DOMAIN stack : stack[i].file = stack[j].file => i = j
    <3> SUFFICES ASSUME NEW i \in DOMAIN stack, NEW j \in DOMAIN stack,
                        stack[i].file = stack[j].file, i # j
                 PROVE  FALSE
      OBVIOUS
    <3>1. DOMAIN stack = 1..Len(stack) /\ Len(stack) \in Nat
      BY LenProperties DEF IInv, TypeOK
    <3>2. stack[i].file \in Files
      BY <3>1, FrameType DEF IInv, Frame
    <3>3. Rank[stack[i].file] \in Nat
      BY <3>2, DependencyAssumption
    <3>4. Rank[stack[i].file] < Rank[stack[j].file] \/ Rank[stack[j].file] < Rank[stack[i].file]
      BY <3>1 DEF IInv, ClosedInv, FramesDescend
    <3> QED
      BY <3>3, <3>4
  <2> QED
    BY <2>1 DEF IInv, ParsedInv, ParsedOnce
<1> QED
  BY <1>1, Invariance, PTL

(***************************************************************************)
(* processLoadRel relocates every loader of the process, whatever process  *)
(* it was made for.                                                        *)
(***************************************************************************)
THEOREM RelocationIsOwn == Spec => []RelocatedForThisProcess
<1>1. IInv => RelocatedForThisProcess
  BY DEF IInv
<1> QED
  BY <1>1, Invariance, PTL

(***************************************************************************)
(* Unless the task execs under the scan, a mapping is compared with its own*)
(* file's image or one whose path has it as a tail, and never with none.   *)
(***************************************************************************)
THEOREM ComparisonIsOwn == Spec => []ComparedWithOwnFile
<1>1. IInv => ComparedWithOwnFile
  <2> SUFFICES ASSUME IInv, pc = "validate", NEW i \in DOMAIN mappedVMAs
               PROVE  LET v == mappedVMAs[i] IN
                        /\ execLoader # None
                        /\ \/ CodeImage(v) \in {v.file, None}
                           \/ execs[task] > nameExecs
                           \/ v.file \in Tails[binaryName] \ {binaryName}
    BY DEF ComparedWithOwnFile
  <2>1. mappedVMAs # <<>>
    BY MappedFiles DEF IInv
  <2>2. execLoader # None /\ nameExecs <= execs[task]
        /\ (nameExecs = execs[task] => execLoader = binaryName)
    BY <2>1 DEF IInv, ImageInv, Named
  <2>3. nameExecs \in Nat /\ execs[task] \in Nat
    BY FileAssumption DEF IInv, Control, TypeOK
  <2> QED
    BY <2>2, <2>3 DEF CodeImage
<1> QED
  BY <1>1, Invariance, PTL
=============================================================================
