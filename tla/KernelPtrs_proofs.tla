------------------------- MODULE KernelPtrs_proofs -------------------------
(***************************************************************************)
(* What the search for kernel pointers passes over, which return addresses *)
(* it accepts and which bytes of read-only data it lets differ, for every  *)
(* content of every stack and page and whatever is known of the pointers.  *)
(***************************************************************************)
EXTENDS KernelPtrs, FiniteSetTheorems, TLAPS

LEMMA SizeNat == Size \in Nat /\ Size > 8
BY AreaAssumption

LEMMA PointerType ==
  ASSUME area \in Area, NEW p \in 0..Size
  PROVE  Pointer(p) \in AboutPointer
<1> DEFINE low == [k \in 1..4 |-> area.mem[p + k - 1]]
<1>1. area.mem \in [Positions -> Bytes]
  BY DEF Area
<1>2. \A k \in 1..4 : p + k - 1 \in Positions
  BY SizeNat DEF Positions
<1>3. low \in Halves
  BY <1>1, <1>2 DEF Halves
<1>4. About \in [Halves -> AboutPointer]
  BY AreaAssumption
<1> QED
  BY <1>3, <1>4 DEF Pointer

-----------------------------------------------------------------------------
(* Types.                                                                  *)

\* what may be said, and of which position
Reports ==
  ({"undecidable", "beyond", "no return", "unvalidated"} \X (0..(Size - 9)))
    \cup ({"rodata"} \X (0..Size))

\* the parts of TypeOK: what the search works on, its counter, its results
Place ==
  /\ area \in Area
  /\ label \in {"begin", "stack", "data", "rodata", "chain", "done", "exit"}
  /\ label \in {"stack", "data"} => i >= 4
  /\ i \in 0..(Size + 12)

Results ==
  /\ codePtrs \in Nat
  /\ returns \subseteq (0..(Size - 9))
  /\ walked \subseteq returns
  /\ oldRetFunc \in Functions \cup {None}
  /\ reported \subseteq Reports

LEMMA TypeParts == TypeOK <=> Place /\ Results
BY DEF TypeOK, Place, Results, Reports

LEMMA PlaceStep == Place /\ [Next]_vars => Place'
<1> SUFFICES ASSUME Place, [Next]_vars PROVE Place'
  OBVIOUS
<1> USE SizeNat DEF Place
<1>1. CASE UNCHANGED <<area, label, i>>
  BY <1>1
<1>2. CASE BeginStack
  <2>1. area.sp \in 4..Size
    BY DEF Area
  <2>2. area' = area /\ label' = "stack" /\ i' = area.sp
    BY <1>2 DEF BeginStack
  <2> QED
    BY <2>1, <2>2
<1>3. CASE BeginData
  <2>1. area' = area /\ label' \in {"done", "data"} /\ i' = 4
    BY <1>3 DEF BeginData
  <2> QED
    BY <2>1
<1>4. ASSUME area' = area, label' = label, InPageLoop, i >= 4, i' \in {i + 1, i + 9, i + 17}
      PROVE  Place'
  BY <1>4 DEF InPageLoop
<1>5. CASE SkipOnes \/ ReportBeyond \/ PassData \/ SkipBreakpoint \/ CountPointer
             \/ PassStack \/ NoteReturn
  <2>1. /\ area' = area /\ label' = label /\ InPageLoop /\ i >= 4
        /\ i' \in {i + 1, i + 9, i + 17}
    BY <1>5 DEF SkipOnes, ReportBeyond, PassData, SkipBreakpoint, CountPointer,
                PassStack, NoteReturn
  <2> QED
    BY <2>1, <1>4
<1>6. ASSUME area' = area, i' = i, label' \in {"rodata", "chain", "done", "exit"}
      PROVE  Place'
  BY <1>6
<1>7. CASE BeginRoData \/ FoundDebug \/ DataDone \/ StackRead \/ StackDone
             \/ StopAtZeroPage \/ RoDataDone
  <2>1. area' = area /\ i' = i /\ label' \in {"rodata", "chain", "done", "exit"}
    BY <1>7 DEF BeginRoData, FoundDebug, DataDone, StackRead, StackDone,
                StopAtZeroPage, RoDataDone
  <2> QED
    BY <2>1, <1>6
<1>8. CASE PassRoData \/ SkipKvmWrite \/ ReportRoData
  <2>1. /\ area' = area /\ label' = label /\ label = "rodata" /\ i <= Size
        /\ i' \in {i + 1, i + 8}
    BY <1>8 DEF PassRoData, SkipKvmWrite, ReportRoData
  <2> QED
    BY <2>1
<1> QED
  BY <1>1, <1>2, <1>3, <1>5, <1>7, <1>8
  DEF Next, Begin, DataStep, StackStep, RoDataStep, NextReturn, vars

LEMMA ResultsStep == Place /\ Results /\ [Next]_vars => Results'
<1> SUFFICES ASSUME Place, Results, [Next]_vars PROVE Results'
  OBVIOUS
<1> USE DEF Results
<1>0. Size \in Nat /\ Size > 8 /\ i \in Nat /\ (label \in {"stack", "data"} => i >= 4)
  BY SizeNat DEF Place
<1>1. CASE UNCHANGED <<codePtrs, returns, walked, oldRetFunc, reported>>
  BY <1>1
<1>2. ASSUME NEW what \in {"undecidable", "beyond", "no return", "unvalidated"},
             NEW p \in 0..(Size - 9)
      PROVE  <<what, p>> \in Reports
  BY DEF Reports
<1>3. ASSUME label \in {"stack", "data"}, InPageLoop PROVE i - 4 \in 0..(Size - 9)
  BY <1>3, <1>0 DEF InPageLoop
<1>4. CASE ReportBeyond
  <2>1. i - 4 \in 0..(Size - 9)
    BY <1>4, <1>3 DEF ReportBeyond
  <2>2. <<"beyond", i - 4>> \in Reports
    BY <2>1, <1>2
  <2>3. /\ UNCHANGED <<codePtrs, returns, walked, oldRetFunc>>
        /\ reported' = reported \cup {<<"beyond", i - 4>>}
    BY <1>4 DEF ReportBeyond, Report
  <2> QED
    BY <2>2, <2>3
<1>5. CASE CountPointer
  <2>1. i - 4 \in 0..(Size - 9)
    BY <1>5, <1>3 DEF CountPointer
  <2>2. <<"undecidable", i - 4>> \in Reports
    BY <2>1, <1>2
  <2>3. /\ UNCHANGED <<returns, walked, oldRetFunc>>
        /\ codePtrs' = codePtrs + 1
        /\ reported' = reported \cup {<<"undecidable", i - 4>>}
    BY <1>5 DEF CountPointer, Report
  <2> QED
    BY <2>2, <2>3
<1>6. CASE NoteReturn
  <2>1. i - 4 \in 0..(Size - 9)
    BY <1>6, <1>3 DEF NoteReturn
  <2>2. /\ UNCHANGED <<codePtrs, walked, oldRetFunc, reported>>
        /\ returns' = returns \cup {i - 4}
    BY <1>6 DEF NoteReturn
  <2> QED
    BY <2>1, <2>2
<1>7. CASE NextReturn
  <2>1. PICK p \in Unseen :
          /\ walked' = walked \cup {p}
          /\ oldRetFunc' = Pointer(p).inside
          /\ reported' \subseteq
               reported \cup {<<"no return", p>>, <<"unvalidated", p>>}
    BY <1>7 DEF NextReturn
  <2>a. p \in returns
    BY <2>1 DEF Unseen
  <2>b. p \in 0..(Size - 9)
    BY <2>a
  <2>2. p \in returns /\ p \in 0..(Size - 9) /\ p \in 0..Size
    BY <2>a, <2>b, SizeNat
  <2>3. Pointer(p) \in AboutPointer
    BY <2>2, PointerType DEF Place
  <2>4. oldRetFunc' \in Functions \cup {None}
    BY <2>1, <2>3 DEF AboutPointer
  <2>5. <<"no return", p>> \in Reports /\ <<"unvalidated", p>> \in Reports
    BY <2>2, <1>2
  <2>6. UNCHANGED <<codePtrs, returns>>
    BY <1>7 DEF NextReturn
  <2> QED
    BY <2>1, <2>2, <2>4, <2>5, <2>6
<1>8. CASE ReportRoData
  <2>a. i \in 0..Size
    BY <1>8, <1>0 DEF ReportRoData
  <2>1. <<"rodata", i>> \in Reports
    BY <2>a DEF Reports
  <2>2. /\ UNCHANGED <<codePtrs, returns, walked, oldRetFunc>>
        /\ reported' = reported \cup {<<"rodata", i>>}
    BY <1>8 DEF ReportRoData
  <2> QED
    BY <2>1, <2>2
<1>9. CASE \/ Begin \/ SkipOnes \/ PassData \/ FoundDebug \/ SkipBreakpoint
           \/ DataDone \/ PassStack \/ StackRead \/ StackDone \/ PassRoData
           \/ SkipKvmWrite \/ StopAtZeroPage \/ RoDataDone
  BY <1>9, <1>1
  DEF Begin, BeginStack, BeginData, BeginRoData, SkipOnes, PassData, FoundDebug,
      SkipBreakpoint, DataDone, PassStack, StackRead, StackDone, PassRoData,
      SkipKvmWrite, StopAtZeroPage, RoDataDone
<1> QED
  BY <1>1, <1>4, <1>5, <1>6, <1>7, <1>8, <1>9
  DEF Next, DataStep, StackStep, RoDataStep, vars

LEMMA TypeInit == Init => TypeOK
BY AreaAssumption DEF Init, TypeOK

LEMMA TypeStep == TypeOK /\ [Next]_vars => TypeOK'
<1>1. (TypeOK <=> Place /\ Results)'
  BY TypeParts, PTL
<1> QED
  BY <1>1, TypeParts, PlaceStep, ResultsStep

LEMMA CounterNat == TypeOK => i \in Nat
BY SizeNat, TypeParts DEF Place

LEMMA CounterNatNext == TypeOK' => i' \in Nat
<1>1. (TypeOK => i \in Nat)'
  BY CounterNat, PTL
<1> QED
  BY <1>1

(***************************************************************************)
(* The examination's variables keep their types: no loop reads a quadword  *)
(* that begins in the last eight bytes of the page.                        *)
(***************************************************************************)
THEOREM TypeCorrect == Spec => []TypeOK
BY TypeInit, TypeStep, PTL DEF Spec
-----------------------------------------------------------------------------
(* The search for pointers.                                                *)

(***************************************************************************)
(* Which loop runs over which kind of area, and that nothing is counted    *)
(* ahead of the counter, so that what is counted next is new.              *)
(***************************************************************************)
Loops ==
  /\ label = "begin" => i = 0 /\ returns = {} /\ walked = {} /\ reported = {}
  /\ label = "data" => area.kind = "data" /\ ~area.ofStack
  /\ label \in {"stack", "chain"} => area.kind = "stack"
  /\ label = "rodata" => area.kind = "rodata"

CountedBehind ==
  /\ \A p \in Int : <<"undecidable", p>> \in reported => p + 4 < i
  /\ IsFiniteSet(Counted)
  /\ codePtrs = Cardinality(Counted)

LEMMA LoopsStep == TypeOK /\ Loops /\ [Next]_vars => Loops'
<1> SUFFICES ASSUME TypeOK, Loops, [Next]_vars PROVE Loops'
  OBVIOUS
<1> USE DEF Loops
<1>1. CASE UNCHANGED vars
  BY <1>1 DEF vars
<1>2. CASE Begin
  BY <1>2 DEF Begin, BeginStack, BeginData, BeginRoData
<1>3. CASE SkipOnes \/ ReportBeyond
  BY <1>3 DEF SkipOnes, ReportBeyond
<1>4. CASE DataStep
  BY <1>4 DEF DataStep, PassData, FoundDebug, SkipBreakpoint, CountPointer, DataDone
<1>5. CASE StackStep
  BY <1>5 DEF StackStep, PassStack, NoteReturn, StackRead, NextReturn, StackDone
<1>6. CASE RoDataStep
  BY <1>6 DEF RoDataStep, PassRoData, SkipKvmWrite, StopAtZeroPage, ReportRoData,
              RoDataDone
<1> QED
  BY <1>1, <1>2, <1>3, <1>4, <1>5, <1>6 DEF Next, vars

\* a step that counts nothing
LEMMA CountedSame ==
  ASSUME TypeOK, CountedBehind, i' \in Nat, i' >= i \/ reported = {},
         codePtrs' = codePtrs,
         \A r : r[1] = "undecidable" => (r \in reported' <=> r \in reported)
  PROVE  CountedBehind'
<1>1. Counted' = Counted
  BY DEF Counted
<1>2. \A p \in Int : <<"undecidable", p>> \in reported' => <<"undecidable", p>> \in reported
  OBVIOUS
<1>3. i \in Nat
  BY CounterNat
<1>4. ASSUME NEW p \in Int, <<"undecidable", p>> \in reported' PROVE p + 4 < i'
  <2>1. <<"undecidable", p>> \in reported
    BY <1>2, <1>4
  <2>2. p + 4 < i
    BY <2>1 DEF CountedBehind
  <2> QED
    BY <2>1, <2>2, <1>3
<1> QED
  BY <1>1, <1>4 DEF CountedBehind

LEMMA CountedStep == TypeOK /\ CountedBehind /\ Loops /\ [Next]_vars => CountedBehind'
<1> SUFFICES ASSUME TypeOK, CountedBehind, Loops, [Next]_vars PROVE CountedBehind'
  OBVIOUS
<1>0. i \in Nat
  BY CounterNat
<1>b. i' \in Nat
  BY TypeStep, CounterNatNext
<1>1. CASE CountPointer
  <2> DEFINE new == <<"undecidable", i - 4>>
  <2>1. /\ i' = i + 1
        /\ codePtrs' = codePtrs + 1
        /\ reported' = reported \cup {new}
    BY <1>1 DEF CountPointer, Report
  <2>2. new \notin reported
    BY <1>0 DEF CountedBehind
  <2>3. Counted' = Counted \cup {new}
    BY <2>1 DEF Counted
  <2>4. new \notin Counted
    BY <2>2 DEF Counted
  <2>5. IsFiniteSet(Counted) /\ codePtrs = Cardinality(Counted)
    BY DEF CountedBehind
  <2>6. /\ IsFiniteSet(Counted \cup {new})
        /\ Cardinality(Counted \cup {new}) = Cardinality(Counted) + 1
    BY <2>4, <2>5, FS_AddElement
  <2>7. ASSUME NEW p \in Int, <<"undecidable", p>> \in reported' PROVE p + 4 < i'
    <3>1. CASE p = i - 4
      BY <3>1, <2>1, <1>0
    <3>2. CASE p # i - 4
      <4>1. <<"undecidable", p>> \in reported
        BY <3>2, <2>7, <2>1
      <4>2. p + 4 < i
        BY <4>1 DEF CountedBehind
      <4> QED
        BY <4>2, <2>1, <1>0
    <3> QED
      BY <3>1, <3>2
  <2> HIDE DEF new
  <2> QED
    BY <2>1, <2>3, <2>5, <2>6, <2>7 DEF CountedBehind
<1>2. CASE Begin
  <2>1. reported = {} /\ reported' = reported /\ codePtrs' = codePtrs
    BY <1>2 DEF Begin, BeginStack, BeginData, BeginRoData, Loops
  <2> QED
    BY <2>1, <1>b, CountedSame
<1>3. CASE NextReturn
  <2>1. PICK p \in Unseen :
          /\ reported \subseteq reported'
          /\ reported' \subseteq
               reported \cup {<<"no return", p>>, <<"unvalidated", p>>}
    BY <1>3 DEF NextReturn
  <2>2. <<"no return", p>>[1] = "no return" /\ <<"unvalidated", p>>[1] = "unvalidated"
    OBVIOUS
  <2>2b. \A r : r[1] = "undecidable" => (r \in reported' <=> r \in reported)
    BY <2>1, <2>2
  <2>3. i' = i /\ codePtrs' = codePtrs
    BY <1>3 DEF NextReturn
  <2> QED
    BY <2>2b, <2>3, <1>0, <1>b, CountedSame
<1>4. CASE ReportBeyond \/ ReportRoData
  <2>1. /\ i' = i + 1 /\ codePtrs' = codePtrs
        /\ \E r : r[1] # "undecidable" /\ reported' = reported \cup {r}
    BY <1>4 DEF ReportBeyond, ReportRoData, Report
  <2>2. \A r : r[1] = "undecidable" => (r \in reported' <=> r \in reported)
    BY <2>1
  <2> QED
    BY <2>1, <2>2, <1>0, <1>b, CountedSame
<1>5. ASSUME i' >= i, codePtrs' = codePtrs, reported' = reported PROVE CountedBehind'
  BY <1>5, <1>b, CountedSame
<1>6. CASE \/ SkipOnes \/ PassData \/ SkipBreakpoint \/ PassStack \/ NoteReturn
           \/ PassRoData \/ SkipKvmWrite
  <2>1. i' \in {i + 1, i + 8, i + 9, i + 17} /\ codePtrs' = codePtrs /\ reported' = reported
    BY <1>6 DEF SkipOnes, PassData, SkipBreakpoint, PassStack, NoteReturn,
                PassRoData, SkipKvmWrite
  <2> QED
    BY <2>1, <1>0, <1>5
<1>7. CASE \/ FoundDebug \/ DataDone \/ StackRead \/ StackDone \/ StopAtZeroPage
           \/ RoDataDone \/ UNCHANGED vars
  <2>1. i' = i /\ codePtrs' = codePtrs /\ reported' = reported
    BY <1>7 DEF FoundDebug, DataDone, StackRead, StackDone, StopAtZeroPage,
                RoDataDone, vars
  <2> QED
    BY <2>1, <1>0, <1>5
<1> QED
  BY <1>1, <1>2, <1>3, <1>4, <1>6, <1>7 DEF Next, DataStep, StackStep, RoDataStep

\* the quadwords and what is known of them do not change
LEMMA SameArea ==
  ASSUME area' = area
  PROVE  /\ \A p : Undecidable(p)' <=> Undecidable(p)
         /\ \A p : ReturnCandidate(p)' <=> ReturnCandidate(p)
         /\ \A p : BehindOnes(p)' <=> BehindOnes(p)
         /\ \A p : AtBreakpoint(p)' <=> AtBreakpoint(p)
BY DEF Undecidable, ReturnCandidate, BehindOnes, AtBreakpoint, HighHalf, Ones, AllFF,
       Pointer

LEMMA AreaStep == [Next]_vars => area' = area
BY DEF Next, Begin, BeginStack, BeginData, BeginRoData, SkipOnes, ReportBeyond,
       DataStep, PassData, FoundDebug, SkipBreakpoint, CountPointer, DataDone,
       StackStep, PassStack, NoteReturn, StackRead, NextReturn, StackDone,
       RoDataStep, PassRoData, SkipKvmWrite, StopAtZeroPage, ReportRoData,
       RoDataDone, vars

\* the conjuncts of PointersAccountedFor
DataAccounted ==
  Searching("data") /\ ~area.ofStack =>
    \A p \in 0..(Size - 9) : p + 4 < i /\ Undecidable(p) =>
      <<"undecidable", p>> \in reported \/ BehindOnes(p) \/ AtBreakpoint(p)

StackAccounted ==
  Searching("stack") =>
    \A p \in (area.sp - 4)..(Size - 9) : p + 4 < i /\ ReturnCandidate(p) =>
      p \in returns \/ BehindOnes(p)

SearchedAll ==
  (Searched("data") /\ ~area.ofStack) \/ Searched("stack") => i >= Size - 4

LEMMA AccountedParts ==
  PointersAccountedFor <=> /\ DataAccounted /\ StackAccounted /\ SearchedAll
                           /\ codePtrs = Cardinality(Counted)
BY DEF PointersAccountedFor, DataAccounted, StackAccounted, SearchedAll

LEMMA DataStepAccounted ==
  TypeOK /\ Loops /\ DataAccounted /\ [Next]_vars => DataAccounted'
<1> SUFFICES ASSUME TypeOK, Loops, DataAccounted, [Next]_vars,
                    Searching("data")', ~area'.ofStack,
                    NEW p \in 0..(Size - 9), p + 4 < i', Undecidable(p)'
             PROVE  (<<"undecidable", p>> \in reported \/ BehindOnes(p) \/ AtBreakpoint(p))'
  BY DEF DataAccounted
<1>0. i \in Nat /\ Size \in Nat
  BY CounterNat, SizeNat
<1>1. area' = area /\ area.kind = "data" /\ ~area.ofStack /\ Undecidable(p)
  BY AreaStep, SameArea DEF Searching
<1>2. SUFFICES <<"undecidable", p>> \in reported' \/ BehindOnes(p) \/ AtBreakpoint(p)
  BY <1>1, SameArea
<1>3. reported \subseteq reported'
  BY DEF Next, Begin, BeginStack, BeginData, BeginRoData, SkipOnes, ReportBeyond, Report,
         DataStep, PassData, FoundDebug, SkipBreakpoint, CountPointer, DataDone,
         StackStep, PassStack, NoteReturn, StackRead, NextReturn, StackDone,
         RoDataStep, PassRoData, SkipKvmWrite, StopAtZeroPage, ReportRoData,
         RoDataDone, vars
<1>4. CASE label # "begin" /\ p + 4 < i
  <2>1. Searching("data")
    BY <1>1, <1>4 DEF Searching, Next, Begin, BeginStack, BeginData, BeginRoData,
       SkipOnes, ReportBeyond, DataStep, PassData, FoundDebug, SkipBreakpoint,
       CountPointer, DataDone, StackStep, PassStack, NoteReturn, StackRead, NextReturn,
       StackDone, RoDataStep, PassRoData, SkipKvmWrite, StopAtZeroPage, ReportRoData,
       RoDataDone, vars, Ended
  <2> QED
    BY <2>1, <1>1, <1>3, <1>4 DEF DataAccounted
<1>5. CASE label = "begin"
  <2>1. CASE Begin
    <3>1. i' = 4
      BY <2>1, <1>1, <1>5 DEF Begin, BeginStack, BeginData, BeginRoData
    <3> QED
      BY <3>1, <1>0
  <2>2. CASE UNCHANGED vars
    BY <2>2, <1>5 DEF Searching, vars
  <2> QED
    BY <2>1, <2>2, <1>5
    DEF Next, SkipOnes, ReportBeyond, DataStep, PassData, FoundDebug, SkipBreakpoint,
        CountPointer, DataDone, StackStep, PassStack, NoteReturn, StackRead, NextReturn,
        StackDone, RoDataStep, PassRoData, SkipKvmWrite, StopAtZeroPage, ReportRoData,
        RoDataDone, Ended
<1>6. CASE label # "begin" /\ p + 4 >= i
  <2>1. i' # i
    BY <1>6, <1>0
  <2>2. label = "data"
    BY <2>1, <1>1, <1>6 DEF Loops, Next, Begin, BeginStack, BeginData, BeginRoData,
       SkipOnes, ReportBeyond, DataStep, PassData, FoundDebug, SkipBreakpoint,
       CountPointer, DataDone, StackStep, PassStack, NoteReturn, StackRead, NextReturn,
       StackDone, RoDataStep, PassRoData, SkipKvmWrite, StopAtZeroPage, ReportRoData,
       RoDataDone, vars, Ended
  <2>3. i >= 4
    BY <2>2, TypeParts DEF Place
  <2>4. CASE SkipOnes
    <3>1. Ones(i - 4) /\ i' = i + 9
      BY <2>4 DEF SkipOnes
    <3>2. CASE p = i - 4
      BY <3>1, <3>2, <1>1 DEF Undecidable
    <3>3. CASE p # i - 4
      <4>1. i - 4 \in (p - 8)..(p - 1) /\ i - 4 >= 0
        BY <3>1, <3>3, <1>0, <1>6, <2>3
      <4> QED
        BY <4>1, <3>1 DEF BehindOnes
    <3> QED
      BY <3>2, <3>3
  <2>5. CASE SkipBreakpoint
    <3>1. i' = i + 17 /\ i - 4 = area.breakpoint
      BY <2>5 DEF SkipBreakpoint
    <3>2. i - 4 \in (p - 16)..p
      BY <3>1, <1>0, <1>6
    <3> QED
      BY <3>1, <3>2 DEF AtBreakpoint
  <2>6. ASSUME i' = i + 1 PROVE p = i - 4
    BY <2>6, <1>0, <1>6
  <2>7. CASE CountPointer
    <3>1. i' = i + 1 /\ <<"undecidable", i - 4>> \in reported'
      BY <2>7 DEF CountPointer, Report
    <3> QED
      BY <3>1, <2>6
  <2>8. CASE PassData
    <3>1. i' = i + 1 /\ ~Undecidable(i - 4)
      BY <2>8 DEF PassData, Undecidable, IsDebug
    <3> QED
      BY <3>1, <2>6, <1>1
  <2>9. CASE ReportBeyond
    <3>1. i' = i + 1 /\ ~Undecidable(i - 4)
      BY <2>9 DEF ReportBeyond, Undecidable, Beyond
    <3> QED
      BY <3>1, <2>6, <1>1
  <2> QED
    BY <2>1, <2>2, <2>4, <2>5, <2>7, <2>8, <2>9
    DEF Next, Begin, BeginStack, BeginData, BeginRoData, DataStep, FoundDebug, DataDone,
        StackStep, PassStack, NoteReturn, StackRead, NextReturn, StackDone, RoDataStep,
        PassRoData, SkipKvmWrite, StopAtZeroPage, ReportRoData, RoDataDone, vars, Ended
<1> QED
  BY <1>0, <1>4, <1>5, <1>6

LEMMA StackStepAccounted ==
  TypeOK /\ Loops /\ StackAccounted /\ [Next]_vars => StackAccounted'
<1> SUFFICES ASSUME TypeOK, Loops, StackAccounted, [Next]_vars, Searching("stack")',
                    NEW p \in (area'.sp - 4)..(Size - 9), p + 4 < i', ReturnCandidate(p)'
             PROVE  (p \in returns \/ BehindOnes(p))'
  BY DEF StackAccounted
<1>1. area' = area /\ area.kind = "stack" /\ ReturnCandidate(p)
  BY AreaStep, SameArea DEF Searching
<1>0. i \in Nat /\ Size \in Nat /\ area.sp \in 4..Size /\ p \in Nat
  <2>1. area \in Area
    BY TypeParts DEF Place
  <2>2. area.sp \in 4..Size
    BY <2>1 DEF Area
  <2> QED
    BY <2>2, <1>1, CounterNat, SizeNat
<1>2. SUFFICES p \in returns' \/ BehindOnes(p)
  BY <1>1, SameArea
<1>3. returns \subseteq returns'
  BY DEF Next, Begin, BeginStack, BeginData, BeginRoData, SkipOnes, ReportBeyond,
         DataStep, PassData, FoundDebug, SkipBreakpoint, CountPointer, DataDone,
         StackStep, PassStack, NoteReturn, StackRead, NextReturn, StackDone,
         RoDataStep, PassRoData, SkipKvmWrite, StopAtZeroPage, ReportRoData,
         RoDataDone, vars
<1>4. CASE label # "begin" /\ p + 4 < i
  <2>1. Searching("stack")
    BY <1>1, <1>4 DEF Searching, Next, Begin, BeginStack, BeginData, BeginRoData,
       SkipOnes, ReportBeyond, DataStep, PassData, FoundDebug, SkipBreakpoint,
       CountPointer, DataDone, StackStep, PassStack, NoteReturn, StackRead, NextReturn,
       StackDone, RoDataStep, PassRoData, SkipKvmWrite, StopAtZeroPage, ReportRoData,
       RoDataDone, vars, Ended
  <2> QED
    BY <2>1, <1>1, <1>3, <1>4 DEF StackAccounted
<1>5. CASE label = "begin"
  <2>1. CASE Begin
    <3>1. i' = area.sp
      BY <2>1, <1>1, <1>5 DEF Begin, BeginStack, BeginData, BeginRoData
    <3> QED
      BY <3>1, <1>0, <1>1
  <2>2. CASE UNCHANGED vars
    BY <2>2, <1>5 DEF Searching, vars
  <2> QED
    BY <2>1, <2>2, <1>5
    DEF Next, SkipOnes, ReportBeyond, DataStep, PassData, FoundDebug, SkipBreakpoint,
        CountPointer, DataDone, StackStep, PassStack, NoteReturn, StackRead, NextReturn,
        StackDone, RoDataStep, PassRoData, SkipKvmWrite, StopAtZeroPage, ReportRoData,
        RoDataDone, Ended
<1>6. CASE label # "begin" /\ p + 4 >= i
  <2>1. i' # i
    BY <1>6, <1>0
  <2>2. label = "stack"
    BY <2>1, <1>1, <1>6 DEF Loops, Next, Begin, BeginStack, BeginData, BeginRoData,
       SkipOnes, ReportBeyond, DataStep, PassData, FoundDebug, SkipBreakpoint,
       CountPointer, DataDone, StackStep, PassStack, NoteReturn, StackRead, NextReturn,
       StackDone, RoDataStep, PassRoData, SkipKvmWrite, StopAtZeroPage, ReportRoData,
       RoDataDone, vars, Ended
  <2>3. i >= 4
    BY <2>2, TypeParts DEF Place
  <2>4. CASE SkipOnes
    <3>1. Ones(i - 4) /\ i' = i + 9
      BY <2>4 DEF SkipOnes
    <3>2. CASE p = i - 4
      BY <3>1, <3>2, <1>1 DEF ReturnCandidate
    <3>3. CASE p # i - 4
      <4>1. i - 4 \in (p - 8)..(p - 1) /\ i - 4 >= 0
        BY <3>1, <3>3, <1>0, <1>6, <2>3
      <4> QED
        BY <4>1, <3>1 DEF BehindOnes
    <3> QED
      BY <3>2, <3>3
  <2>6. ASSUME i' = i + 1 PROVE p = i - 4
    BY <2>6, <1>0, <1>6
  <2>7. CASE NoteReturn
    <3>1. i' = i + 1 /\ i - 4 \in returns'
      BY <2>7 DEF NoteReturn
    <3> QED
      BY <3>1, <2>6
  <2>8. CASE PassStack \/ ReportBeyond
    <3>1. i' = i + 1 /\ ~ReturnCandidate(i - 4)
      BY <2>8 DEF PassStack, ReportBeyond, ReturnCandidate, Beyond
    <3> QED
      BY <3>1, <2>6, <1>1
  <2> QED
    BY <2>1, <2>2, <2>4, <2>7, <2>8
    DEF Next, Begin, BeginStack, BeginData, BeginRoData, DataStep, PassData, FoundDebug,
        SkipBreakpoint, CountPointer, DataDone, StackStep, StackRead, NextReturn,
        StackDone, RoDataStep, PassRoData, SkipKvmWrite, StopAtZeroPage, ReportRoData,
        RoDataDone, vars, Ended
<1> QED
  BY <1>0, <1>4, <1>5, <1>6

LEMMA SearchedAllStep == TypeOK /\ Loops /\ SearchedAll /\ [Next]_vars => SearchedAll'
<1> SUFFICES ASSUME TypeOK, Loops, SearchedAll, [Next]_vars,
                    (Searched("data") /\ ~area.ofStack)' \/ Searched("stack")'
             PROVE  i' >= Size - 4
  BY DEF SearchedAll
<1>0. i \in Nat /\ Size \in Nat /\ area' = area
  BY CounterNat, SizeNat, AreaStep
<1>1. CASE (Searched("data") /\ ~area.ofStack) \/ Searched("stack")
  <2>1. i' = i
    BY <1>1 DEF Searched, Next, Begin, BeginStack, BeginData, BeginRoData, SkipOnes,
       ReportBeyond, DataStep, PassData, FoundDebug, SkipBreakpoint, CountPointer,
       DataDone, StackStep, PassStack, NoteReturn, StackRead, NextReturn, StackDone,
       RoDataStep, PassRoData, SkipKvmWrite, StopAtZeroPage, ReportRoData, RoDataDone,
       vars, Ended
  <2> QED
    BY <2>1, <1>1 DEF SearchedAll
<1>2. CASE DataDone \/ StackRead
  BY <1>2, <1>0 DEF DataDone, StackRead, InPageLoop
<1> QED
  BY <1>0, <1>1, <1>2
  DEF Searched, Loops, Next, Begin, BeginStack, BeginData, BeginRoData, SkipOnes,
      ReportBeyond, DataStep, PassData, FoundDebug, SkipBreakpoint, CountPointer,
      StackStep, PassStack, NoteReturn, NextReturn, StackDone, RoDataStep, PassRoData,
      SkipKvmWrite, StopAtZeroPage, ReportRoData, RoDataDone, vars, Ended

SearchInv ==
  /\ TypeOK
  /\ Loops
  /\ CountedBehind
  /\ DataAccounted
  /\ StackAccounted
  /\ SearchedAll

LEMMA SearchInit == Init => SearchInv
<1> SUFFICES ASSUME Init PROVE SearchInv
  OBVIOUS
<1>1. TypeOK
  BY TypeInit
<1>2. Loops
  BY DEF Init, Loops
<1>3. Counted = {} /\ codePtrs = 0
  BY DEF Init, Counted
<1>4. CountedBehind
  BY <1>3, FS_EmptySet DEF Init, CountedBehind
<1>5. DataAccounted /\ StackAccounted /\ SearchedAll
  BY DEF Init, DataAccounted, StackAccounted, SearchedAll, Searching, Searched
<1> QED
  BY <1>1, <1>2, <1>4, <1>5 DEF SearchInv

LEMMA SearchStep == SearchInv /\ [Next]_vars => SearchInv'
BY TypeStep, LoopsStep, CountedStep, DataStepAccounted, StackStepAccounted,
   SearchedAllStep DEF SearchInv

(***************************************************************************)
(* findCodePtrs and the first loop of validateStackPage count, or note,    *)
(* every pointer to code that they cannot explain, but for those behind a  *)
(* quadword of ones or at bp_int3_addr, and none twice.                    *)
(***************************************************************************)
THEOREM PointersCorrect == Spec => []PointersAccountedFor
<1>1. SearchInv => PointersAccountedFor
  BY AccountedParts DEF SearchInv, CountedBehind
<1> QED
  BY <1>1, SearchInit, SearchStep, PTL DEF Spec

-----------------------------------------------------------------------------
(* The chain of return addresses.                                          *)

(***************************************************************************)
(* The return addresses are walked from the lowest up, and oldRetFunc is   *)
(* the function of the one walked last.                                    *)
(***************************************************************************)
WalkedBelow == \A p \in walked : \A q \in Unseen : p < q

LastWalked(p) == p \in walked /\ \A q \in walked : q <= p

Chain ==
  /\ label \notin {"chain", "done"} => walked = {}
  /\ label = "chain" => \A p \in walked : LastWalked(p) => oldRetFunc = Pointer(p).inside
  /\ WalkedBelow

LEMMA ReturnsNat == TypeOK => returns \subseteq Nat /\ walked \subseteq Nat
BY SizeNat, TypeParts DEF Results

LEMMA ChainWalk ==
  ASSUME TypeOK, Chain, ReturnsLinked, NextReturn
  PROVE  Chain' /\ ReturnsLinked'
<1>1. PICK p \in Unseen :
        /\ \A q \in Unseen : p <= q
        /\ walked' = walked \cup {p}
        /\ oldRetFunc' = Pointer(p).inside
        /\ reported \subseteq reported'
        /\ \/ oldRetFunc = None
           \/ FollowsFrom(oldRetFunc, Pointer(p))
           \/ <<"unvalidated", p>> \in reported'
  BY DEF NextReturn
<1>2. label = "chain" /\ UNCHANGED <<area, label, returns>>
  BY DEF NextReturn
<1>3. /\ p \in returns /\ p \notin walked /\ p \in Nat
      /\ returns \subseteq Nat /\ walked \subseteq Nat /\ walked \subseteq returns
  BY ReturnsNat, TypeParts DEF Unseen, Results
<1>4. \A q \in walked : q < p
  BY <1>1 DEF Chain, WalkedBelow
<1>5. /\ \A q : Pointer(q)' = Pointer(q)
      /\ \A f, a : FollowsFrom(f, a)' <=> FollowsFrom(f, a)
  BY <1>2 DEF Pointer, FollowsFrom, CallAddr
<1>6. WalkedBelow'
  <2> SUFFICES ASSUME NEW r \in walked', NEW q \in Unseen' PROVE r < q
    BY DEF WalkedBelow
  <2>1. q \in Unseen /\ q # p /\ q \in Nat
    BY <1>1, <1>2, <1>3 DEF Unseen
  <2>2. p < q
    BY <2>1, <1>1, <1>3
  <2> QED
    BY <2>1, <2>2, <1>1, <1>3, <1>4
<1>7. ASSUME NEW r \in walked', LastWalked(r)' PROVE oldRetFunc' = Pointer(r)'.inside
  <2>1. p <= r
    BY <1>7, <1>1 DEF LastWalked
  <2>2. r = p
    BY <2>1, <1>1, <1>3, <1>4
  <2> QED
    BY <2>2, <1>1, <1>5
<1>8. Chain'
  BY <1>2, <1>6, <1>7 DEF Chain
<1>9. ASSUME NEW r \in walked', NEW q \in walked', Neighbours(r, q)'
      PROVE  (\/ Pointer(r).inside = None
              \/ FollowsFrom(Pointer(r).inside, Pointer(q))
              \/ <<"unvalidated", q>> \in reported)'
  <2>1. Neighbours(r, q)
    BY <1>9, <1>2 DEF Neighbours
  <2>2. r < q
    BY <2>1 DEF Neighbours
  <2>3. CASE q \in walked
    <3>1. r # p /\ r \in walked
      BY <2>2, <2>3, <1>1, <1>3, <1>4
    <3> QED
      BY <3>1, <2>1, <2>3, <1>1, <1>5 DEF ReturnsLinked
  <2>4. CASE q = p
    <3>1. r \in walked
      BY <2>2, <2>4, <1>1, <1>3
    <3>2. LastWalked(r)
      BY <3>1, <2>1, <2>4, <1>3, <1>4 DEF LastWalked, Neighbours
    <3>3. oldRetFunc = Pointer(r).inside
      BY <3>1, <3>2, <1>2 DEF Chain
    <3> QED
      BY <3>3, <2>4, <1>1, <1>5
  <2> QED
    BY <2>3, <2>4, <1>1
<1> QED
  BY <1>8, <1>9 DEF ReturnsLinked

LEMMA ChainStep ==
  TypeOK /\ Chain /\ ReturnsLinked /\ [Next]_vars => Chain' /\ ReturnsLinked'
<1> SUFFICES ASSUME TypeOK, Chain, ReturnsLinked, [Next]_vars
             PROVE  Chain' /\ ReturnsLinked'
  OBVIOUS
<1>1. CASE NextReturn
  BY <1>1, ChainWalk
<1>2. ASSUME UNCHANGED <<area, returns, walked, oldRetFunc>>, reported \subseteq reported',
             label' = "chain" => label = "chain" \/ walked = {},
             label \in {"chain", "done"} => label' \in {"chain", "done"}
      PROVE  Chain' /\ ReturnsLinked'
  <2>1. /\ \A q : Pointer(q)' = Pointer(q)
        /\ \A f, a : FollowsFrom(f, a)' <=> FollowsFrom(f, a)
        /\ \A p, q : Neighbours(p, q)' <=> Neighbours(p, q)
        /\ \A p : LastWalked(p)' <=> LastWalked(p)
        /\ Unseen' = Unseen
    BY <1>2 DEF Pointer, FollowsFrom, CallAddr, Neighbours, LastWalked, Unseen
  <2>2. ReturnsLinked'
    BY <2>1, <1>2 DEF ReturnsLinked
  <2>3. WalkedBelow'
    BY <2>1, <1>2 DEF Chain, WalkedBelow
  <2>4. label' \notin {"chain", "done"} => walked' = {}
    BY <1>2 DEF Chain
  <2>5. label' = "chain" =>
          \A p \in walked' : LastWalked(p)' => oldRetFunc' = Pointer(p)'.inside
    BY <2>1, <1>2 DEF Chain
  <2> QED
    BY <2>2, <2>3, <2>4, <2>5 DEF Chain
<1>3. CASE NoteReturn
  <2>1. walked = {} /\ walked' = {} /\ label' = "stack"
    BY <1>3 DEF NoteReturn, Chain
  <2> QED
    BY <2>1 DEF Chain, WalkedBelow, ReturnsLinked
<1>4. CASE StackRead
  <2>1. label = "stack" /\ label' = "chain"
        /\ UNCHANGED <<area, returns, walked, oldRetFunc, reported>>
    BY <1>4 DEF StackRead
  <2>2. walked = {}
    BY <2>1 DEF Chain
  <2> QED
    BY <2>1, <2>2, <1>2
<1>5. CASE UNCHANGED vars \/ Begin \/ SkipOnes \/ ReportBeyond \/ DataStep \/ RoDataStep
             \/ PassStack \/ StackDone
  <2>1. /\ UNCHANGED <<area, returns, walked, oldRetFunc>>
        /\ reported \subseteq reported'
        /\ label' = "chain" => label = "chain"
        /\ label \in {"chain", "done"} => label' \in {"chain", "done"}
    BY <1>5 DEF Begin, BeginStack, BeginData, BeginRoData, SkipOnes, ReportBeyond, Report,
       DataStep, PassData, FoundDebug, SkipBreakpoint, CountPointer, DataDone, PassStack,
       StackDone, RoDataStep, PassRoData, SkipKvmWrite, StopAtZeroPage, ReportRoData,
       RoDataDone, vars
  <2> QED
    BY <2>1, <1>2
<1> QED
  BY <1>1, <1>3, <1>4, <1>5 DEF Next, StackStep, Ended

(***************************************************************************)
(* Of two return addresses with none between them, validateStackPage       *)
(* reports the upper one unless its call may have gone to the function that*)
(* the lower one returns to, or that function is unknown.                  *)
(***************************************************************************)
THEOREM ReturnsCorrect == Spec => []ReturnsLinked
<1> DEFINE Inv == TypeOK /\ Chain /\ ReturnsLinked
<1>1. Init => Inv
  BY TypeInit DEF Init, Chain, WalkedBelow, ReturnsLinked
<1>2. Inv /\ [Next]_vars => Inv'
  BY TypeStep, ChainStep
<1> QED
  BY <1>1, <1>2, PTL DEF Spec

-----------------------------------------------------------------------------
(* The read-only data.                                                     *)

RoDataInv ==
  /\ label = "begin" => i = 0
  /\ RoDataReported

LEMMA RoDataSame ==
  ASSUME area' = area
  PROVE  /\ \A k : Differs(k)' <=> Differs(k)
         /\ \A k : Changed(k)' <=> Changed(k)
         /\ \A k : ExcusedByKvm(k)' <=> ExcusedByKvm(k)
         /\ \A k : IsKvmWrite(k)' <=> IsKvmWrite(k)
BY DEF Differs, Changed, ExcusedByKvm, IsKvmWrite

\* the kernel's page is compared with its place in the file
LEMMA OwnFile ==
  ASSUME TypeOK, ~area.module
  PROVE  \A k : Differs(k) <=> Changed(k)
<1>1. area \in Area
  BY TypeParts DEF Place
<1>2. area.loaded = area.file
  BY <1>1 DEF Area
<1> QED
  BY <1>2 DEF Differs, Changed

RoDataBehind ==
  ~area.module =>
    \A k \in 0..(Size - 1) : k < i /\ Changed(k) =>
      <<"rodata", k>> \in reported \/ ExcusedByKvm(k)

LEMMA RoDataBehindStep ==
  ASSUME TypeOK, RoDataBehind, RoDataStep
  PROVE  RoDataBehind'
<1> SUFFICES ASSUME ~area'.module, NEW k \in 0..(Size - 1), k < i', Changed(k)'
             PROVE  (<<"rodata", k>> \in reported \/ ExcusedByKvm(k))'
  BY DEF RoDataBehind
<1>1. area' = area /\ reported \subseteq reported'
  BY DEF RoDataStep, PassRoData, SkipKvmWrite, StopAtZeroPage, ReportRoData, RoDataDone
<1>a. ~area.module /\ Changed(k) /\ (ExcusedByKvm(k)' <=> ExcusedByKvm(k))
  BY <1>1, RoDataSame
<1>b. \A q : Differs(q) <=> Changed(q)
  BY <1>a, OwnFile
<1>2. Differs(k) /\ (ExcusedByKvm(k)' <=> ExcusedByKvm(k))
  BY <1>a, <1>b
<1>0. i \in Nat /\ Size \in Nat
  BY CounterNat, SizeNat
<1>3. CASE k < i
  BY <1>1, <1>a, <1>3 DEF RoDataBehind
<1>4. CASE k >= i
  <2>1. CASE PassRoData
    <3>1. k = i /\ ~Differs(i)
      BY <2>1, <1>4, <1>0 DEF PassRoData
    <3> QED
      BY <3>1, <1>2
  <2>2. CASE SkipKvmWrite
    <3>1. i \in (k - 7)..k /\ i >= 0 /\ Changed(i) /\ IsKvmWrite(i)
      BY <2>2, <1>4, <1>0, <1>b DEF SkipKvmWrite
    <3> QED
      BY <3>1, <1>2 DEF ExcusedByKvm
  <2>3. CASE ReportRoData
    <3>1. k = i /\ <<"rodata", i>> \in reported'
      BY <2>3, <1>4, <1>0 DEF ReportRoData
    <3> QED
      BY <3>1
  <2>4. CASE StopAtZeroPage \/ RoDataDone
    BY <2>4, <1>4, <1>0 DEF StopAtZeroPage, RoDataDone
  <2> QED
    BY <2>1, <2>2, <2>3, <2>4 DEF RoDataStep
<1> QED
  BY <1>0, <1>3, <1>4

LEMMA RoDataInvStep == TypeOK /\ Loops /\ RoDataInv /\ [Next]_vars => RoDataInv'
<1> SUFFICES ASSUME TypeOK, Loops, RoDataInv, [Next]_vars PROVE RoDataInv'
  OBVIOUS
<1>0. i \in Nat /\ Size \in Nat /\ area' = area
  BY CounterNat, SizeNat, AreaStep
<1>1. CASE Begin
  <2>1. i = 0 /\ reported' = reported
    BY <1>1 DEF RoDataInv, Begin, BeginStack, BeginData, BeginRoData
  <2>2. label' # "begin"
    BY <1>1 DEF Begin, BeginStack, BeginData, BeginRoData
  <2>3. CASE BeginStack \/ BeginData
    <3>1. area.kind # "rodata" /\ label' # "rodata"
      BY <2>3 DEF BeginStack, BeginData
    <3> QED
      BY <3>1, <2>2, <1>0 DEF RoDataInv, RoDataReported
  <2>4. CASE BeginRoData
    <3>1. i' = 0
      BY <2>4, <2>1 DEF BeginRoData
    <3>2. label' = "done" /\ ~area.module => \A k \in 0..(Size - 1) : ~Changed(k)
      BY <2>4, OwnFile DEF BeginRoData
    <3>3. label' = "done" /\ ~area'.module => \A k \in 0..(Size - 1) : ~Changed(k)'
      BY <3>2, <1>0, RoDataSame
    <3>4. \A k \in 0..(Size - 1) : ~(k < i')
      BY <3>1
    <3> QED
      BY <3>3, <3>4, <2>2 DEF RoDataInv, RoDataReported
  <2> QED
    BY <2>3, <2>4, <1>1 DEF Begin
<1>2. CASE RoDataStep
  <2>a. label = "rodata" /\ area.kind = "rodata"
    BY <1>2 DEF RoDataStep, PassRoData, SkipKvmWrite, StopAtZeroPage, ReportRoData,
                RoDataDone, Loops
  <2>1. label = "rodata" /\ RoDataBehind
    BY <2>a DEF RoDataInv, RoDataReported, RoDataBehind
  <2>2. RoDataBehind'
    BY <2>1, <1>2, RoDataBehindStep
  <2>3. label' = "done" => i' > Size \/ i' = area'.zero
    BY <1>2, <2>1, <1>0 DEF RoDataStep, PassRoData, SkipKvmWrite, StopAtZeroPage,
       ReportRoData, RoDataDone
  <2>4. label' # "begin"
    BY <1>2, <2>1 DEF RoDataStep, PassRoData, SkipKvmWrite, StopAtZeroPage,
       ReportRoData, RoDataDone
  <2> QED
    BY <2>2, <2>3, <2>4 DEF RoDataInv, RoDataReported, RoDataBehind
<1>3. CASE SkipOnes \/ ReportBeyond \/ DataStep \/ StackStep
  <2>1. area.kind # "rodata" /\ label' \notin {"begin", "rodata"}
    BY <1>3 DEF Loops, SkipOnes, ReportBeyond, DataStep, PassData, FoundDebug,
       SkipBreakpoint, CountPointer, DataDone, StackStep, PassStack, NoteReturn, StackRead,
       NextReturn, StackDone
  <2> QED
    BY <2>1, <1>0 DEF RoDataInv, RoDataReported
<1>4. CASE UNCHANGED vars
  <2>1. UNCHANGED <<label, i, reported>>
    BY <1>4 DEF vars
  <2> QED
    BY <2>1, <1>0, RoDataSame DEF RoDataInv, RoDataReported
<1> QED
  BY <1>1, <1>2, <1>3, <1>4 DEF Next

(***************************************************************************)
(* validateDataPage reports every byte of the kernel's read-only data that *)
(* differs from its file, but for a pointer to kvm_guest_apic_eoi_write and*)
(* what follows the page that should be zero.                              *)
(***************************************************************************)
THEOREM RoDataCorrect == Spec => []RoDataReported
<1> DEFINE Inv == TypeOK /\ Loops /\ RoDataInv
<1>1. Init => Inv
  BY TypeInit DEF Init, Loops, RoDataInv, RoDataReported
<1>2. Inv /\ [Next]_vars => Inv'
  BY TypeStep, LoopsStep, RoDataInvStep
<1>3. Inv => RoDataReported
  BY DEF RoDataInv
<1> QED
  BY <1>1, <1>2, <1>3, PTL DEF Spec
=============================================================================
