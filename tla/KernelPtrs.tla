---------------------------- MODULE KernelPtrs ----------------------------
(***************************************************************************)
(* KernelValidator's examination of what is not text: validateStackPage,   *)
(* and validateDataPage with findCodePtrs.  A kernel stack and a data page *)
(* are searched, byte by byte, for pointers to kernel code; the pointers on*)
(* a stack must be return addresses, each behind a call of the function    *)
(* that the one below it returns to.  A page of read-only data is compared *)
(* with the ELF file.  A kernel pointer is a quadword whose upper half is  *)
(* ffffffff; all that is known of one is known of its lower half.          *)
(***************************************************************************)
EXTENDS Integers, FiniteSets

CONSTANTS
  Size,         \* page->size, or 0x2000 for a stack
  Bytes,        \* the values of a byte that the contents use
  Functions,    \* the symbols that getContainingSymbol can give
  None,         \* 0: no function
  Indirect,     \* 1: isReturnAddress found a call with no address
  LongMax,      \* LONG_MAX
  Named,        \* the pairs of functions that are accepted by their names
  KvmWrite,     \* the address of kvm_guest_apic_eoi_write
  About,        \* what is known of a pointer, by its lower half
  Areas         \* the stacks and pages that may have to be examined

\* 8 bytes may be read from the last one on
Positions == 0..(Size + 7)
Halves == [1..4 -> Bytes]

AboutPointer ==
  [function   : BOOLEAN,      \* symbols.isFunction
   symbol     : BOOLEAN,      \* symbols.isSymbol
   code       : BOOLEAN,      \* some module's isCodeAddress
   beyond     : BOOLEAN,      \* behind that module's textSegmentContent
   lock       : BOOLEAN,      \* in smpOffsets
   jump       : BOOLEAN,      \* in jumpEntries or jumpDestinations
   afterTable : BOOLEAN,      \* above the start of the kernel's __ex_table
   debug      : BOOLEAN,      \* 0xffffffff815237b0
   called     : Functions \cup {None, Indirect},
                              \* the operand of the call before it
   inside     : Functions \cup {None},   \* getContainingSymbol
   targets    : SUBSET Functions]        \* callTargets of the last call site

\* The place in elf->roData that a page is compared with is reckoned from the
\* address of the kernel's section: the right one for the kernel; for a module
\* it lies outside of the vector, and anything may be read there
Area ==
  {a \in
  [kind       : {"stack", "data", "rodata"},
   module     : BOOLEAN,                \* elf is a module
   mem        : [Positions -> Bytes],   \* from the guest
   file       : [Positions -> Bytes],   \* this page in elf's file
   loaded     : [Positions -> Bytes],   \* loadedPage
   sp         : 4..Size,                \* stackEnd % 0x2000
   ofStack    : BOOLEAN,                \* vaddr is in stackAddresses
   breakpoint : {-1} \cup (0..Size),    \* bp_int3_addr, in this page
   zero       : {-1} \cup (0..Size)] :  \* 0xffff81aef000 or 0xffff817c6000
     ~a.module => a.loaded = a.file}

ASSUME AreaAssumption ==
  /\ Size \in Nat \ (0..8)
  /\ "ff" \in Bytes
  /\ {None, Indirect, LongMax} \cap Functions = {}
  /\ Named \subseteq (Functions \X Functions)
  /\ KvmWrite \in [1..8 -> Bytes]
  /\ About \in [Halves -> AboutPointer]
  /\ Areas \subseteq Area

VARIABLES
  area,       \* the stack or page
  label,      \* "begin", the loop that is running, "done" or "exit"
  i,          \* the counter of the loop over bytes
  codePtrs,   \* findCodePtrs: how many undecidable pointers
  returns,    \* returnAddresses: the positions of the pointers
  walked,     \* those that the second loop has seen
  oldRetFunc, \* the function of the one seen last, or None
  reported    \* history: what was said of which position

vars == <<area, label, i, codePtrs, returns, walked, oldRetFunc, reported>>

Init ==
  /\ area \in Areas
  /\ label = "begin"
  /\ i = 0
  /\ codePtrs = 0
  /\ returns = {}
  /\ walked = {}
  /\ oldRetFunc = None
  /\ reported = {}

-----------------------------------------------------------------------------
(* The quadword at a position.                                             *)

AllFF(S) == \A k \in S : area.mem[k] = "ff"
HighHalf(p) == AllFF((p + 4)..(p + 7))
Ones(p) == AllFF(p..(p + 7))

Pointer(p) == About[[k \in 1..4 |-> area.mem[p + k - 1]]]

\* tests of findCodePtrs that end with "continue", in their order; the last
\* two lines are those made of code that was loaded
Known(a) ==
  \/ a.function \/ a.symbol
  \/ ~a.code
  \/ /\ ~a.beyond
     /\ a.lock \/ a.jump \/ a.afterTable \/ a.called # None

IsDebug(p) == HighHalf(p) /\ ~Ones(p) /\ Pointer(p).debug

Undecidable(p) ==
  /\ HighHalf(p)
  /\ ~Ones(p)
  /\ ~Pointer(p).debug
  /\ ~Known(Pointer(p))
  /\ ~Pointer(p).beyond

\* what validateStackPage puts into returnAddresses
ReturnCandidate(p) ==
  /\ HighHalf(p)
  /\ ~Ones(p)
  /\ LET a == Pointer(p) IN a.code /\ ~a.function /\ ~a.symbol /\ ~a.beyond

Beyond(p) ==
  /\ HighHalf(p)
  /\ ~Ones(p)
  /\ LET a == Pointer(p) IN a.code /\ ~a.function /\ ~a.symbol /\ a.beyond

-----------------------------------------------------------------------------
(* The start of each examination, and the search for pointers that both    *)
(* loops make: i is at the upper half of the quadword at i - 4.            *)

BeginStack ==
  /\ label = "begin" /\ area.kind = "stack"
  /\ label' = "stack"
  /\ i' = area.sp
  /\ UNCHANGED <<area, codePtrs, returns, walked, oldRetFunc, reported>>

\* stacks are left to validateStackPage
BeginData ==
  /\ label = "begin" /\ area.kind = "data"
  /\ label' = IF area.ofStack THEN "done" ELSE "data"
  /\ i' = 4
  /\ UNCHANGED <<area, codePtrs, returns, walked, oldRetFunc, reported>>

Differs(k) == area.mem[k] # area.loaded[k]

\* memcmp
BeginRoData ==
  /\ label = "begin" /\ area.kind = "rodata"
  /\ label' = IF \E k \in 0..(Size - 1) : Differs(k) THEN "rodata" ELSE "done"
  /\ UNCHANGED <<area, i, codePtrs, returns, walked, oldRetFunc, reported>>

\* up to the end of the page
InPageLoopAll == i < Size

InPageLoop == i < Size - 4

Report(what) == reported' = reported \cup {<<what, i - 4>>}

\* the counter is moved to behind the next quadword
SkipOnesFar ==
  /\ label \in {"stack", "data"} /\ InPageLoop
  /\ Ones(i - 4)
  /\ i' = i + 17
  /\ UNCHANGED <<area, label, codePtrs, returns, walked, oldRetFunc, reported>>

\* i += 8; continue
SkipOnes ==
  /\ label \in {"stack", "data"} /\ InPageLoop
  /\ Ones(i - 4)
  /\ i' = i + 9
  /\ UNCHANGED <<area, label, codePtrs, returns, walked, oldRetFunc, reported>>

ReportBeyond ==
  /\ label \in {"stack", "data"} /\ InPageLoop
  /\ Beyond(i - 4)
  /\ ~(label = "data" /\ IsDebug(i - 4))
  /\ Report("beyond")
  /\ i' = i + 1
  /\ UNCHANGED <<area, label, codePtrs, returns, walked, oldRetFunc>>

-----------------------------------------------------------------------------
(* findCodePtrs.                                                           *)

PassData ==
  /\ label = "data" /\ InPageLoop
  /\ \/ ~HighHalf(i - 4)
     \/ ~Ones(i - 4) /\ ~IsDebug(i - 4) /\ Known(Pointer(i - 4))
  /\ i' = i + 1
  /\ UNCHANGED <<area, label, codePtrs, returns, walked, oldRetFunc, reported>>

\* exit(0)
FoundDebug ==
  /\ label = "data" /\ InPageLoop
  /\ IsDebug(i - 4)
  /\ label' = "exit"
  /\ UNCHANGED <<area, i, codePtrs, returns, walked, oldRetFunc, reported>>

\* i += 16; continue
SkipBreakpoint ==
  /\ label = "data" /\ InPageLoop
  /\ Undecidable(i - 4)
  /\ i - 4 = area.breakpoint
  /\ i' = i + 17
  /\ UNCHANGED <<area, label, codePtrs, returns, walked, oldRetFunc, reported>>

CountPointer ==
  /\ label = "data" /\ InPageLoop
  /\ Undecidable(i - 4)
  /\ i - 4 # area.breakpoint
  /\ codePtrs' = codePtrs + 1
  /\ Report("undecidable")
  /\ i' = i + 1
  /\ UNCHANGED <<area, label, returns, walked, oldRetFunc>>

DataDone ==
  /\ label = "data" /\ ~InPageLoop
  /\ label' = "done"
  /\ UNCHANGED <<area, i, codePtrs, returns, walked, oldRetFunc, reported>>

-----------------------------------------------------------------------------
(* validateStackPage.                                                      *)

PassStack ==
  /\ label = "stack" /\ InPageLoop
  /\ ~Ones(i - 4) /\ ~Beyond(i - 4) /\ ~ReturnCandidate(i - 4)
  /\ i' = i + 1
  /\ UNCHANGED <<area, label, codePtrs, returns, walked, oldRetFunc, reported>>

NoteReturn ==
  /\ label = "stack" /\ InPageLoop
  /\ ReturnCandidate(i - 4)
  /\ returns' = returns \cup {i - 4}
  /\ i' = i + 1
  /\ UNCHANGED <<area, label, codePtrs, walked, oldRetFunc, reported>>

StackRead ==
  /\ label = "stack" /\ ~InPageLoop
  /\ label' = "chain"
  /\ UNCHANGED <<area, i, codePtrs, returns, walked, oldRetFunc, reported>>

\* strtol, which the address of a kernel function is too large for
CallAddr(a) == IF a.called \in Functions THEN LongMax ELSE a.called

\* why a return address is accepted behind one that returns to func
FollowsFrom(func, a) ==
  \/ func = CallAddr(a)
  \/ <<func, a.inside>> \in Named
  \/ func \in a.targets

Unseen == returns \ walked

\* oldRetFunc is set only where the return address was accepted
NextReturnStuck ==
  /\ label = "chain"
  /\ \E p \in Unseen : LET a == Pointer(p) IN
       /\ \A q \in Unseen : p <= q
       /\ walked' = walked \cup {p}
       /\ oldRetFunc' = IF oldRetFunc = None \/ FollowsFrom(oldRetFunc, a)
                          THEN a.inside ELSE oldRetFunc
       /\ reported' = reported
            \cup (IF a.called = None THEN {<<"no return", p>>} ELSE {})
            \cup (IF oldRetFunc = None \/ FollowsFrom(oldRetFunc, a)
                    THEN {} ELSE {<<"unvalidated", p>>})
  /\ UNCHANGED <<area, label, i, codePtrs, returns>>

\* the return addresses, from the lowest up
NextReturn ==
  /\ label = "chain"
  /\ \E p \in Unseen : LET a == Pointer(p) IN
       /\ \A q \in Unseen : p <= q
       /\ walked' = walked \cup {p}
       /\ oldRetFunc' = a.inside
       /\ reported' = reported
            \cup (IF a.called = None THEN {<<"no return", p>>} ELSE {})
            \cup (IF oldRetFunc = None \/ FollowsFrom(oldRetFunc, a)
                    THEN {} ELSE {<<"unvalidated", p>>})
  /\ UNCHANGED <<area, label, i, codePtrs, returns>>

StackDone ==
  /\ label = "chain" /\ Unseen = {}
  /\ label' = "done"
  /\ UNCHANGED <<area, i, codePtrs, returns, walked, oldRetFunc, reported>>

-----------------------------------------------------------------------------
(* The read-only data, in validateDataPage.                                *)

IsKvmWrite(k) == \A j \in 1..8 : area.mem[k + j - 1] = KvmWrite[j]

PassRoData ==
  /\ label = "rodata" /\ i <= Size
  /\ ~Differs(i)
  /\ i' = i + 1
  /\ UNCHANGED <<area, label, codePtrs, returns, walked, oldRetFunc, reported>>

\* count += 8; continue
SkipKvmWriteFar ==
  /\ label = "rodata" /\ i <= Size
  /\ Differs(i) /\ IsKvmWrite(i)
  /\ i' = i + 9
  /\ UNCHANGED <<area, label, codePtrs, returns, walked, oldRetFunc, reported>>

\* count += 7; continue
SkipKvmWrite ==
  /\ label = "rodata" /\ i <= Size
  /\ Differs(i) /\ IsKvmWrite(i)
  /\ i' = i + 8
  /\ UNCHANGED <<area, label, codePtrs, returns, walked, oldRetFunc, reported>>

\* pages that should be zero: return
StopAtZeroPage ==
  /\ label = "rodata" /\ i <= Size
  /\ Differs(i) /\ ~IsKvmWrite(i)
  /\ i = area.zero
  /\ label' = "done"
  /\ UNCHANGED <<area, i, codePtrs, returns, walked, oldRetFunc, reported>>

ReportRoData ==
  /\ label = "rodata" /\ i <= Size
  /\ Differs(i) /\ ~IsKvmWrite(i)
  /\ i # area.zero
  /\ reported' = reported \cup {<<"rodata", i>>}
  /\ i' = i + 1
  /\ UNCHANGED <<area, label, codePtrs, returns, walked, oldRetFunc>>

RoDataDone ==
  /\ label = "rodata" /\ i > Size
  /\ label' = "done"
  /\ UNCHANGED <<area, i, codePtrs, returns, walked, oldRetFunc, reported>>

-----------------------------------------------------------------------------
Begin == BeginStack \/ BeginData \/ BeginRoData
DataStep == PassData \/ FoundDebug \/ SkipBreakpoint \/ CountPointer \/ DataDone
StackStep == PassStack \/ NoteReturn \/ StackRead \/ NextReturn \/ StackDone
RoDataStep ==
  PassRoData \/ SkipKvmWrite \/ StopAtZeroPage \/ ReportRoData \/ RoDataDone

Ended == label \in {"done", "exit"}

Next ==
  \/ Begin \/ SkipOnes \/ ReportBeyond
  \/ DataStep \/ StackStep \/ RoDataStep
  \/ Ended /\ UNCHANGED vars

Spec == Init /\ [][Next]_vars

-----------------------------------------------------------------------------
(* Properties.                                                             *)

(***************************************************************************)
(* Every variable has its type.  The counter moves at most 12 bytes past   *)
(* the page; the last quadword of the page is not looked at.               *)
(***************************************************************************)
TypeOK ==
  /\ area \in Area
  /\ label \in {"begin", "stack", "data", "rodata", "chain", "done", "exit"}
  /\ label \in {"stack", "data"} => i >= 4
  /\ i \in 0..(Size + 12)
  /\ codePtrs \in Nat
  /\ returns \subseteq (0..(Size - 9))
  /\ walked \subseteq returns
  /\ oldRetFunc \in Functions \cup {None}
  /\ reported \subseteq
       ({"undecidable", "beyond", "no return", "unvalidated"} \X (0..(Size - 9)))
         \cup ({"rodata"} \X (0..Size))

(***************************************************************************)
(* findCodePtrs and the first loop of validateStackPage pass nothing over  *)
(* silently: every pointer to code that they cannot explain, up to the last*)
(* quadword but one, is counted (or noted as a return address), unless it  *)
(* begins in or directly behind a quadword of ones, or up to 16 bytes      *)
(* behind bp_int3_addr; and no pointer is counted twice.                   *)
(***************************************************************************)
Counted == {r \in reported : r[1] = "undecidable"}

BehindOnes(p) == \E q \in (p - 8)..(p - 1) : q >= 0 /\ Ones(q)
AtBreakpoint(p) == area.breakpoint \in (p - 16)..p

Searching(kind) == area.kind = kind /\ label \notin {"begin", "exit"}
Searched(kind) == area.kind = kind /\ label \in {"chain", "done"}

PointersAccountedFor ==
  /\ Searching("data") /\ ~area.ofStack =>
       \A p \in 0..(Size - 9) : p + 4 < i /\ Undecidable(p) =>
         <<"undecidable", p>> \in reported \/ BehindOnes(p) \/ AtBreakpoint(p)
  /\ Searching("stack") =>
       \A p \in (area.sp - 4)..(Size - 9) : p + 4 < i /\ ReturnCandidate(p) =>
         p \in returns \/ BehindOnes(p)
  /\ (Searched("data") /\ ~area.ofStack) \/ Searched("stack") => i >= Size - 4
  /\ codePtrs = Cardinality(Counted)

(***************************************************************************)
(* "The first return address is always allowed": no other is.  Of two      *)
(* return addresses with none between them, the upper one is reported      *)
(* unless it lies behind a call that may have gone to the function which   *)
(* the lower one returns to, or that function is unknown.                  *)
(***************************************************************************)
Neighbours(p, q) ==
  /\ p < q
  /\ \A r \in returns : r <= p \/ q <= r

ReturnsLinked ==
  \A p, q \in walked :
     Neighbours(p, q) =>
       \/ Pointer(p).inside = None
       \/ FollowsFrom(Pointer(p).inside, Pointer(q))
       \/ <<"unvalidated", q>> \in reported

(***************************************************************************)
(* Every byte of the kernel's read-only data that differs from its file is *)
(* reported, but for the eight bytes of a pointer to                       *)
(* kvm_guest_apic_eoi_write and what follows the page that should be zero. *)
(* Of a module's nothing can be said: its pages are compared with bytes    *)
(* outside of its read-only data.                                          *)
(***************************************************************************)
Changed(k) == area.mem[k] # area.file[k]
ExcusedByKvm(k) == \E q \in (k - 7)..k : q >= 0 /\ Changed(q) /\ IsKvmWrite(q)

RoDataReported ==
  ~area.module /\ area.kind = "rodata" /\ label \in {"rodata", "done"} =>
    /\ \A k \in 0..(Size - 1) : k < i /\ Changed(k) =>
         <<"rodata", k>> \in reported \/ ExcusedByKvm(k)
    /\ label = "done" =>
         \/ i > Size \/ i = area.zero
         \/ \A k \in 0..(Size - 1) : ~Changed(k)
=============================================================================
