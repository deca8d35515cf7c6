----------------------------- MODULE CodePage -----------------------------
(***************************************************************************)
(* KernelValidator::validateCodePage: one page of kernel text in the       *)
(* guest's memory is compared with the page that was built from the ELF    *)
(* file.  The guest patches its own text while it runs (jump labels, nops, *)
(* lock prefixes), so not every difference is reported: at a difference the*)
(* scan looks for a patch that explains it, and goes on behind the patch.  *)
(***************************************************************************)
EXTENDS Integers, Sequences

CONSTANTS
  Size,         \* page->size
  Bytes,        \* the values of a byte that the page contents use
  Nop5,         \* ideal_nops[5]
  NopAtomic,    \* ideal_nops[9], the 5-byte nop that is written atomically
  Pages         \* the pages that may have to be compared

(***************************************************************************)
(* memcmp and memcpy look at up to four bytes behind the page: those of the*)
(* next page of the loaded image, and whatever follows the vector that     *)
(* holds the guest's page.                                                 *)
(***************************************************************************)
Positions == 0..(Size + 3)

Page ==
  [loaded      : [Positions -> Bytes],  \* from textSegmentContent
   mem         : [Positions -> Bytes],  \* from the guest
   isKernel    : BOOLEAN,               \* elf is the ElfKernelLoader
   hypercall   : SUBSET (0..(Size - 1)),\* bytes whose 4K address is that of
                                        \* the hypercall page
   initialised : (-1)..Size,            \* bytes that textSegmentContent has,
                                        \* -1 if it ends before the page
   labels      : SUBSET (0..(Size - 1)),\* elf->jumpEntries in this page ...
   target      : [0..(Size - 1) -> [1..4 -> Bytes]],  \* ... their operands
   unrolled    : SUBSET (0..(Size - 1)),\* the four bytes behind it lead to
                                        \* copy_user_generic_unrolled
   locks       : SUBSET (0..(Size - 1)),\* elf->smpOffsets in this page
   sites       : SUBSET [first : 0..(Size - 1), last : Positions],
                                        \* where the guest patches its text
   foreign     : SUBSET (0..(Size - 1))]\* bytes that no patch has changed

ASSUME PageAssumption ==
  /\ Size \in Nat \ {0}
  /\ Nop5 \in [1..5 -> Bytes]
  /\ NopAtomic \in [1..5 -> Bytes]
  /\ Pages \subseteq Page

(***************************************************************************)
(* Contents of a page at an offset, and a pair of bytes in either order.   *)
(***************************************************************************)
\* memcmp(content + k, bytes, Len(bytes)) == 0
HasAt(content, k, bytes) ==
  \A j \in DOMAIN bytes : content[k + j - 1] = bytes[j]

Toggled(p, k, a, b) == {p.loaded[k], p.mem[k]} = {a, b}

(***************************************************************************)
(* How the guest patches its text.  A patch site s of a page p is one of   *)
(*  - a jump label, a nop or a jmp to its target in the image and in the   *)
(*    guest, which may have written its nop atomically,                    *)
(*  - a lock prefix or the prefix in its place,                            *)
(*  - a nop or an empty jmp that the guest has replaced by its atomic nop, *)
(*  - the end of such a nop, begun in the page before,                     *)
(*  - a call that the scan takes for one of copy_user_generic_unrolled,    *)
(*    whose new operand has another lowest byte (aligned functions can     *)
(*    have equal ones, and then the scan does not recognise the call).     *)
(***************************************************************************)
Jmp(p, k) == [j \in 1..5 |-> IF j = 1 THEN "e9" ELSE p.target[k][j - 1]]

IsLabelSite(p, s) ==
  /\ s.last = s.first + 4
  /\ s.first \in p.labels
  /\ \E form \in {Nop5, Jmp(p, s.first)} : HasAt(p.loaded, s.first, form)
  /\ \E form \in {Nop5, NopAtomic, Jmp(p, s.first)} :
       HasAt(p.mem, s.first, form)

IsLockSite(p, s) ==
  /\ s.last = s.first
  /\ s.first \in p.locks \ (p.labels \cup p.unrolled)
  /\ {p.loaded[s.first], p.mem[s.first]} \subseteq {"3e", "f0"}

IsReplacedSite(p, s) ==
  /\ s.last = s.first + 4
  /\ \/ /\ HasAt(p.loaded, s.first, <<"0f", "1f", "44", "00", "00">>)
        /\ HasAt(p.mem, s.first, <<"66", "66", "66", "66", "90">>)
     \/ /\ HasAt(p.loaded, s.first, <<"e9", "00", "00", "00", "00">>)
        /\ HasAt(p.mem, s.first, NopAtomic)

IsSplitSite(p, s) ==
  /\ s.first = 0
  /\ \E k \in 0..1 : /\ k <= s.last
                     /\ Toggled(p, k, "66", "90")
                     /\ \A j \in (0..s.last) \ {k} : p.loaded[j] = p.mem[j]

IsUnrolledSite(p, s) ==
  /\ s.last = s.first + 4
  /\ p.isKernel
  /\ s.first + 1 \in p.unrolled
  /\ p.loaded[s.first] = "e8" /\ p.mem[s.first] = "e8"
  /\ p.loaded[s.first + 1] # p.mem[s.first + 1]
  /\ s.first = 0 => ~Toggled(p, 1, "66", "90")

\* All that differs in an unmodified page is at its patch sites.
ASSUME SiteAssumption ==
  /\ {Nop5[1], NopAtomic[1]} \subseteq {"0f", "66"}
  /\ \A j \in {1, 2, 4, 5} : Nop5[j] = NopAtomic[j]
  /\ Nop5[3] # NopAtomic[3] => {Nop5[3], NopAtomic[3]} = {"66", "90"}
  /\ \A p \in Pages : p.foreign = {} =>
       /\ \A s, t \in p.sites : s.last < t.first \/ t.last < s.first \/ s = t
       /\ \A s \in p.sites : IsLabelSite(p, s) \/ IsLockSite(p, s)
            \/ IsReplacedSite(p, s) \/ IsSplitSite(p, s) \/ IsUnrolledSite(p, s)
       /\ \A k \in 0..(Size - 1) : p.loaded[k] # p.mem[k] =>
            \E s \in p.sites : k \in s.first..s.last

VARIABLES
  page,     \* the page, its image and what elf knows about it
  i,        \* the loop counter
  accepted, \* history: where a patch was accepted, and where the scan resumed
  verdict   \* "begin", "scanning", "intact", "uninitialised", "changed" or
            \* "aborted"

vars == <<page, i, accepted, verdict>>

Init ==
  /\ page \in Pages
  /\ i = 0
  /\ accepted = {}
  /\ verdict = "begin"

-----------------------------------------------------------------------------
(* The tests, at position k; each is made when those above it have failed. *)

Changed(k) == page.loaded[k] # page.mem[k]

\* only the first byte of a run of changed bytes is looked at
FirstOfRunTwo(k) == k > 1 => ~Changed(k - 2)

FirstOfRun(k) == k > 0 => ~Changed(k - 1)

\* "ATOMIC_NOP": the only changed byte is the third one
IsAtomicNop(k) ==
  k > 1 /\ HasAt(page.loaded, k - 2, Nop5) /\ HasAt(page.mem, k - 2, NopAtomic)

\* the same nop, begun in the page before
IsSplitNop(k) ==
  /\ k <= 1
  /\ Toggled(page, k, "66", "90")

IsShortNop(k) ==
  /\ HasAt(page.loaded, k, <<"0f", "1f", "44", "00", "00">>)
  /\ HasAt(page.mem, k, <<"66", "66", "66", "66", "90">>)

IsValidJmpLabel(k) ==
  /\ k \in page.labels
  /\ \/ HasAt(page.mem, k, Nop5)
     \/ HasAt(page.mem, k, NopAtomic)
     \/ page.mem[k] = "e9" /\ HasAt(page.mem, k + 1, page.target[k])

IsUnrolledCall(k) ==
  k > 0 /\ page.loaded[k - 1] = "e8" /\ page.isKernel /\ k \in page.unrolled

IsSmpLock(k) ==
  /\ Toggled(page, k, "3e", "f0")
  /\ k \in page.locks

IsEmptyJump(k) ==
  /\ HasAt(page.loaded, k, <<"e9", "00", "00", "00", "00">>)
  /\ HasAt(page.mem, k, NopAtomic)

(***************************************************************************)
(* How far the scan moves on from an accepted change at k: what the code   *)
(* adds to i, and the loop's increment.  0 if nothing explains the change. *)
(***************************************************************************)
\* the window counted from behind the nop
AdvanceOneMore(k) ==
  IF IsAtomicNop(k) \/ IsShortNop(k) \/ IsValidJmpLabel(k) THEN 7
  ELSE IF IsUnrolledCall(k) THEN 5
  ELSE IF IsSplitNop(k) \/ IsSmpLock(k) THEN 1
  ELSE IF IsEmptyJump(k) THEN 7
  ELSE 0

\* without the code's own additions to i
AdvanceByOne(k) ==
  IF \/ IsAtomicNop(k) \/ IsSplitNop(k) \/ IsShortNop(k) \/ IsValidJmpLabel(k)
     \/ IsUnrolledCall(k) \/ IsSmpLock(k) \/ IsEmptyJump(k)
  THEN 1
  ELSE 0

Advance(k) ==
  IF IsAtomicNop(k) THEN 6
  ELSE IF IsSplitNop(k) THEN 1
  ELSE IF IsShortNop(k) \/ IsValidJmpLabel(k) THEN 6
  ELSE IF IsUnrolledCall(k) THEN 5
  ELSE IF IsSmpLock(k) THEN 1
  ELSE IF IsEmptyJump(k) THEN 6
  ELSE 0

-----------------------------------------------------------------------------
(* The loop.                                                               *)

\* "get Page from module"
GetPage ==
  /\ verdict = "begin"
  /\ verdict' = IF page.initialised < 0 THEN "aborted" ELSE "scanning"
  /\ UNCHANGED <<page, i, accepted>>

Candidate == Changed(i) /\ FirstOfRun(i) /\ i \notin page.hypercall

NextByte ==
  /\ i < Size
  /\ ~Candidate
  /\ i' = i + 1
  /\ UNCHANGED <<page, accepted, verdict>>

AcceptChange ==
  /\ i < Size
  /\ Candidate
  /\ Advance(i) > 0
  /\ i' = i + Advance(i)
  /\ accepted' = accepted \cup {[at |-> i, resume |-> i + Advance(i)]}
  /\ UNCHANGED <<page, verdict>>

\* the text ends in this page: the rest is not compared
StopAtUninitialised ==
  /\ i < Size
  /\ Candidate
  /\ Advance(i) = 0
  /\ page.isKernel /\ i >= page.initialised
  /\ verdict' = "uninitialised"
  /\ UNCHANGED <<page, i, accepted>>

ReportChange ==
  /\ i < Size
  /\ Candidate
  /\ Advance(i) = 0
  /\ ~(page.isKernel /\ i >= page.initialised)
  /\ verdict' = "changed"
  /\ UNCHANGED <<page, i, accepted>>

PageDone ==
  /\ i >= Size
  /\ verdict' = "intact"
  /\ UNCHANGED <<page, i, accepted>>

Step ==
  /\ verdict = "scanning"
  /\ NextByte \/ AcceptChange \/ StopAtUninitialised \/ ReportChange \/ PageDone

Next ==
  \/ GetPage \/ Step
  \/ verdict \notin {"begin", "scanning"} /\ UNCHANGED vars

Spec == Init /\ [][Next]_vars

-----------------------------------------------------------------------------
(* Properties.                                                             *)

(***************************************************************************)
(* Every variable has its type.                                            *)
(***************************************************************************)
TypeOK ==
  /\ page \in Page
  /\ i \in 0..(Size + 5)
  /\ accepted \subseteq [at : 0..(Size - 1), resume : 1..(Size + 5)]
  /\ verdict \in
       {"begin", "scanning", "intact", "uninitialised", "changed", "aborted"}

(***************************************************************************)
(* A page in which only patches were toggled is never reported: whatever   *)
(* the states of the patch sites in the image and in the guest, the scan   *)
(* resumes where it can recognise the next one.  It needs sites that do not*)
(* cross the end of the page or a border of the hypercall page, and that   *)
(* have three untouched bytes between them: the scan always resumes two    *)
(* bytes too late, one because the window is followed by the loop's        *)
(* increment.                                                              *)
(***************************************************************************)
SitesApart ==
  /\ \A s \in page.sites :
       /\ s.last < Size
       /\ s.first..s.last \subseteq page.hypercall
            \/ s.first..s.last \cap page.hypercall = {}
  /\ \A s, t \in page.sites : s.last < t.first => t.first - s.last > 3

NoFalseAlarm == SitesApart /\ page.foreign = {} => verdict # "changed"

(***************************************************************************)
(* What the scan has passed over outside of the hypercall page: a changed  *)
(* byte lies in the window that an accepted patch made it jump, or in a run*)
(* of changed bytes, without a gap, that goes on from such a window or from*)
(* the hypercall page.  A change elsewhere is always reported, so one that *)
(* is more than the longest window away from every patch site and does not *)
(* touch one, unless its run begins in the hypercall page: of a run, only  *)
(* the first byte is looked at.                                            *)
(***************************************************************************)
BehindPatch(k) ==
  \E a \in accepted :
     /\ a.at <= k
     /\ \A j \in a.resume..k : Changed(j - 1) /\ Changed(j)

BehindHypercall(k) ==
  \E h \in page.hypercall : h < k /\ \A j \in h..k : Changed(j)

ChangesAccountedFor ==
  \A k \in (0..(Size - 1)) \ page.hypercall :
     k < i /\ Changed(k) => BehindPatch(k) \/ BehindHypercall(k)
=============================================================================
