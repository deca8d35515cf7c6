----------------------------- MODULE PtrClass -----------------------------
(***************************************************************************)
(* ProcessValidator::validateProcess over the writable sections of a       *)
(* process: validateDataPage collects, byte by byte, the quadwords that    *)
(* lie in an executable mapping, PagePtrInfo::showPtrs says what each of   *)
(* them points to, and the statistics of the mappings are merged into those*)
(* of the section, those of the sections into those of the process.  The   *)
(* disassembler is external: all that is known of a text is what           *)
(* instruction, if any, begins at each byte.                               *)
(***************************************************************************)
EXTENDS Integers, Sequences, FiniteSets

CONSTANTS
  VMAs,       \* getMappedVMAs, in its order
  Libraries,  \* the loaders that findLoaderByFileName gives, by name
  Symbols,    \* the addresses of the process's named symbols
  Printable,  \* the addresses that are printable behind a 0 byte
  PieBase,    \* 1 << 24
  Phdr,       \* 0x40
  Far,        \* 0x4000
  Memories    \* what may be read of the sections: per VMA, its quadwords

Sections == 1..Len(VMAs)

VMA ==
  [name    : STRING,
   special : BOOLEAN,     \* the name begins with '['
   used    : BOOLEAN,     \* [stack] or [heap]
   exec    : BOOLEAN,
   write   : BOOLEAN,
   start   : Nat,
   end     : Nat]

\* a section of an ELF file; "allowed" is one of allowedSections
ElfSection == [offset : Nat, size : Nat, kind : {"allowed", "code"}]

\* what begins at a byte of a text: its length, 0 where it is no instruction
Instruction == [len : 0..15, op : {"call", "ret", "other"}]

\* a loaded file; the text segment begins at offset 0
IsLibrary(lib) ==
  /\ DOMAIN lib = {"sections", "entry", "text"}
  /\ lib.sections \in Seq(ElfSection)
  /\ lib.entry \in Nat
  /\ lib.text \in Seq(Instruction)

Flags ==
  {"NOT_7f", "NO_SECTION", "SECTION_START", "SEC_NOT_TEXT", "SYMBOL", "ENTRY",
   "INVALID_INSTR", "UNINT_INSTR", "UNINT_INSTR_NC", "RETURN", "UNKNOWN",
   "END_PRINTABLE", "GADGET"}

\* mappings do not overlap
ASSUME PtrClassAssumption ==
  /\ VMAs \in Seq(VMA)
  /\ \A m, n \in Sections :
       m < n => VMAs[m].start <= VMAs[m].end /\ VMAs[m].end <= VMAs[n].start
  /\ \A name \in DOMAIN Libraries : IsLibrary(Libraries[name])
  /\ Symbols \subseteq Nat
  /\ {PieBase, Phdr, Far} \subseteq Nat
  /\ Memories \subseteq [Sections -> Seq(Nat)]

VARIABLES
  memory,     \* what is read of each section when its turn comes
  label,      \* "section", "scan", "show", "done", "abort" or "crash"
  section,    \* the index of the section
  i,          \* the position of the quadword in it
  ptrs,       \* PagePtrInfo::ptrs: per mapping, <<address, position>>
  mapping,    \* the index of the mapping whose pointers are shown next
  stats,      \* glob_stats of validateDataPage
  globStats   \* glob_stats of validateProcess

vars == <<memory, label, section, i, ptrs, mapping, stats, globStats>>

NoStats == [a \in {} |-> [count |-> 0, flags |-> {}]]
NoPtrs == [m \in Sections |-> {}]

Init ==
  /\ memory \in Memories
  /\ label = "section"
  /\ section = 1
  /\ i = 0
  /\ ptrs = NoPtrs
  /\ mapping = 1
  /\ stats = NoStats
  /\ globStats = NoStats

-----------------------------------------------------------------------------
(* helpers.cpp: what the disassembler makes of the text t at offset o.     *)

At(t, o) == IF o + 1 \in DOMAIN t THEN t[o + 1] ELSE [len |-> 0, op |-> "other"]

\* 10 bytes are given to the disassembler
isValidInstruction(t, o) == At(t, o).len \in 1..10

\* some instruction of the walk from f begins at o or behind it
isIntendedInstructionPast(t, f, o) ==
  LET walked[q \in f..o] ==
        q = f \/ \E r \in f..(q - 1) : At(t, r).len > 0 /\ r + At(t, r).len = q /\ walked[r]
  IN f < o /\ \E r \in f..(o - 1) : walked[r] /\ At(t, r).len > 0 /\ r + At(t, r).len >= o

\* the walk from f reaches o; it always makes a first step
isIntendedInstruction(t, f, o) ==
  LET walked[q \in f..o] ==
        q = f \/ \E r \in f..(q - 1) : At(t, r).len > 0 /\ r + At(t, r).len = q /\ walked[r]
  IN f < o /\ walked[o]

isReturnAddress(t, o) ==
  /\ isValidInstruction(t, o)
  /\ \E n \in 2..7 : At(t, o - n) = [len |-> n, op |-> "call"]

\* end_valid of printInstructions: nothing is left of the text
EndsValid(t, o) ==
  LET runsOut[q \in 0..Len(t)] ==
        \/ q = Len(t)
        \/ /\ At(t, q).len > 0 /\ q + At(t, q).len <= Len(t)
           /\ IF At(t, q).op = "ret" THEN q + At(t, q).len = Len(t)
                                     ELSE runsOut[q + At(t, q).len]
  IN runsOut[o]

-----------------------------------------------------------------------------
(* showPtrs: the flags of a pointer to address a in mapping m.             *)

Flag(condition, flag) == IF condition THEN {flag} ELSE {}

getContainingSymbol(a) ==
  IF \E s \in Symbols : s <= a
    THEN CHOOSE s \in Symbols : s <= a /\ \A r \in Symbols : r <= a => r <= s
    ELSE 0

\* the walk from a symbol stays in the text that was loaded
ASSUME SymbolAssumption ==
  \A m \in Sections : VMAs[m].exec =>
    \A a \in (VMAs[m].start + 1)..VMAs[m].end :
      getContainingSymbol(a) >= VMAs[m].start \/ a - getContainingSymbol(a) > Far

\* the sections of the file that an offset is in; the first one is taken
SectionsAt(lib, o) ==
  {k \in DOMAIN lib.sections :
     LET sec == lib.sections[k] IN sec.offset <= o /\ o < sec.offset + sec.size}

findSectionByOffset(lib, o) ==
  lib.sections[CHOOSE k \in SectionsAt(lib, o) : \A j \in SectionsAt(lib, o) : k <= j]

\* what is said of a pointer into code that has no name of its own
CodeFlags(lib, m, a) ==
  LET o == a - VMAs[m].start
      f == getContainingSymbol(a)
      unchecked == a - f > Far
      unintended == ~unchecked /\ ~isIntendedInstruction(lib.text, f - VMAs[m].start, o)
      return == isReturnAddress(lib.text, o)
  IN IF ~isValidInstruction(lib.text, o) THEN {"UNKNOWN", "INVALID_INSTR"}
     ELSE Flag(unchecked, "UNINT_INSTR_NC") \cup Flag(unintended, "UNINT_INSTR")
            \cup Flag(return, "RETURN")
            \cup IF return /\ ~unintended THEN {}
                 ELSE {"UNKNOWN"} \cup Flag(a \in Printable, "END_PRINTABLE")
                        \cup Flag(~EndsValid(lib.text, o), "GADGET")

PtrFlags(m, a) ==
  LET lib == Libraries[VMAs[m].name]
      o == a - VMAs[m].start
      toSec == findSectionByOffset(lib, o)
  IN Flag(a < PieBase, "NOT_7f") \cup
     IF SectionsAt(lib, o) = {} THEN {"NO_SECTION"}
     ELSE IF o = toSec.offset THEN {"SECTION_START"}
     ELSE IF toSec.kind = "allowed" THEN {"SEC_NOT_TEXT"}
     ELSE IF a \in Symbols THEN {"SYMBOL"}
     ELSE IF o = lib.entry THEN {"ENTRY"}
     ELSE CodeFlags(lib, m, a)

\* the statistics of the pointers that a mapping has collected
showPtrs(m) ==
  [a \in {p[1] : p \in ptrs[m]} |->
     [count |-> Cardinality({p \in ptrs[m] : p[1] = a}), flags |-> PtrFlags(m, a)]]

-----------------------------------------------------------------------------
(* Merging statistics: glob_stats[a].first is 0 where a is new.            *)

Differ(glob, new) ==
  \E a \in DOMAIN glob \cap DOMAIN new :
     glob[a].count # 0 /\ glob[a].flags # new[a].flags

\* the count is assigned
MergedLast(glob, new) ==
  [a \in DOMAIN glob \cup DOMAIN new |-> IF a \in DOMAIN new THEN new[a] ELSE glob[a]]

Merged(glob, new) ==
  [a \in DOMAIN glob \cup DOMAIN new |->
     IF a \notin DOMAIN new THEN glob[a]
     ELSE [count |-> new[a].count + (IF a \in DOMAIN glob THEN glob[a].count ELSE 0),
           flags |-> new[a].flags]]

-----------------------------------------------------------------------------
(* validateProcess: which sections are searched.                           *)

Searched(s) ==
  LET vma == VMAs[s] IN vma.used \/ (~vma.special /\ ~vma.exec /\ vma.write)

\* no more than one quadword: content.size() <= 8
SkipSection ==
  /\ label = "section" /\ section \in Sections
  /\ ~Searched(section) \/ Len(memory[section]) <= 1
  /\ section' = section + 1
  /\ UNCHANGED <<memory, label, i, ptrs, mapping, stats, globStats>>

BeginSection ==
  /\ label = "section" /\ section \in Sections
  /\ Searched(section) /\ Len(memory[section]) > 1
  /\ label' = "scan"
  /\ i' = 0 /\ ptrs' = NoPtrs /\ mapping' = 1 /\ stats' = NoStats
  /\ UNCHANGED <<memory, section, globStats>>

Finished ==
  /\ label = "section" /\ section \notin Sections
  /\ label' = "done"
  /\ UNCHANGED <<memory, section, i, ptrs, mapping, stats, globStats>>

-----------------------------------------------------------------------------
(* validateDataPage.                                                       *)

InMappingFromStart(a, m) == VMAs[m].start <= a /\ a <= VMAs[m].end

\* IN_RANGE(*value, start + 1, end)
InMapping(a, m) == VMAs[m].start + 1 <= a /\ a <= VMAs[m].end

\* the loop over range breaks at the mapping of the section's own name, and
\* at a pointer to the program headers
Breaks(s, a, m) ==
  \/ VMAs[m].name = VMAs[s].name
  \/ InMapping(a, m) /\ a = VMAs[m].start + Phdr

Targets(s, a) ==
  {m \in Sections :
     /\ VMAs[m].exec /\ InMapping(a, m)
     /\ \A n \in 1..m : VMAs[n].exec => ~Breaks(s, a, n)}

\* up to the last quadword
InContentAll == i < Len(memory[section])

InContent == i + 1 < Len(memory[section])

Quadword == memory[section][i + 1]

ScanQuadword ==
  /\ label = "scan" /\ InContent
  /\ ptrs' = [m \in Sections |->
                IF m \in Targets(section, Quadword)
                  THEN ptrs[m] \cup {<<Quadword, i>>} ELSE ptrs[m]]
  /\ i' = i + 1
  /\ UNCHANGED <<memory, label, section, mapping, stats, globStats>>

ScanDone ==
  /\ label = "scan" /\ ~InContent
  /\ label' = "show"
  /\ UNCHANGED <<memory, section, i, ptrs, mapping, stats, globStats>>

Showing == label = "show" /\ mapping \in Sections

PassMapping ==
  /\ Showing /\ ptrs[mapping] = {}
  /\ mapping' = mapping + 1
  /\ UNCHANGED <<memory, label, section, i, ptrs, stats, globStats>>

\* toLoader is dereferenced
NoLoader ==
  /\ Showing /\ ptrs[mapping] # {}
  /\ VMAs[mapping].name \notin DOMAIN Libraries
  /\ label' = "crash"
  /\ UNCHANGED <<memory, section, i, ptrs, mapping, stats, globStats>>

\* assert(false), if the flags of a pointer differ
ShowMapping ==
  /\ Showing /\ ptrs[mapping] # {}
  /\ VMAs[mapping].name \in DOMAIN Libraries
  /\ label' = IF Differ(stats, showPtrs(mapping)) THEN "abort" ELSE "show"
  /\ stats' = Merged(stats, showPtrs(mapping))
  /\ mapping' = mapping + 1
  /\ UNCHANGED <<memory, section, i, ptrs, globStats>>

\* back in validateProcess
MergeSection ==
  /\ label = "show" /\ mapping \notin Sections
  /\ label' = IF Differ(globStats, stats) THEN "abort" ELSE "section"
  /\ globStats' = Merged(globStats, stats)
  /\ section' = section + 1
  /\ UNCHANGED <<memory, i, ptrs, mapping, stats>>

-----------------------------------------------------------------------------
Ended == label \in {"done", "abort", "crash"}

Next ==
  \/ SkipSection \/ BeginSection \/ Finished
  \/ ScanQuadword \/ ScanDone
  \/ PassMapping \/ NoLoader \/ ShowMapping \/ MergeSection
  \/ Ended /\ UNCHANGED vars

Spec == Init /\ [][Next]_vars

-----------------------------------------------------------------------------
(* Properties.                                                             *)

IsStats(g) == \A a \in DOMAIN g : a \in Nat /\ g[a].count \in Nat /\ g[a].flags \subseteq Flags

(***************************************************************************)
(* Every variable has its type.  The last quadword of a section is never   *)
(* looked at, and a pointer is kept with a mapping that it lies in, without*)
(* the first byte and with the one behind the end.                         *)
(***************************************************************************)
TypeOK ==
  /\ memory \in [Sections -> Seq(Nat)]
  /\ label \in {"section", "scan", "show", "done", "abort", "crash"}
  /\ section \in 1..(Len(VMAs) + 1)
  /\ i \in Nat
  /\ label \in {"scan", "show"} => section \in Sections
  /\ label = "scan" => i < Len(memory[section])
  /\ \A m \in Sections :
       ptrs[m] \subseteq ((VMAs[m].start + 1)..VMAs[m].end) \X (0..(i - 1))
  /\ mapping \in 1..(Len(VMAs) + 1)
  /\ IsStats(stats)
  /\ IsStats(globStats)

(***************************************************************************)
(* No assertion fails: what is said of a pointer found in two sections, or *)
(* through two mappings, is the same, although it is made of the mapping   *)
(* and not of the pointer alone.                                           *)
(***************************************************************************)
StatsAgree == label # "abort"

(***************************************************************************)
(* The statistics of the process count every quadword of its writable      *)
(* sections that points into an executable mapping, once, at however many  *)
(* sections and mappings it was merged: every quadword but the last of the *)
(* section, if no mapping of the section's own name comes before its       *)
(* mapping, or is its mapping, and if it is not the address of the program *)
(* headers.                                                                *)
(***************************************************************************)
CountedPtr(s, k, a) ==
  /\ Searched(s)
  /\ memory[s][k] = a
  /\ \E m \in Sections :
       /\ VMAs[m].exec /\ VMAs[m].start < a /\ a <= VMAs[m].end
       /\ a # VMAs[m].start + Phdr
       /\ \A n \in 1..m : VMAs[n].exec => VMAs[n].name # VMAs[s].name

CountedSites(a) ==
  UNION {{<<s, k>> : k \in {k \in 1..(Len(memory[s]) - 1) : CountedPtr(s, k, a)}} :
         s \in Sections}

Quadwords == UNION {{memory[s][k] : k \in DOMAIN memory[s]} : s \in Sections}

PointersCounted ==
  label = "done" =>
    /\ DOMAIN globStats = {a \in Quadwords : CountedSites(a) # {}}
    /\ \A a \in DOMAIN globStats : globStats[a].count = Cardinality(CountedSites(a))

(***************************************************************************)
(* A pointer into code that is not called unknown is explained: it has a   *)
(* name, or it is the entry point, or it lies behind a call and, within    *)
(* 0x4000 bytes of the symbol before it, on an instruction that execution  *)
(* from there comes to.                                                    *)
(***************************************************************************)
Straight(t, f, o) ==
  \E path \in SUBSET (f..o) :
     /\ {f, o} \subseteq path
     /\ \A q \in path \ {o} : At(t, q).len > 0 /\ q + At(t, q).len \in path

BehindCall(t, o) == \E q \in 0..(o - 1) : At(t, q).op = "call" /\ q + At(t, q).len = o

UnknownUnlessExplained ==
  label = "done" =>
    \A a \in DOMAIN globStats : \A m \in Sections :
      LET lib == Libraries[VMAs[m].name]
          o == a - VMAs[m].start
          f == getContainingSymbol(a)
      IN /\ VMAs[m].exec /\ InMapping(a, m)
         /\ SectionsAt(lib, o) # {}
         /\ \A k \in SectionsAt(lib, o) : lib.sections[k].kind = "code"
         /\ "UNKNOWN" \notin globStats[a].flags
         => \/ a \in Symbols \/ o = lib.entry
            \/ \E k \in SectionsAt(lib, o) : lib.sections[k].offset = o
            \/ /\ BehindCall(lib.text, o)
               /\ a - f > Far \/ Straight(lib.text, f - VMAs[m].start, o)
=============================================================================
