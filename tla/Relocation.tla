---------------------------- MODULE Relocation ----------------------------
(***************************************************************************)
(* ElfFile64::applyRelocations, applyRelaOnSection and addSymbolsToStore.  *)
(* The relocations of a file are written into its content in memory, and   *)
(* the values of its symbols are replaced there.  A kernel module (REL) is *)
(* relocated once and its symbols are then put into the kernel's store; a  *)
(* library (DYN; ET_EXEC is treated alike) is shared by the processes and  *)
(* relocated for each in turn.                                             *)
(*                                                                         *)
(* Sections are numbered from 1, which is the null section and stands for  *)
(* SHN_UNDEF.  Byte k of a value is <<value, k>>.                          *)
(***************************************************************************)
EXTENDS Integers, Sequences, FiniteSets

CONSTANTS
  ElfFiles,       \* the files that may be relocated
  Owners,         \* for whom: the kernel, or one of the processes
  Kernel,
  KnownSymbols,   \* addresses in the owners' stores before, by stored name
  KnownFunctions, \* those of functions in the kernel's store
  MaxRounds       \* how often a library is relocated

Undef == 1
Abs == 0      \* SHN_ABS, which is no section's number

Types == {"NONE", "64", "32", "32S", "PC32", "SLOT", "RELATIVE", "COPY", "unknown"}

Rela == [offset : Nat, sym : Nat \ {0}, type : Types, addend : Nat]

SectionHeader ==
  [offset  : Nat,           \* in the file
   mem     : Nat,           \* a module's in the guest, a library's sh_addr
   size    : Nat,
   alloc   : BOOLEAN,       \* SHF_ALLOC
   info    : Nat \ {0},     \* sh_info: where the relocations are applied
   link    : Nat \ {0},     \* sh_link: the table of symbols
   type    : {"RELA", "REL", "other"},
   rels    : Seq(Rela),
   special : {"none", "text", "percpu", "altinstructions"}]

Sym ==
  [value : Nat, shndx : Nat, name : Nat, local : BOOLEAN, weak : BOOLEAN, func : BOOLEAN]

\* percpu: where the guest has the module's per-cpu data; base: where a process
\* has the library (l_addr), 0 if it is at the addresses that it was linked to
File ==
  [etype : {"REL", "DYN"}, sections : Seq(SectionHeader), syms : Seq(Sym),
   percpu : Nat, base : [Owners -> Nat]]

-----------------------------------------------------------------------------
(* What the relocations and the symbols of a file mean.                    *)

\* how many bytes are written
Written(type) ==
  CASE type \in {"64", "32", "SLOT", "RELATIVE"} -> 8
    [] type \in {"32S", "PC32"} -> 4
    [] OTHER -> 0

\* an R_X86_64_32 is for a field of four bytes
FieldWidth(type) == IF type = "32" THEN 4 ELSE Written(type)

\* the sections that are for one with content in memory
Considered(f, s) ==
  /\ f.sections[s].info <= Len(f.sections)
  /\ f.sections[f.sections[s].info].alloc

\* the sections of relocations that are applied
Applied(f, s) == Considered(f, s) /\ f.sections[s].type = "RELA"

\* section k has the field of relocation j of section s
Holds(f, s, j, k) ==
  LET h == f.sections[k]
      offset == f.sections[s].rels[j].offset
  IN IF f.etype = "REL" THEN k = f.sections[s].info
     ELSE h.mem <= offset /\ offset < h.mem + h.size

\* where the field is in the file
FieldIn(f, k, r) ==
  f.sections[k].offset + r.offset - (IF f.etype = "DYN" THEN f.sections[k].mem ELSE 0)

\* where the guest has the section, for its symbols
MemOf(f, s) ==
  IF f.etype = "REL" /\ f.sections[s].special = "percpu" THEN f.percpu
  ELSE f.sections[s].mem

(***************************************************************************)
(* What compiler, linker and guest see to: a module has a .text (initText  *)
(* has looked it up before); relocations have a symbol and a               *)
(* field, which in a module lies in the section that they are for, in a    *)
(* library (which has no R_X86_64_32) in one section at most; no two fields*)
(* overlap.  A module's symbols have offsets in their sections, which are  *)
(* smaller than any of the guest's addresses (0 if the section is freed),  *)
(* a library's have addresses, but for thread-local ones, which only       *)
(* relocations of other types refer to.  .altinstructions is a module's,   *)
(* and refers to its own sections.                                         *)
(***************************************************************************)
WellFormed(f) ==
  LET Sections == DOMAIN f.sections
      Relocs == {s \in Sections : Applied(f, s)}
      Rels(s) == f.sections[s].rels
  IN
  /\ Sections # {}
  /\ \A j, k \in Sections :
       f.sections[j].special = f.sections[k].special /\ f.sections[k].special \in {"text", "percpu"}
         => j = k
  /\ f.etype = "REL" => \E k \in Sections : f.sections[k].special = "text"
  /\ \A y \in DOMAIN f.syms :
       LET s == f.syms[y].shndx IN
       f.etype = "REL" /\ s \in Sections \ {Undef} =>
         MemOf(f, s) = 0 \/ f.syms[y].value < MemOf(f, s)
  /\ \A s \in Relocs : \A j \in DOMAIN Rels(s) :
       LET r == Rels(s)[j]
           sym == f.syms[r.sym]
           info == f.sections[s].info
       IN /\ r.sym \in DOMAIN f.syms
          /\ f.etype = "REL" => r.offset + FieldWidth(r.type) <= f.sections[info].size
          /\ f.etype = "DYN" => r.type # "32"
          /\ f.etype = "DYN" /\ r.type # "unknown" /\ sym.shndx \in Sections \ {Undef} =>
               f.sections[sym.shndx].mem <= sym.value
          /\ f.sections[info].special = "altinstructions" =>
               f.etype = "REL" /\ sym.shndx # Undef
  /\ \A s, t \in Relocs : \A j \in DOMAIN Rels(s), n \in DOMAIN Rels(t) :
       \A k, m \in Sections :
         LET r == Rels(s)[j]
             q == Rels(t)[n]
         IN Holds(f, s, j, k) /\ Holds(f, t, n, m) =>
              IF s = t /\ j = n THEN k = m
              ELSE \/ FieldIn(f, k, r) + FieldWidth(r.type) <= FieldIn(f, m, q)
                   \/ FieldIn(f, m, q) + FieldWidth(q.type) <= FieldIn(f, k, r)

ASSUME RelocationAssumption ==
  /\ ElfFiles \subseteq File
  /\ \A f \in ElfFiles : WellFormed(f)
  /\ Kernel \in Owners
  /\ \A p \in Owners : \A n \in DOMAIN KnownSymbols[p] : KnownSymbols[p][n] \in Nat
  /\ MaxRounds \in Nat

-----------------------------------------------------------------------------

VARIABLES
  elfFile,    \* the file
  owner,      \* loader and process: for whom it is relocated
  label,      \* "begin", "sections", "relas", "relocated", "exported" or "error"
  section,    \* i of applyRelocations
  rel,        \* i of applyRelaOnSection
  target,     \* targetSection, by its number
  symSection, \* symRelSectionInfo: its secID and memindex
  symValue,   \* sym->st_value, in the file's content
  image,      \* what was written where in the file's content
  rounds,     \* how often the file was relocated
  exported,   \* the kernel's store: addresses of symbols, by stored name
  functions   \* and those of functions

work == <<section, rel, target, symSection>>
store == <<exported, functions>>
relocVars == <<elfFile, owner, label, work, symValue, image, rounds, store>>

NoSection == [id |-> -1, mem |-> 0]

RelocInit ==
  /\ elfFile \in ElfFiles
  /\ owner = Kernel
  /\ label = "begin"
  /\ section = 1 /\ rel = 1 /\ target = Undef /\ symSection = NoSection
  /\ symValue = [y \in DOMAIN elfFile.syms |-> elfFile.syms[y].value]
  /\ image = <<>>
  /\ rounds = 0
  /\ exported = KnownSymbols[Kernel] /\ functions = KnownFunctions

-----------------------------------------------------------------------------
(* applyRelocations: the sections.                                         *)

Headers == elfFile.sections
NrOfSections == Len(Headers)
Userspace == owner # Kernel

\* a kernel module in initText, a library in processLoadRel of each process
Begin ==
  /\ label = "begin" \/ (label = "relocated" /\ Userspace)
  /\ rounds < MaxRounds
  /\ \E p \in Owners : (elfFile.etype = "REL" <=> p = Kernel) /\ owner' = p
  /\ label' = "sections"
  /\ section' = 1 /\ rel' = 1 /\ target' = Undef /\ symSection' = NoSection
  /\ rounds' = rounds + 1
  /\ UNCHANGED <<elfFile, symValue, image, store>>

\* asserts: an SHT_REL section, or relocations without a table of symbols; and
\* the exception of a module without per-cpu data
Aborts(s) ==
  /\ Considered(elfFile, s)
  /\ \/ Headers[s].type = "REL"
     \/ Headers[s].type = "RELA" /\ Headers[s].link = Undef
     \/ /\ Headers[s].type = "RELA" /\ ~Userspace
        /\ \A k \in 1..NrOfSections : Headers[k].special # "percpu"

PassSection ==
  /\ label = "sections" /\ section <= NrOfSections
  /\ ~Applied(elfFile, section) /\ ~Aborts(section)
  /\ section' = section + 1
  /\ UNCHANGED <<elfFile, owner, label, rel, target, symSection, symValue, image, rounds, store>>

BeginRela ==
  /\ label = "sections" /\ section <= NrOfSections
  /\ Applied(elfFile, section) /\ ~Aborts(section)
  /\ label' = "relas"
  /\ rel' = 1
  /\ target' = Headers[section].info
  /\ symSection' = NoSection
  /\ UNCHANGED <<elfFile, owner, section, symValue, image, rounds, store>>

FailSection ==
  /\ label = "sections" /\ section <= NrOfSections
  /\ Aborts(section)
  /\ label' = "error"
  /\ UNCHANGED <<elfFile, owner, work, symValue, image, rounds, store>>

SectionsDone ==
  /\ label = "sections" /\ section > NrOfSections
  /\ label' = "relocated"
  /\ UNCHANGED <<elfFile, owner, work, symValue, image, rounds, store>>

-----------------------------------------------------------------------------
(* applyRelaOnSection: one relocation.                                     *)

\* getSymbolAddress, which knows nothing of local symbols; 0 if there is none
Lookup(p, name) ==
  IF <<name, FALSE>> \in DOMAIN KnownSymbols[p] THEN KnownSymbols[p][<<name, FALSE>>] ELSE 0

\* the sections that start at the highest address below that of the field
Closest(address) ==
  {k \in 1..NrOfSections :
     /\ 0 < Headers[k].mem /\ Headers[k].mem < address
     /\ \A j \in 1..NrOfSections :
          Headers[j].mem < address => Headers[j].mem <= Headers[k].mem}

ClosestSection(address) ==
  CHOOSE k \in Closest(address) : \A j \in Closest(address) : k <= j

\* locInElf counted from where the guest has the section
LocInElfMem(r) == Headers[target].mem + r.offset

\* locInElf, as an offset in the file, is computed before targetSection is
\* replaced
LocInElf(r) ==
  IF elfFile.etype = "REL" THEN Headers[target].offset + r.offset
  ELSE Headers[target].offset + r.offset - Headers[ClosestSection(r.offset)].mem

Target(r) == IF elfFile.etype = "REL" THEN target ELSE ClosestSection(r.offset)

\* the section of the first symbol is kept
NewSymSectionOnce(s) ==
  [id |-> s,
   mem |-> IF ~Userspace /\ Headers[s].special = "percpu" THEN elfFile.percpu
           ELSE IF symSection.id = -1 THEN Headers[s].mem ELSE symSection.mem]

\* looked up if it is not that of the symbol before; the per-cpu data are
\* where the module's own record says
NewSymSection(s) ==
  [id |-> s,
   mem |-> IF ~Userspace /\ Headers[s].special = "percpu" THEN elfFile.percpu
           ELSE IF symSection.id # s THEN Headers[s].mem ELSE symSection.mem]

\* the offset is added to the address whatever it is
NewSymValueAgain(r) ==
  LET y == elfFile.syms[r.sym] IN
  IF y.shndx # Undef THEN symValue[r.sym] + NewSymSection(y.shndx).mem
  ELSE IF Userspace /\ r.type # "SLOT" THEN symValue[r.sym]
  ELSE Lookup(owner, y.name)

\* what becomes of sym->st_value
NewSymValue(r) ==
  LET y == elfFile.syms[r.sym]
      mem == NewSymSection(y.shndx).mem
  IN IF y.shndx # Undef
       THEN IF symValue[r.sym] < mem THEN symValue[r.sym] + mem ELSE symValue[r.sym]
     ELSE IF Userspace /\ r.type # "SLOT" THEN symValue[r.sym]
     ELSE Lookup(owner, y.name)

\* into .altinstructions goes the distance in the file
Value(r) ==
  LET val == NewSymValue(r) + r.addend
      s == elfFile.syms[r.sym].shndx
  IN CASE r.type = "PC32" ->
            IF Headers[Headers[section].info].special = "altinstructions"
              THEN val - NewSymSection(s).mem + Headers[s].offset - LocInElf(r)
              ELSE val - (Headers[target].mem + r.offset)
       [] r.type = "RELATIVE" -> val - NewSymValue(r)
       [] OTHER -> val

\* exceptions: no target, no section of a symbol's number, a symbol of a
\* process that is missing or relocated in another way; and assert(false)
Fails(r) ==
  LET y == elfFile.syms[r.sym] IN
  \/ elfFile.etype = "DYN" /\ Closest(r.offset) = {}
  \/ y.shndx \notin 1..NrOfSections
  \/ /\ y.shndx = Undef /\ Userspace
     /\ IF r.type = "SLOT" THEN Lookup(owner, y.name) = 0 /\ ~y.weak
                           ELSE r.type # "RELATIVE"
  \/ r.type = "unknown"

Relas == Headers[section].rels

ApplyRela ==
  /\ label = "relas" /\ rel <= Len(Relas)
  /\ LET r == Relas[rel]
         at == LocInElf(r)
         field == at..(at + Written(r.type) - 1)
     IN /\ ~Fails(r)
        /\ target' = Target(r)
        /\ symSection' = NewSymSection(elfFile.syms[r.sym].shndx)
        /\ symValue' = [symValue EXCEPT ![r.sym] = NewSymValue(r)]
        /\ image' = [o \in DOMAIN image \cup field |->
                       IF o \in field THEN <<Value(r), o - at>> ELSE image[o]]
  /\ rel' = rel + 1
  /\ UNCHANGED <<elfFile, owner, label, section, rounds, store>>

\* the program ends
FailRela ==
  /\ label = "relas" /\ rel <= Len(Relas)
  /\ Fails(Relas[rel])
  /\ label' = "error"
  /\ UNCHANGED <<elfFile, owner, work, symValue, image, rounds, store>>

RelasDone ==
  /\ label = "relas" /\ rel > Len(Relas)
  /\ label' = "sections"
  /\ section' = section + 1
  /\ UNCHANGED <<elfFile, owner, rel, target, symSection, symValue, image, rounds, store>>

-----------------------------------------------------------------------------
(* addSymbolsToStore, at the end of a module's initText.                   *)

TextMem ==
  LET text == {k \in 1..NrOfSections : Headers[k].special = "text"}
  IN Headers[CHOOSE k \in text : \A j \in text : k <= j].mem

Named == {y \in DOMAIN elfFile.syms : elfFile.syms[y].name # 0}

\* the names of local symbols have a suffix, the same for all
StoredName(y) == <<elfFile.syms[y].name, elfFile.syms[y].local>>

\* a store with the addresses of new symbols: of those with one name the last
\* is kept if it replaces what is there, else the first
Put(old, new, replaces) ==
  [n \in DOMAIN old \cup {StoredName(y) : y \in DOMAIN new} |->
     LET same == {y \in DOMAIN new : StoredName(y) = n}
         kept == CHOOSE y \in same : \A z \in same : IF replaces THEN z <= y ELSE y <= z
     IN IF same = {} \/ (~replaces /\ n \in DOMAIN old) THEN old[n] ELSE new[kept]]

Export ==
  /\ label = "relocated" /\ ~Userspace
  /\ label' = "exported"
  /\ \E replaces \in BOOLEAN :
       /\ exported' = Put(exported, [y \in Named |-> symValue[y]], replaces)
       /\ functions' = Put(functions,
            [y \in {z \in Named : elfFile.syms[z].func} |->
               IF symValue[y] < TextMem THEN symValue[y] + TextMem ELSE symValue[y]], replaces)
  /\ UNCHANGED <<elfFile, owner, work, symValue, image, rounds>>

-----------------------------------------------------------------------------
Ended ==
  \/ label \in {"exported", "error"}
  \/ label = "relocated" /\ Userspace /\ rounds = MaxRounds

RelocNext ==
  \/ Begin \/ PassSection \/ FailSection \/ BeginRela \/ SectionsDone
  \/ ApplyRela \/ FailRela \/ RelasDone
  \/ Export
  \/ Ended /\ UNCHANGED relocVars

RelocSpec == RelocInit /\ [][RelocNext]_relocVars

-----------------------------------------------------------------------------
(* Properties.                                                             *)

(***************************************************************************)
(* Every variable has its type; a module's relocations are written inside  *)
(* the content of the allocated sections they are for, but for the four    *)
(* bytes that an R_X86_64_32 is too wide.                                  *)
(***************************************************************************)
InSection(o, slack) ==
  \E k \in 1..NrOfSections :
     LET h == Headers[k] IN h.alloc /\ h.offset <= o /\ o < h.offset + h.size + slack

RelocTypeOK ==
  /\ elfFile \in ElfFiles
  /\ owner \in Owners
  /\ label \in {"begin", "sections", "relas", "relocated", "exported", "error"}
  /\ section \in 1..(NrOfSections + 1)
  /\ label = "relas" => section <= NrOfSections /\ rel \in 1..(Len(Relas) + 1)
  /\ target \in 1..NrOfSections
  /\ symSection.id \in {-1} \cup (1..NrOfSections) /\ symSection.mem \in Nat
  /\ symValue \in [DOMAIN elfFile.syms -> Nat]
  /\ \A o \in DOMAIN image :
       /\ image[o][1] \in Int /\ image[o][2] \in 0..7
       /\ elfFile.etype = "REL" => InSection(o, 4)
  /\ rounds \in 0..MaxRounds
  /\ DOMAIN exported \subseteq DOMAIN KnownSymbols[Kernel] \cup {StoredName(y) : y \in Named}
  /\ DOMAIN functions \subseteq DOMAIN KnownFunctions \cup {StoredName(y) : y \in Named}

(***************************************************************************)
(* What the relocations mean, whatever was relocated before, in this file  *)
(* for other sections or other processes: each field holds the address that*)
(* its symbol has for the owner, plus the addend, relative where it is.    *)
(* RELATIVE is B + A, and a library's own symbols are where the owner has  *)
(* the library.  Left out are the fields of a library that mean such an    *)
(* address, for the code leaves the base out of them; a field that a too   *)
(* wide R_X86_64_32 may have been written over; and the libraries with a   *)
(* field in another section than the field before it: that one is written  *)
(* in the wrong place.                                                     *)
(***************************************************************************)
Base == elfFile.base[owner]

SymAddress(y) ==
  LET sym == elfFile.syms[y] IN
  IF sym.shndx = Undef THEN Lookup(owner, sym.name)
  ELSE IF elfFile.etype = "DYN" THEN Base + sym.value
  ELSE MemOf(elfFile, sym.shndx) + sym.value

\* where the owner has the field, in section k
FieldAddress(k, r) == IF elfFile.etype = "DYN" THEN Base + r.offset ELSE Headers[k].mem + r.offset

\* k: the section that the field is in
RightValue(s, k, r) ==
  LET y == elfFile.syms[r.sym]
      absolute == SymAddress(r.sym) + r.addend
  IN CASE r.type = "PC32" ->
            IF Headers[Headers[s].info].special = "altinstructions"
              THEN Headers[y.shndx].offset + y.value + r.addend - FieldIn(elfFile, k, r)
              ELSE absolute - FieldAddress(k, r)
       [] r.type = "RELATIVE" -> Base + r.addend
       [] OTHER -> absolute

\* the value would need the base; a library's PC32 is computed as a module's
BaseLeftOut(r) ==
  \/ Base # 0 /\ r.type = "RELATIVE"
  \/ elfFile.etype = "DYN" /\ Base # 0 /\ elfFile.syms[r.sym].shndx # Undef
  \/ elfFile.etype = "DYN" /\ r.type = "PC32"

\* targetSection is the field's section before relocation j of section s
SameTarget(s, j) ==
  LET rels == Headers[s].rels
      closest == ClosestSection(rels[j].offset)
  IN \/ elfFile.etype = "REL"
     \/ /\ Closest(rels[j].offset) # {}
        /\ Holds(elfFile, s, j, closest)
        /\ closest = IF j = 1 THEN Headers[s].info
                              ELSE ClosestSection(rels[j - 1].offset)

\* by a later relocation
Overwritten(s, j, at) ==
  \E t \in s..NrOfSections : Applied(elfFile, t) /\
    \E n \in DOMAIN Headers[t].rels :
      LET r == Headers[t].rels[n]
          other == Headers[Headers[t].info].offset + r.offset
      IN /\ t = s => n > j
         /\ r.type = "32" /\ elfFile.etype = "REL" /\ other < at /\ at < other + 8

\* nothing of a library is out of place
AllPlaced ==
  \A s \in 1..NrOfSections : Applied(elfFile, s) =>
    \A j \in DOMAIN Headers[s].rels : SameTarget(s, j)

Resolved(s, j) ==
  LET r == Headers[s].rels[j]
      k == CHOOSE n \in 1..NrOfSections : Holds(elfFile, s, j, n)
      at == FieldIn(elfFile, k, r)
  IN \/ BaseLeftOut(r)
     \/ Overwritten(s, j, at)
     \/ \A b \in 0..(FieldWidth(r.type) - 1) :
          /\ at + b \in DOMAIN image
          /\ image[at + b] = <<RightValue(s, k, r), b>>

FieldsResolved ==
  label \in {"relocated", "exported"} /\ AllPlaced =>
    \A s \in 1..NrOfSections : Applied(elfFile, s) =>
      \A j \in DOMAIN Headers[s].rels : Resolved(s, j)

(***************************************************************************)
(* Under a name that nothing else has or had, the store has the address in *)
(* the guest of a module's function, if it is in .text; and of every symbol*)
(* of whatever section that one of its relocations refers to (as __ksymtab *)
(* does to the symbols that other modules may use), for it is the          *)
(* relocation that makes an address of its value.                          *)
(***************************************************************************)
Referenced(y) ==
  \E s \in 1..NrOfSections : Applied(elfFile, s) /\ \E j \in DOMAIN Headers[s].rels :
     Headers[s].rels[j].sym = y

\* no other symbol is or was stored under this name
OnlyNamesake(y) ==
  /\ StoredName(y) \notin DOMAIN KnownSymbols[Kernel] \cup DOMAIN KnownFunctions
  /\ \A z \in Named : StoredName(z) = StoredName(y) => z = y

ExportedAddresses ==
  label = "exported" =>
    \A y \in Named : LET s == elfFile.syms[y].shndx IN
      s \in 1..NrOfSections \ {Undef} /\ OnlyNamesake(y) =>
        /\ Referenced(y) =>
             exported[StoredName(y)] = MemOf(elfFile, s) + elfFile.syms[y].value
        /\ elfFile.syms[y].func /\ Headers[s].special = "text" =>
             functions[StoredName(y)] = MemOf(elfFile, s) + elfFile.syms[y].value

(***************************************************************************)
(* What addSymbolsToStore says of local symbols, that they are stored with *)
(* unique names: each has its own address in the store, and those of the   *)
(* modules before keep theirs.  It is not so, as the names' suffix is the  *)
(* same for all.                                                           *)
(***************************************************************************)
LocalNamesUnique ==
  label = "exported" =>
    /\ \A n \in DOMAIN KnownSymbols[Kernel] : n[2] => exported[n] = KnownSymbols[Kernel][n]
    /\ \A y \in Named : elfFile.syms[y].local => exported[StoredName(y)] = symValue[y]
=============================================================================
