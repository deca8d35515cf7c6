--------------------------- MODULE MCRelocation ---------------------------
(***************************************************************************)
(* A kernel module with a text, data, per-cpu data, alternatives, init code*)
(* that the guest has freed and debug information; a library with a PLT, a *)
(* GOT and data, and a program that is linked to fixed addresses, both     *)
(* relocated for two processes; and files that end the program.            *)
(***************************************************************************)
EXTENDS Relocation, TLC

CONSTANTS Process1, Process2

R(offset, sym, type, addend) == [offset |-> offset, sym |-> sym, type |-> type, addend |-> addend]

Header(offset, mem, size, special) ==
  [offset |-> offset, mem |-> mem, size |-> size, alloc |-> TRUE, info |-> 1,
   link |-> 1, type |-> "other", rels |-> <<>>, special |-> special]

NoAlloc == [Header(0, 0, 0, "none") EXCEPT !.alloc = FALSE]

RelaFor(info, rels) ==
  [NoAlloc EXCEPT !.info = info, !.link = 2, !.type = "RELA", !.rels = rels]

S(value, shndx, name, func) ==
  [value |-> value, shndx |-> shndx, name |-> name, local |-> FALSE, weak |-> FALSE,
   func |-> func]

Local(sym) == [sym EXCEPT !.local = TRUE]

-----------------------------------------------------------------------------
\* The module.  Its symbols: none, two functions, a variable, a per-cpu
\* variable, one of another module, a function of the freed code, an absolute
\* symbol, and local functions: two with one name, one whose name an earlier
\* module has used.
ModuleSyms ==
  << S(0, Undef, 0, FALSE), S(2, 2, 2, TRUE), S(9, 2, 3, TRUE), S(4, 3, 4, FALSE),
     S(0, 4, 5, FALSE), S(0, Undef, 6, FALSE), S(1, 6, 7, TRUE), S(3, Abs, 8, FALSE),
     Local(S(12, 2, 9, TRUE)), Local(S(14, 2, 9, TRUE)), Local(S(15, 2, 1, TRUE)) >>

ModuleSections(text, data) ==
  << NoAlloc,
     Header(10, 1000, 16, "text"),
     Header(30, 2000, 16, "none"),
     Header(50, 3000, 4, "percpu"),
     Header(60, 4000, 8, "altinstructions"),
     Header(70, 0, 4, "none"),
     RelaFor(2, text),
     RelaFor(3, data),
     RelaFor(5, <<R(0, 2, "PC32", 0), R(4, 7, "PC32", 1)>>),
     NoAlloc,
     RelaFor(10, <<R(0, 3, "64", 0)>>),
     RelaFor(77, <<>>) >>

MCOwners == {Kernel, Process1, Process2}
NoBase == [p \in MCOwners |-> 0]

\* the fields of the data, from the lowest up or not
DataRels(y, z, u, x, ascending) ==
  <<R(0, y, "64", 0)>> \o
    (IF ascending THEN <<R(8, z, u, 2), R(12, x, "32S", 0)>>
                  ELSE <<R(12, x, "32S", 0), R(8, z, u, 2)>>)

Modules ==
  {[etype |-> "REL", percpu |-> 5000, syms |-> ModuleSyms, base |-> NoBase,
    sections |-> ModuleSections(<<R(1, x, t, 0), R(6, y, "PC32", 3)>>,
                                DataRels(y, z, u, x, ascending))] :
   x \in {2, 4, 5}, y \in 2..7, z \in {3, 5, 8}, t \in {"PC32", "32S", "NONE"},
   u \in {"32", "32S", "unknown"}, ascending \in BOOLEAN}

\* without per-cpu data, with SHT_REL, with relocations that have no symbols
BadModules ==
  LET Sections == ModuleSections(<<R(1, 2, "PC32", 0)>>, <<>>)
      Module(sections) ==
        [etype |-> "REL", percpu |-> 5000, syms |-> ModuleSyms, base |-> NoBase,
         sections |-> sections]
  IN {Module([Sections EXCEPT ![4].special = "none"]),
      Module([Sections EXCEPT ![8].type = "REL"]),
      Module([Sections EXCEPT ![9].link = Undef])}

-----------------------------------------------------------------------------
\* The library: the GOT may be named by sh_info, or the PLT.  The program: the
\* same at fixed addresses.
LibrarySyms ==
  << S(0, Undef, 0, FALSE), S(0, Undef, 10, TRUE),
     [S(0, Undef, 11, FALSE) EXCEPT !.weak = TRUE], S(105, 2, 12, TRUE), S(0, Undef, 13, TRUE),
     S(8, 5, 12, FALSE) >>  \* a thread-local one

LibrarySections(info, plt, data) ==
  << NoAlloc,
     Header(10, 100, 20, "text"),
     Header(40, 200, 10, "none"),
     Header(60, 300, 40, "none"),
     Header(100, 340, 30, "none"),
     RelaFor(info, plt),
     RelaFor(1, <<R(350, 4, "RELATIVE", 1)>>),
     RelaFor(5, data) >>

Libraries ==
  {[etype |-> "DYN", percpu |-> 0, syms |-> LibrarySyms, base |-> base,
    sections |-> LibrarySections(info, <<R(308, x, "SLOT", 0), R(316, y, t, 7)>>,
                                 <<R(at, 2, "SLOT", 0), R(356, 4, "SLOT", 0)>>)] :
   info \in {3, 4}, x \in {2, 3}, y \in {2, 4, 5}, t \in {"SLOT", "RELATIVE", "COPY", "64"},
   at \in {0, 340, 348},
   base \in {NoBase, [NoBase EXCEPT ![Process1] = 5000, ![Process2] = 6000]}}

\* a static program's relocations have no table of symbols
StaticProgram ==
  [etype |-> "DYN", percpu |-> 0, syms |-> LibrarySyms, base |-> NoBase,
   sections |-> << NoAlloc, Header(10, 100, 20, "text"),
                   [RelaFor(2, <<R(108, 1, "RELATIVE", 3)>>) EXCEPT !.link = Undef] >>]

MCElfFiles == Modules \cup BadModules \cup Libraries \cup {StaticProgram}

\* by name and whether it is a local one's
MCKnownSymbols ==
  [p \in MCOwners |->
     CASE p = Kernel -> <<6, FALSE>> :> 9000 @@ <<1, TRUE>> :> 9100
       [] p = Process1 -> <<10, FALSE>> :> 7000 @@ <<13, FALSE>> :> 7300
       [] p = Process2 -> <<10, FALSE>> :> 8000 @@ <<11, FALSE>> :> 8100]

MCKnownFunctions == <<1, TRUE>> :> 9100
=============================================================================
