-------------------------- MODULE PtrClass_proofs --------------------------
(***************************************************************************)
(* The statistics of a process's pointers, for every layout of mappings    *)
(* that do not overlap and every content of the sections: they are merged  *)
(* without a failed assertion, they count each pointer once, and what they *)
(* do not call unknown has a name or follows a call.                       *)
(***************************************************************************)
EXTENDS PtrClass, FiniteSetTheorems, FunctionTheorems, WellFoundedInduction, TLAPS

LEMMA LenNat == Len(VMAs) \in Nat /\ \A m \in Sections : VMAs[m] \in VMA
BY PtrClassAssumption DEF Sections

LEMMA Bounds == \A m \in Sections : VMAs[m].start \in Nat /\ VMAs[m].end \in Nat
<1> SUFFICES ASSUME NEW m \in Sections PROVE VMAs[m].start \in Nat /\ VMAs[m].end \in Nat
  OBVIOUS
<1>1. VMAs[m] \in VMA
  BY LenNat
<1> QED
  BY <1>1 DEF VMA

-----------------------------------------------------------------------------
(* Types.                                                                  *)

\* the parts of TypeOK: the loops and their counters, what was collected
Loops ==
  /\ memory \in [Sections -> Seq(Nat)]
  /\ label \in {"section", "scan", "show", "done", "abort", "crash"}
  /\ section \in 1..(Len(VMAs) + 1)
  /\ i \in Nat
  /\ label \in {"scan", "show"} => section \in Sections
  /\ label = "scan" => i < Len(memory[section])
  /\ mapping \in 1..(Len(VMAs) + 1)

Collected ==
  \A m \in Sections :
    ptrs[m] \subseteq ((VMAs[m].start + 1)..VMAs[m].end) \X (0..(i - 1))

LEMMA TypeParts ==
  TypeOK <=> Loops /\ Collected /\ IsStats(stats) /\ IsStats(globStats)
BY DEF TypeOK, Loops, Collected

LEMMA LoopsStep == Loops /\ [Next]_vars => Loops'
<1> SUFFICES ASSUME Loops, [Next]_vars PROVE Loops'
  OBVIOUS
<1> USE DEF Loops
<1>0. Len(VMAs) \in Nat /\ Sections = 1..Len(VMAs)
  BY LenNat DEF Sections
<1>1. CASE UNCHANGED vars
  BY <1>1 DEF vars
<1>2. CASE SkipSection
  BY <1>2, <1>0 DEF SkipSection
<1>3. CASE BeginSection
  <2>1. Len(memory[section]) > 1 /\ section \in Sections
    BY <1>3 DEF BeginSection
  <2>2. /\ UNCHANGED <<memory, section>>
        /\ label' = "scan" /\ i' = 0 /\ mapping' = 1
    BY <1>3 DEF BeginSection
  <2>3. 0 < Len(memory[section])
    <3>1. Len(memory[section]) \in Nat
      BY <2>1
    <3> QED
      BY <2>1, <3>1
  <2> QED
    BY <2>1, <2>2, <2>3, <1>0
<1>4. CASE ScanQuadword
  <2>1. /\ UNCHANGED <<memory, label, section, mapping>>
        /\ i' = i + 1 /\ label = "scan" /\ i + 1 < Len(memory[section])
    BY <1>4 DEF ScanQuadword, InContent
  <2> QED
    BY <2>1
<1>5. CASE Finished \/ ScanDone \/ NoLoader
  BY <1>5 DEF Finished, ScanDone, NoLoader
<1>6. CASE PassMapping \/ ShowMapping
  BY <1>6, <1>0 DEF PassMapping, ShowMapping, Showing
<1>7. CASE MergeSection
  <2>1. /\ UNCHANGED <<memory, i, mapping>>
        /\ label' \in {"abort", "section"} /\ section' = section + 1
    BY <1>7 DEF MergeSection
  <2>2. section \in Sections
    BY <1>7 DEF MergeSection
  <2> QED
    BY <2>1, <2>2, <1>0
<1> QED
  BY <1>1, <1>2, <1>3, <1>4, <1>5, <1>6, <1>7 DEF Next

LEMMA CollectedStep == Loops /\ Collected /\ [Next]_vars => Collected'
<1> SUFFICES ASSUME Loops, Collected, [Next]_vars PROVE Collected'
  OBVIOUS
<1>1. CASE UNCHANGED <<i, ptrs>>
  BY <1>1 DEF Collected
<1>2. CASE BeginSection
  <2>1. \A m \in Sections : ptrs'[m] = {}
    BY <1>2 DEF BeginSection, NoPtrs
  <2> QED
    BY <2>1 DEF Collected
<1>3. CASE ScanQuadword
  <2>1. i' = i + 1 /\ i \in Nat
    BY <1>3 DEF ScanQuadword, Loops
  <2> SUFFICES ASSUME NEW m \in Sections
               PROVE  ptrs'[m] \subseteq
                        ((VMAs[m].start + 1)..VMAs[m].end) \X (0..(i' - 1))
    BY DEF Collected
  <2>2. \/ ptrs'[m] = ptrs[m]
        \/ m \in Targets(section, Quadword) /\ ptrs'[m] = ptrs[m] \cup {<<Quadword, i>>}
    BY <1>3 DEF ScanQuadword
  <2>3. ptrs[m] \subseteq ((VMAs[m].start + 1)..VMAs[m].end) \X (0..(i' - 1))
    <3>1. 0..(i - 1) \subseteq 0..(i' - 1)
      BY <2>1
    <3>2. ptrs[m] \subseteq ((VMAs[m].start + 1)..VMAs[m].end) \X (0..(i - 1))
      BY DEF Collected
    <3> QED
      BY <3>1, <3>2
  <2>4. ASSUME m \in Targets(section, Quadword)
        PROVE  <<Quadword, i>> \in ((VMAs[m].start + 1)..VMAs[m].end) \X (0..(i' - 1))
    <3>1. VMAs[m].start + 1 <= Quadword /\ Quadword <= VMAs[m].end
      BY <2>4 DEF Targets, InMapping
    <3>2. Quadword \in Nat
      <4>1. /\ label = "scan" /\ section \in Sections
            /\ memory[section] \in Seq(Nat) /\ i < Len(memory[section])
        BY <1>3 DEF ScanQuadword, Loops
      <4>2. i + 1 \in 1..Len(memory[section])
        BY <4>1, <2>1
      <4> QED
        BY <4>1, <4>2 DEF Quadword
    <3>3. Quadword \in (VMAs[m].start + 1)..VMAs[m].end
      BY <3>1, <3>2, Bounds
    <3>4. i \in 0..(i' - 1)
      BY <2>1
    <3> QED
      BY <3>3, <3>4
  <2> QED
    BY <2>2, <2>3, <2>4
<1> QED
  BY <1>1, <1>2, <1>3
  DEF Next, SkipSection, Finished, ScanDone, PassMapping, NoLoader, ShowMapping,
      MergeSection, vars

-----------------------------------------------------------------------------
(* What is said of a pointer.                                              *)

LEMMA FlagsType == \A m, a : PtrFlags(m, a) \subseteq Flags
<1> SUFFICES ASSUME NEW m, NEW a PROVE PtrFlags(m, a) \subseteq Flags
  OBVIOUS
<1>1. \A lib : CodeFlags(lib, m, a) \subseteq Flags
  <2> SUFFICES ASSUME NEW lib PROVE CodeFlags(lib, m, a) \subseteq Flags
    OBVIOUS
  <2> DEFINE o == a - VMAs[m].start
             f == getContainingSymbol(a)
             unchecked == a - f > Far
             unintended ==
               ~unchecked /\ ~isIntendedInstruction(lib.text, f - VMAs[m].start, o)
             return == isReturnAddress(lib.text, o)
  <2>1. CodeFlags(lib, m, a) =
          IF ~isValidInstruction(lib.text, o) THEN {"UNKNOWN", "INVALID_INSTR"}
          ELSE Flag(unchecked, "UNINT_INSTR_NC") \cup Flag(unintended, "UNINT_INSTR")
                 \cup Flag(return, "RETURN")
                 \cup IF return /\ ~unintended THEN {}
                      ELSE {"UNKNOWN"} \cup Flag(a \in Printable, "END_PRINTABLE")
                             \cup Flag(~EndsValid(lib.text, o), "GADGET")
    BY DEF CodeFlags
  <2> HIDE DEF o, f, unchecked, unintended, return
  <2> QED
    BY <2>1 DEF Flag, Flags
<1> QED
  BY <1>1 DEF PtrFlags, Flag, Flags

\* said of a, as of an address in the one mapping that it lies in
Sound(g) ==
  \A a \in DOMAIN g : \E m \in Sections :
    /\ VMAs[m].name \in DOMAIN Libraries
    /\ a \in (VMAs[m].start + 1)..VMAs[m].end
    /\ g[a].flags = PtrFlags(m, a)

LEMMA ShownType ==
  ASSUME Loops, Collected, NEW m \in Sections
  PROVE  /\ IsStats(showPtrs(m))
         /\ VMAs[m].name \in DOMAIN Libraries => Sound(showPtrs(m))
<1>1. /\ i \in Nat
      /\ ptrs[m] \subseteq ((VMAs[m].start + 1)..VMAs[m].end) \X (0..(i - 1))
  BY DEF Loops, Collected
<1>2. /\ VMAs[m].start \in Nat /\ VMAs[m].end \in Nat
      /\ VMAs[m].start + 1 \in Int /\ i - 1 \in Int
  BY <1>1, Bounds
<1>3. IsFiniteSet(ptrs[m])
  <2>a. \A k, l \in Int : IsFiniteSet(k..l)
    BY FS_Interval
  <2>b. VMAs[m].end \in Int /\ 0 \in Int
    BY <1>2
  <2>1. /\ IsFiniteSet((VMAs[m].start + 1)..VMAs[m].end)
        /\ IsFiniteSet(0..(i - 1))
    BY <2>a, <2>b, <1>2
  <2>2. IsFiniteSet(((VMAs[m].start + 1)..VMAs[m].end) \X (0..(i - 1)))
    BY <2>1, FS_Product
  <2> QED
    BY <1>1, <2>2, FS_Subset
<1>4. ASSUME NEW a \in {p[1] : p \in ptrs[m]}
      PROVE  /\ a \in (VMAs[m].start + 1)..VMAs[m].end
             /\ a \in Nat
             /\ Cardinality({p \in ptrs[m] : p[1] = a}) \in Nat
  <2>1. a \in (VMAs[m].start + 1)..VMAs[m].end
    BY <1>1
  <2>2. a \in Nat
    BY <2>1, <1>2
  <2>3. IsFiniteSet({p \in ptrs[m] : p[1] = a})
    BY <1>3, FS_Subset
  <2> QED
    BY <2>1, <2>2, <2>3, FS_CardinalityType
<1>5. /\ DOMAIN showPtrs(m) = {p[1] : p \in ptrs[m]}
      /\ \A a \in {p[1] : p \in ptrs[m]} :
           showPtrs(m)[a] = [count |-> Cardinality({p \in ptrs[m] : p[1] = a}),
                             flags |-> PtrFlags(m, a)]
  BY DEF showPtrs
<1> DEFINE S == showPtrs(m)
<1>8. \A a \in DOMAIN S :
        /\ a \in (VMAs[m].start + 1)..VMAs[m].end
        /\ a \in Nat
        /\ S[a].count \in Nat
        /\ S[a].flags = PtrFlags(m, a)
  <2> SUFFICES ASSUME NEW a \in DOMAIN S
               PROVE  /\ a \in (VMAs[m].start + 1)..VMAs[m].end
                      /\ a \in Nat
                      /\ S[a].count \in Nat
                      /\ S[a].flags = PtrFlags(m, a)
    OBVIOUS
  <2>1. a \in {p[1] : p \in ptrs[m]}
    BY <1>5
  <2>2. S[a] = [count |-> Cardinality({p \in ptrs[m] : p[1] = a}),
                flags |-> PtrFlags(m, a)]
    BY <1>5, <2>1
  <2>3. S[a].count = Cardinality({p \in ptrs[m] : p[1] = a}) /\ S[a].flags = PtrFlags(m, a)
    BY <2>2
  <2> QED
    BY <1>4, <2>1, <2>3
<1> HIDE DEF S
<1>9. IsStats(S) /\ (VMAs[m].name \in DOMAIN Libraries => Sound(S))
  <2>1. \A a \in DOMAIN S : S[a].flags \subseteq Flags
    BY <1>8, FlagsType
  <2> QED
    BY <1>8, <2>1 DEF IsStats, Sound
<1> QED
  BY <1>9 DEF S

LEMMA MergedType ==
  ASSUME NEW g, NEW h, IsStats(g), IsStats(h), Sound(g), Sound(h)
  PROVE  IsStats(Merged(g, h)) /\ Sound(Merged(g, h))
<1> DEFINE r == Merged(g, h)
<1>1. /\ DOMAIN r = DOMAIN g \cup DOMAIN h
      /\ \A a \in DOMAIN r : a \notin DOMAIN h => a \in DOMAIN g /\ r[a] = g[a]
      /\ \A a \in DOMAIN h :
           r[a] = [count |-> h[a].count + (IF a \in DOMAIN g THEN g[a].count ELSE 0),
                   flags |-> h[a].flags]
  BY DEF Merged
<1> HIDE DEF r
<1>2. ASSUME NEW a \in DOMAIN r
      PROVE  a \in Nat /\ r[a].count \in Nat /\ r[a].flags \subseteq Flags
  BY <1>1 DEF IsStats
<1>3. ASSUME NEW a \in DOMAIN r
      PROVE  \E m \in Sections : /\ VMAs[m].name \in DOMAIN Libraries
                                 /\ a \in (VMAs[m].start + 1)..VMAs[m].end
                                 /\ r[a].flags = PtrFlags(m, a)
  BY <1>1 DEF Sound
<1>4. IsStats(r) /\ Sound(r)
  BY <1>2, <1>3 DEF IsStats, Sound
<1> QED
  BY <1>4 DEF r

\* an address behind the first byte of a mapping lies in no other
LEMMA OneMapping ==
  ASSUME NEW m \in Sections, NEW n \in Sections, NEW a,
         a \in (VMAs[m].start + 1)..VMAs[m].end,
         a \in (VMAs[n].start + 1)..VMAs[n].end
  PROVE  m = n
<1>1. Sections \subseteq Int
  BY DEF Sections
<1>2. \A k, l \in Sections : k < l => VMAs[k].end <= VMAs[l].start
  BY PtrClassAssumption
<1>3. VMAs[m].start < a /\ a <= VMAs[m].end /\ VMAs[n].start < a /\ a <= VMAs[n].end
  BY Bounds
<1>4. ~(m < n) /\ ~(n < m)
  BY <1>2, <1>3, Bounds
<1> QED
  BY <1>1, <1>4

LEMMA SoundAgree ==
  ASSUME NEW g, NEW h, Sound(g), Sound(h)
  PROVE  ~Differ(g, h)
<1> SUFFICES ASSUME NEW a \in DOMAIN g \cap DOMAIN h PROVE g[a].flags = h[a].flags
  BY DEF Differ
<1>1. PICK m \in Sections : /\ a \in (VMAs[m].start + 1)..VMAs[m].end
                            /\ g[a].flags = PtrFlags(m, a)
  BY DEF Sound
<1>2. PICK n \in Sections : /\ a \in (VMAs[n].start + 1)..VMAs[n].end
                            /\ h[a].flags = PtrFlags(n, a)
  BY DEF Sound
<1>3. m = n
  BY <1>1, <1>2, OneMapping
<1> QED
  BY <1>1, <1>2, <1>3

-----------------------------------------------------------------------------
(* The inductive invariant.                                                *)

Inv ==
  /\ Loops
  /\ Collected
  /\ IsStats(stats) /\ Sound(stats)
  /\ IsStats(globStats) /\ Sound(globStats)
  /\ label # "abort"

LEMMA InvInit == Init => Inv
<1> SUFFICES ASSUME Init PROVE Inv
  OBVIOUS
<1>1. Loops
  BY PtrClassAssumption, LenNat DEF Init, Loops
<1>2. Collected
  BY DEF Init, Collected, NoPtrs
<1>3. IsStats(NoStats) /\ Sound(NoStats)
  BY DEF NoStats, IsStats, Sound
<1> QED
  BY <1>1, <1>2, <1>3 DEF Init, Inv

LEMMA StatsStep ==
  Inv /\ [Next]_vars =>
    /\ IsStats(stats') /\ Sound(stats') /\ IsStats(globStats') /\ Sound(globStats')
    /\ label' # "abort"
<1> SUFFICES ASSUME Inv, [Next]_vars
             PROVE  /\ IsStats(stats') /\ Sound(stats')
                    /\ IsStats(globStats') /\ Sound(globStats')
                    /\ label' # "abort"
  OBVIOUS
<1> USE DEF Inv
<1>1. CASE UNCHANGED <<stats, globStats>> /\ label' # "abort"
  BY <1>1
<1>2. CASE BeginSection
  <2>1. IsStats(NoStats) /\ Sound(NoStats)
    BY DEF NoStats, IsStats, Sound
  <2> QED
    BY <1>2, <2>1 DEF BeginSection
<1>3. CASE ShowMapping
  <2>1. mapping \in Sections /\ VMAs[mapping].name \in DOMAIN Libraries
    BY <1>3 DEF ShowMapping, Showing
  <2>2. IsStats(showPtrs(mapping)) /\ Sound(showPtrs(mapping))
    BY <2>1, ShownType
  <2>3. ~Differ(stats, showPtrs(mapping))
    BY <2>2, SoundAgree
  <2>4. IsStats(Merged(stats, showPtrs(mapping))) /\ Sound(Merged(stats, showPtrs(mapping)))
    BY <2>2, MergedType
  <2> QED
    BY <1>3, <2>3, <2>4 DEF ShowMapping
<1>4. CASE MergeSection
  <2>1. ~Differ(globStats, stats)
    BY SoundAgree
  <2>2. IsStats(Merged(globStats, stats)) /\ Sound(Merged(globStats, stats))
    BY MergedType
  <2> QED
    BY <1>4, <2>1, <2>2 DEF MergeSection
<1>5. CASE SkipSection \/ Finished \/ ScanQuadword \/ ScanDone \/ PassMapping \/ NoLoader
             \/ UNCHANGED vars
  BY <1>1, <1>5
  DEF SkipSection, Finished, ScanQuadword, ScanDone, PassMapping, NoLoader, vars
<1> QED
  BY <1>2, <1>3, <1>4, <1>5 DEF Next

LEMMA InvStep == Inv /\ [Next]_vars => Inv'
<1>1. (Inv <=> /\ Loops /\ Collected /\ IsStats(stats) /\ Sound(stats)
               /\ IsStats(globStats) /\ Sound(globStats) /\ label # "abort")'
  BY DEF Inv
<1> QED
  BY <1>1, LoopsStep, CollectedStep, StatsStep DEF Inv

(***************************************************************************)
(* The variables of validateProcess and validateDataPage keep their types; *)
(* the last quadword of a section is not looked at.                        *)
(***************************************************************************)
THEOREM TypeCorrect == Spec => []TypeOK
<1>1. Inv => TypeOK
  BY TypeParts DEF Inv
<1> QED
  BY <1>1, InvInit, InvStep, PTL DEF Spec

(***************************************************************************)
(* No assertion of validateProcess or validateDataPage fails: the mappings *)
(* do not overlap, and a pointer is kept only with one in which it is not  *)
(* the first byte.                                                         *)
(***************************************************************************)
THEOREM StatsCorrect == Spec => []StatsAgree
<1>1. Inv => StatsAgree
  BY DEF Inv, StatsAgree
<1> QED
  BY <1>1, InvInit, InvStep, PTL DEF Spec

-----------------------------------------------------------------------------
(* What is counted.                                                        *)

\* the pointers to a in section s, and in the sections before section n
SitesIn(s, a) == {<<s, k>> : k \in {k \in 1..(Len(memory[s]) - 1) : CountedPtr(s, k, a)}}

SitesBefore(n, a) == UNION {SitesIn(s, a) : s \in 1..(n - 1)}

\* what a mapping has collected of the pointers to a
PtrsTo(m, a) == {p \in ptrs[m] : p[1] = a}

\* the loop over the section's content
ScanInv ==
  label \in {"scan", "show"} =>
    /\ Searched(section) /\ Len(memory[section]) > 1
    /\ label = "scan" => mapping = 1
    /\ label = "show" => i + 1 = Len(memory[section])
    /\ \A m \in Sections : \A p :
         p \in ptrs[m] <=> \E k \in 1..i : /\ p = <<memory[section][k], k - 1>>
                                           /\ m \in Targets(section, memory[section][k])

\* the statistics of the section have the mappings that were shown
ShownInv ==
  label \in {"scan", "show"} =>
    /\ \A a : a \in DOMAIN stats <=> \E m \in 1..(mapping - 1) : PtrsTo(m, a) # {}
    /\ \A a : \A m \in 1..(mapping - 1) :
         PtrsTo(m, a) # {} => stats[a].count = Cardinality(PtrsTo(m, a))

\* those of the process have the sections that were searched
CountInv ==
  /\ \A a : a \in DOMAIN globStats <=> SitesBefore(section, a) # {}
  /\ \A a : /\ IsFiniteSet(SitesBefore(section, a))
            /\ a \in DOMAIN globStats =>
                 globStats[a].count = Cardinality(SitesBefore(section, a))
  /\ label = "done" => section = Len(VMAs) + 1

LEMMA MemoryType ==
  ASSUME Loops, NEW s \in Sections
  PROVE  /\ memory[s] \in Seq(Nat) /\ Len(memory[s]) \in Nat
         /\ \A k \in 1..Len(memory[s]) : memory[s][k] \in Nat
<1>1. memory[s] \in Seq(Nat)
  BY DEF Loops
<1> QED
  BY <1>1

LEMMA TargetIn ==
  ASSUME NEW s, NEW a \in Nat, NEW m \in Targets(s, a)
  PROVE  m \in Sections /\ a \in (VMAs[m].start + 1)..VMAs[m].end
<1>1. m \in Sections /\ VMAs[m].start + 1 <= a /\ a <= VMAs[m].end
  BY DEF Targets, InMapping
<1>2. VMAs[m].start \in Nat /\ VMAs[m].end \in Nat
  BY <1>1, Bounds
<1> QED
  BY <1>1, <1>2

\* a pointer is counted if the loop over the mappings keeps it
LEMMA CountedIfTarget ==
  ASSUME NEW s \in Sections, Searched(s), NEW k, NEW a \in Nat, memory[s][k] = a
  PROVE  CountedPtr(s, k, a) <=> Targets(s, a) # {}
<1>1. ASSUME NEW m \in Sections
      PROVE  m \in Targets(s, a) <=>
               /\ VMAs[m].exec /\ VMAs[m].start < a /\ a <= VMAs[m].end
               /\ a # VMAs[m].start + Phdr
               /\ \A n \in 1..m : VMAs[n].exec => VMAs[n].name # VMAs[s].name
  <2>1. /\ VMAs[m].start \in Nat /\ VMAs[m].end \in Nat /\ m \in 1..m
        /\ \A n \in 1..m : n \in Sections
    BY Bounds, LenNat DEF Sections
  <2>2. InMapping(a, m) <=> VMAs[m].start < a /\ a <= VMAs[m].end
    BY <2>1 DEF InMapping
  <2>3. InMapping(a, m) => \A n \in 1..m : InMapping(a, n) => n = m
    <3> SUFFICES ASSUME InMapping(a, m), NEW n \in 1..m, InMapping(a, n) PROVE n = m
      OBVIOUS
    <3>1. n \in Sections /\ VMAs[n].start \in Nat /\ VMAs[n].end \in Nat
      BY <2>1, Bounds
    <3>2. a \in (VMAs[m].start + 1)..VMAs[m].end /\ a \in (VMAs[n].start + 1)..VMAs[n].end
      BY <2>1, <3>1 DEF InMapping
    <3> QED
      BY <3>1, <3>2, OneMapping
  <2> QED
    BY <2>1, <2>2, <2>3 DEF Targets, Breaks
<1> QED
  BY <1>1 DEF CountedPtr, Targets

\* what was collected of the pointers to a in the section that was searched
LEMMA PtrsToSites ==
  ASSUME Loops, ScanInv, label = "show", NEW m \in Sections, NEW a
  PROVE  LET K == {k \in 1..(Len(memory[section]) - 1) : CountedPtr(section, k, a)} IN
         PtrsTo(m, a) # {} =>
           /\ PtrsTo(m, a) = {<<a, k - 1>> : k \in K}
           /\ K # {}
<1> DEFINE K == {k \in 1..(Len(memory[section]) - 1) : CountedPtr(section, k, a)}
<1> SUFFICES ASSUME PtrsTo(m, a) # {}
             PROVE  PtrsTo(m, a) = {<<a, k - 1>> : k \in K} /\ K # {}
  OBVIOUS
<1>1. /\ section \in Sections /\ Searched(section)
      /\ i \in Nat /\ i + 1 = Len(memory[section]) /\ Len(memory[section]) \in Nat
      /\ \A p : p \in ptrs[m] <=> \E k \in 1..i : /\ p = <<memory[section][k], k - 1>>
                                                  /\ m \in Targets(section, memory[section][k])
  BY MemoryType DEF Loops, ScanInv
<1>2. 1..i = 1..(Len(memory[section]) - 1) /\ \A k \in 1..i : memory[section][k] \in Nat
  <2>1. \A k \in 1..i : k \in 1..Len(memory[section])
    BY <1>1
  <2> QED
    BY <1>1, <2>1, MemoryType
<1>3. PICK k0 \in 1..i : memory[section][k0] = a /\ m \in Targets(section, a)
  BY <1>1 DEF PtrsTo
<1>4. a \in Nat
  BY <1>2, <1>3
<1>5. K = {k \in 1..i : memory[section][k] = a}
  <2>1. \A k \in 1..i : CountedPtr(section, k, a) <=> memory[section][k] = a
    <3>1. \A k : CountedPtr(section, k, a) => memory[section][k] = a
      BY DEF CountedPtr
    <3> QED
      BY <1>1, <1>3, <1>4, <3>1, CountedIfTarget
  <2> QED
    BY <1>2, <2>1
<1>6. PtrsTo(m, a) = {<<a, k - 1>> : k \in {k \in 1..i : memory[section][k] = a}}
  <2> DEFINE R == {<<a, k - 1>> : k \in {k \in 1..i : memory[section][k] = a}}
  <2>1. ASSUME NEW p \in PtrsTo(m, a) PROVE p \in R
    <3>1. PICK k \in 1..i : p = <<memory[section][k], k - 1>>
      BY <1>1 DEF PtrsTo
    <3>2. p[1] = a
      BY DEF PtrsTo
    <3> QED
      BY <3>1, <3>2
  <2>2. ASSUME NEW p \in R PROVE p \in PtrsTo(m, a)
    <3>1. PICK k \in 1..i : memory[section][k] = a /\ p = <<a, k - 1>>
      OBVIOUS
    <3> QED
      BY <3>1, <1>1, <1>3 DEF PtrsTo
  <2> QED
    BY <2>1, <2>2
<1>7. k0 \in K
  BY <1>3, <1>5
<1> QED
  BY <1>5, <1>6, <1>7

\* two images of the same set
AsSites(s, K) == {<<s, k>> : k \in K}
AsPtrs(a, K) == {<<a, k - 1>> : k \in K}

LEMMA SameCount ==
  ASSUME NEW n \in Nat, NEW K \in SUBSET (1..n), NEW s, NEW a
  PROVE  /\ IsFiniteSet(AsSites(s, K))
         /\ Cardinality(AsSites(s, K)) = Cardinality(K)
         /\ Cardinality(AsPtrs(a, K)) = Cardinality(K)
<1>1. IsFiniteSet(K)
  <2>1. IsFiniteSet(1..n)
    BY FS_Interval
  <2> QED
    BY <2>1, FS_Subset
<1>2. ExistsBijection(K, AsSites(s, K))
  <2> DEFINE T == {<<s, k>> : k \in K}
             F == [k \in K |-> <<s, k>>]
  <2>1. F \in [K -> T] /\ (\A k, l \in K : F[k] = F[l] => k = l)
    OBVIOUS
  <2>2. \A t \in T : \E k \in K : F[k] = t
    OBVIOUS
  <2> HIDE DEF F, T
  <2>3. F \in Bijection(K, T)
    BY <2>1, <2>2, Fun_IsBij
  <2> QED
    BY <2>3 DEF ExistsBijection, T, AsSites
<1>3. ExistsBijection(K, AsPtrs(a, K))
  <2> DEFINE T == {<<a, k - 1>> : k \in K}
             F == [k \in K |-> <<a, k - 1>>]
  <2>1. F \in [K -> T]
    OBVIOUS
  <2>2. \A k, l \in K : F[k] = F[l] => k = l
    <3> SUFFICES ASSUME NEW k \in K, NEW l \in K, <<a, k - 1>> = <<a, l - 1>> PROVE k = l
      OBVIOUS
    <3>1. k - 1 = l - 1 /\ k \in Int /\ l \in Int
      OBVIOUS
    <3> QED
      BY <3>1
  <2>3. \A t \in T : \E k \in K : F[k] = t
    OBVIOUS
  <2> HIDE DEF F, T
  <2>4. F \in Bijection(K, T)
    BY <2>1, <2>2, <2>3, Fun_IsBij
  <2> QED
    BY <2>4 DEF ExistsBijection, T, AsPtrs
<1> QED
  BY <1>1, <1>2, <1>3, FS_Bijection

LEMMA SectionCounted ==
  ASSUME Loops, ScanInv, label = "show", NEW a
  PROVE  /\ IsFiniteSet(SitesIn(section, a))
         /\ \A m \in Sections : PtrsTo(m, a) # {} =>
              /\ SitesIn(section, a) # {}
              /\ Cardinality(SitesIn(section, a)) = Cardinality(PtrsTo(m, a))
         /\ SitesIn(section, a) # {} => \E m \in Sections : PtrsTo(m, a) # {}
<1> DEFINE K == {k \in 1..(Len(memory[section]) - 1) : CountedPtr(section, k, a)}
<1>1. /\ section \in Sections /\ Searched(section)
      /\ i \in Nat /\ i + 1 = Len(memory[section]) /\ Len(memory[section]) \in Nat
  BY MemoryType DEF Loops, ScanInv
<1>2. SitesIn(section, a) = AsSites(section, K)
  BY DEF SitesIn, AsSites
<1>3. K \in SUBSET (1..i)
  BY <1>1
<1>4. /\ IsFiniteSet(AsSites(section, K))
      /\ Cardinality(AsSites(section, K)) = Cardinality(AsPtrs(a, K))
  <2> HIDE DEF K
  <2> QED
    BY <1>1, <1>3, SameCount
<1>5. ASSUME NEW m \in Sections, PtrsTo(m, a) # {}
      PROVE  /\ SitesIn(section, a) # {}
             /\ Cardinality(SitesIn(section, a)) = Cardinality(PtrsTo(m, a))
  <2>1. PtrsTo(m, a) = AsPtrs(a, K) /\ K # {}
    BY <1>5, PtrsToSites DEF AsPtrs
  <2>2. SitesIn(section, a) # {}
    <3> HIDE DEF K
    <3> QED
      BY <1>2, <2>1 DEF AsSites
  <2> HIDE DEF K
  <2> QED
    BY <1>2, <1>4, <2>1, <2>2
<1>6. ASSUME SitesIn(section, a) # {} PROVE \E m \in Sections : PtrsTo(m, a) # {}
  <2>1. PICK k \in 1..i : CountedPtr(section, k, a)
    BY <1>2, <1>3, <1>6 DEF AsSites
  <2>2. memory[section][k] = a /\ a \in Nat
    <3>1. k \in 1..Len(memory[section])
      BY <1>1
    <3> QED
      BY <1>1, <2>1, <3>1, MemoryType DEF CountedPtr
  <2>3. PICK m \in Sections : m \in Targets(section, a)
    <3>1. Targets(section, a) # {}
      BY <1>1, <2>1, <2>2, CountedIfTarget
    <3> QED
      BY <3>1 DEF Targets
  <2>4. <<a, k - 1>> \in ptrs[m]
    BY <2>1, <2>2, <2>3 DEF ScanInv
  <2> QED
    BY <2>4 DEF PtrsTo
<1> QED
  BY <1>2, <1>4, <1>5, <1>6

-----------------------------------------------------------------------------
(* Every step keeps the counts.                                            *)

Counting == ScanInv /\ ShownInv /\ CountInv

LEMMA SectionNumbers ==
  /\ Sections = 1..Len(VMAs) /\ Len(VMAs) \in Nat
  /\ \A n \in 1..(Len(VMAs) + 1) : \A m \in 1..(n - 1) : m \in Sections /\ m # n
BY LenNat DEF Sections

LEMMA CountingInit == Init => Counting
<1> SUFFICES ASSUME Init PROVE Counting
  OBVIOUS
<1>1. /\ label = "section" /\ section = 1 /\ DOMAIN globStats = {}
  BY DEF Init, NoStats
<1>2. \A a : SitesBefore(section, a) = {}
  BY <1>1 DEF SitesBefore
<1> QED
  BY <1>1, <1>2, FS_EmptySet DEF Counting, ScanInv, ShownInv, CountInv

LEMMA ScanInvStep == Inv /\ Counting /\ [Next]_vars => ScanInv'
<1> SUFFICES ASSUME Inv, Counting, [Next]_vars PROVE ScanInv'
  OBVIOUS
<1>1. Loops /\ ScanInv
  BY DEF Inv, Counting
<1>2. CASE label' \notin {"scan", "show"}
  BY <1>2 DEF ScanInv
<1>3. CASE UNCHANGED <<memory, label, section, i, ptrs>> /\ (mapping' = mapping \/ label = "show")
  BY <1>1, <1>3 DEF ScanInv
<1>4. CASE BeginSection
  <2>1. /\ Searched(section) /\ Len(memory[section]) > 1
        /\ label' = "scan" /\ i' = 0 /\ mapping' = 1
        /\ \A m \in Sections : ptrs'[m] = {}
        /\ UNCHANGED <<memory, section>>
    BY <1>4 DEF BeginSection, NoPtrs
  <2>2. 1..i' = {}
    BY <2>1
  <2> QED
    BY <2>1, <2>2 DEF ScanInv
<1>5. CASE ScanQuadword
  <2>1. /\ label = "scan" /\ label' = "scan"
        /\ i' = i + 1 /\ i \in Nat
        /\ UNCHANGED <<memory, section, mapping>>
        /\ \A m \in Sections : ptrs'[m] = IF m \in Targets(section, Quadword)
                                            THEN ptrs[m] \cup {<<Quadword, i>>} ELSE ptrs[m]
    BY <1>1, <1>5 DEF ScanQuadword, Loops
  <2>2. /\ Searched(section) /\ Len(memory[section]) > 1 /\ mapping = 1
        /\ \A m \in Sections : \A p :
             p \in ptrs[m] <=> \E k \in 1..i : /\ p = <<memory[section][k], k - 1>>
                                               /\ m \in Targets(section, memory[section][k])
    BY <1>1, <2>1 DEF ScanInv
  <2>3. 1..i' = (1..i) \cup {i + 1} /\ (i + 1) - 1 = i
    BY <2>1
  <2>4. Quadword = memory[section][i + 1]
    BY DEF Quadword
  <2>5. ASSUME NEW m \in Sections, NEW p
        PROVE  p \in ptrs'[m] <=> \E k \in 1..i' : /\ p = <<memory[section][k], k - 1>>
                                                   /\ m \in Targets(section, memory[section][k])
    <3>1. p \in ptrs'[m] <=>
            p \in ptrs[m] \/ (m \in Targets(section, Quadword) /\ p = <<Quadword, i>>)
      BY <2>1
    <3> QED
      BY <2>2, <2>3, <2>4, <3>1
  <2> QED
    BY <2>1, <2>2, <2>5 DEF ScanInv
<1>6. CASE ScanDone
  <2>1. /\ label = "scan" /\ label' = "show" /\ ~(i + 1 < Len(memory[section]))
        /\ UNCHANGED <<memory, section, i, ptrs, mapping>>
    BY <1>6 DEF ScanDone, InContent
  <2>2. i + 1 = Len(memory[section])
    <3>1. i \in Nat /\ i < Len(memory[section]) /\ section \in Sections
      BY <1>1, <2>1 DEF Loops
    <3>2. Len(memory[section]) \in Nat
      BY <1>1, <3>1, MemoryType
    <3> QED
      BY <2>1, <3>1, <3>2
  <2> QED
    BY <1>1, <2>1, <2>2 DEF ScanInv
<1>7. CASE PassMapping \/ ShowMapping
  <2>1. /\ label = "show" /\ label' \in {"show", "abort"}
        /\ UNCHANGED <<memory, section, i, ptrs>>
    BY <1>7 DEF PassMapping, ShowMapping, Showing
  <2> QED
    BY <1>2, <1>3, <2>1
<1>8. CASE SkipSection \/ Finished \/ NoLoader \/ MergeSection
  <2>1. label' \notin {"scan", "show"}
    BY <1>8 DEF SkipSection, Finished, NoLoader, MergeSection
  <2> QED
    BY <1>2, <2>1
<1>9. CASE UNCHANGED vars
  BY <1>3, <1>9 DEF vars
<1> QED
  BY <1>4, <1>5, <1>6, <1>7, <1>8, <1>9 DEF Next

LEMMA ShownInvStep == Inv /\ Counting /\ [Next]_vars => ShownInv'
<1> SUFFICES ASSUME Inv, Counting, [Next]_vars PROVE ShownInv'
  OBVIOUS
<1>1. Loops /\ Collected /\ ScanInv /\ ShownInv
  BY DEF Inv, Counting
<1>2. CASE label' \notin {"scan", "show"}
  BY <1>2 DEF ShownInv
<1>3. CASE UNCHANGED <<ptrs, mapping, stats>> /\ (label' \in {"scan", "show"} => label \in {"scan", "show"})
  BY <1>1, <1>3 DEF ShownInv, PtrsTo
<1>4. CASE BeginSection
  <2>1. mapping' = 1 /\ DOMAIN stats' = {}
    BY <1>4 DEF BeginSection, NoStats
  <2>2. 1..(mapping' - 1) = {}
    BY <2>1
  <2> QED
    BY <2>1, <2>2 DEF ShownInv
<1>5. CASE ScanQuadword
  <2>1. label = "scan" /\ mapping = 1 /\ mapping' = mapping /\ stats' = stats
    BY <1>1, <1>5 DEF ScanQuadword, ScanInv
  <2>2. 1..(mapping - 1) = {} /\ 1..(mapping' - 1) = {}
    BY <2>1
  <2>3. \A a : a \notin DOMAIN stats
    BY <1>1, <2>1, <2>2 DEF ShownInv
  <2> QED
    BY <2>1, <2>2, <2>3 DEF ShownInv
<1>6. CASE PassMapping
  <2>1. /\ label = "show" /\ mapping \in Sections /\ ptrs[mapping] = {}
        /\ mapping' = mapping + 1 /\ UNCHANGED <<ptrs, stats>>
    BY <1>6 DEF PassMapping, Showing
  <2>2. mapping \in Nat \ {0}
    BY <2>1 DEF Sections
  <2>3. 1..(mapping' - 1) = (1..(mapping - 1)) \cup {mapping}
    BY <2>1, <2>2
  <2>4. \A a : PtrsTo(mapping, a) = {}
    BY <2>1 DEF PtrsTo
  <2>5. \A m, a : PtrsTo(m, a)' = PtrsTo(m, a)
    BY <2>1 DEF PtrsTo
  <2> QED
    BY <1>1, <2>1, <2>3, <2>4, <2>5 DEF ShownInv
<1>7. CASE ShowMapping
  <2>1. /\ label = "show" /\ mapping \in Sections
        /\ stats' = Merged(stats, showPtrs(mapping))
        /\ mapping' = mapping + 1 /\ UNCHANGED ptrs
    BY <1>7 DEF ShowMapping, Showing
  <2>2. mapping \in Nat \ {0}
    BY <2>1 DEF Sections
  <2>3. 1..(mapping' - 1) = (1..(mapping - 1)) \cup {mapping}
    BY <2>1, <2>2
  <2>4. \A m, a : PtrsTo(m, a)' = PtrsTo(m, a)
    BY <2>1 DEF PtrsTo
  <2>5. \A a : a \in DOMAIN showPtrs(mapping) <=> PtrsTo(mapping, a) # {}
    BY DEF showPtrs, PtrsTo
  <2>6. \A a \in DOMAIN showPtrs(mapping) :
          showPtrs(mapping)[a].count = Cardinality(PtrsTo(mapping, a))
    BY DEF showPtrs, PtrsTo
  <2>7. ASSUME NEW m \in 1..(mapping - 1), NEW a, PtrsTo(m, a) # {}, PtrsTo(mapping, a) # {}
        PROVE  FALSE
    <3>1. m \in Sections /\ m # mapping
      BY <1>1, SectionNumbers DEF Loops
    <3>2. a \in (VMAs[m].start + 1)..VMAs[m].end
      BY <1>1, <2>7, <3>1 DEF Collected, PtrsTo
    <3>3. a \in (VMAs[mapping].start + 1)..VMAs[mapping].end
      BY <1>1, <2>1, <2>7 DEF Collected, PtrsTo
    <3> QED
      BY <2>1, <3>1, <3>2, <3>3, OneMapping
  <2>8. \A a \in DOMAIN showPtrs(mapping) : a \notin DOMAIN stats
    BY <1>1, <2>1, <2>5, <2>7 DEF ShownInv
  <2>9. DOMAIN stats' = DOMAIN stats \cup DOMAIN showPtrs(mapping)
    BY <2>1 DEF Merged
  <2>10. ASSUME NEW a \in DOMAIN showPtrs(mapping)
         PROVE  stats'[a].count = Cardinality(PtrsTo(mapping, a))
    <3>1. stats'[a].count = showPtrs(mapping)[a].count + 0
      BY <2>1, <2>8 DEF Merged
    <3>2. showPtrs(mapping)[a].count \in Nat
      BY <1>1, <2>1, ShownType DEF IsStats
    <3> QED
      BY <2>6, <3>1, <3>2
  <2>11. \A a \in DOMAIN stats : stats'[a] = stats[a]
    BY <2>1, <2>8 DEF Merged
  <2>12. /\ \A a : a \in DOMAIN stats <=> \E m \in 1..(mapping - 1) : PtrsTo(m, a) # {}
         /\ \A a : \A m \in 1..(mapping - 1) :
              PtrsTo(m, a) # {} => stats[a].count = Cardinality(PtrsTo(m, a))
    BY <1>1, <2>1 DEF ShownInv
  <2>13. \A a : a \in DOMAIN stats' <=> \E m \in 1..(mapping' - 1) : PtrsTo(m, a)' # {}
    BY <2>3, <2>4, <2>5, <2>9, <2>12
  <2>14. ASSUME NEW a, NEW m \in 1..(mapping' - 1), PtrsTo(m, a) # {}
         PROVE  stats'[a].count = Cardinality(PtrsTo(m, a))
    <3>1. CASE m = mapping
      BY <2>5, <2>10, <2>14, <3>1
    <3>2. CASE m \in 1..(mapping - 1)
      BY <2>11, <2>12, <2>14, <3>2
    <3> QED
      BY <2>3, <3>1, <3>2
  <2> QED
    BY <2>4, <2>13, <2>14 DEF ShownInv
<1>8. CASE ScanDone
  BY <1>3, <1>8 DEF ScanDone
<1>9. CASE SkipSection \/ Finished \/ NoLoader \/ MergeSection
  <2>1. label' \notin {"scan", "show"}
    BY <1>9 DEF SkipSection, Finished, NoLoader, MergeSection
  <2> QED
    BY <1>2, <2>1
<1>10. CASE UNCHANGED vars
  BY <1>3, <1>10 DEF vars
<1> QED
  BY <1>4, <1>5, <1>6, <1>7, <1>8, <1>9, <1>10 DEF Next

\* the sites of one more section
LEMMA SitesOfOneMore ==
  ASSUME Loops, section \in Sections, section' = section + 1, memory' = memory, NEW a,
         IsFiniteSet(SitesBefore(section, a)), IsFiniteSet(SitesIn(section, a))
  PROVE  /\ SitesBefore(section, a)' = SitesBefore(section, a) \cup SitesIn(section, a)
         /\ IsFiniteSet(SitesBefore(section, a)')
         /\ Cardinality(SitesBefore(section, a)')
              = Cardinality(SitesBefore(section, a)) + Cardinality(SitesIn(section, a))
<1>1. section \in Nat \ {0}
  BY DEF Sections
<1>2. 1..(section' - 1) = (1..(section - 1)) \cup {section}
  BY <1>1
<1>3. \A s : SitesIn(s, a)' = SitesIn(s, a)
  BY DEF SitesIn, CountedPtr
<1>4. SitesBefore(section, a)' = SitesBefore(section, a) \cup SitesIn(section, a)
  BY <1>2, <1>3 DEF SitesBefore
<1>5. SitesBefore(section, a) \cap SitesIn(section, a) = {}
  <2> SUFFICES ASSUME NEW p \in SitesBefore(section, a), p \in SitesIn(section, a) PROVE FALSE
    OBVIOUS
  <2>1. PICK s \in 1..(section - 1) : p \in SitesIn(s, a)
    BY DEF SitesBefore
  <2>2. p[1] = s /\ p[1] = section
    BY <2>1 DEF SitesIn
  <2> QED
    BY <1>1, <2>1, <2>2
<1>6. /\ IsFiniteSet(SitesBefore(section, a) \cup SitesIn(section, a))
      /\ Cardinality(SitesBefore(section, a) \cup SitesIn(section, a))
           = Cardinality(SitesBefore(section, a)) + Cardinality(SitesIn(section, a))
  <2>1. Cardinality({}) = 0
    BY FS_EmptySet
  <2> DEFINE A == SitesBefore(section, a)
             B == SitesIn(section, a)
  <2>2. IsFiniteSet(A) /\ IsFiniteSet(B) /\ A \cap B = {}
    BY <1>5
  <2> HIDE DEF A, B
  <2>3. Cardinality(A) \in Nat /\ Cardinality(B) \in Nat
    BY <2>2, FS_CardinalityType
  <2>4. /\ IsFiniteSet(A \cup B)
        /\ Cardinality(A \cup B) = Cardinality(A) + Cardinality(B) - Cardinality(A \cap B)
    BY <2>2, FS_Union
  <2>5. Cardinality(A \cup B) = Cardinality(A) + Cardinality(B)
    <3>1. Cardinality(A \cap B) = 0
      BY <2>1, <2>2, Zenon
    <3>2. Cardinality(A \cup B) = Cardinality(A) + Cardinality(B) - 0
      BY <2>4, <3>1, Zenon
    <3> QED
      BY <2>3, <3>2
  <2> QED
    BY <2>4, <2>5 DEF A, B
<1> QED
  BY <1>4, <1>6

LEMMA CountInvStep == Inv /\ Counting /\ [Next]_vars => CountInv'
<1> SUFFICES ASSUME Inv, Counting, [Next]_vars PROVE CountInv'
  OBVIOUS
<1>1. Loops /\ Collected /\ ScanInv /\ ShownInv /\ CountInv /\ IsStats(globStats)
  BY DEF Inv, Counting
<1>2. CASE UNCHANGED <<memory, section, globStats>> /\ (label' = "done" => label = "done" \/ section \notin Sections)
  <2>1. \A a : SitesBefore(section, a)' = SitesBefore(section, a)
    BY <1>2 DEF SitesBefore, SitesIn, CountedPtr
  <2>2. section \notin Sections => section = Len(VMAs) + 1
    BY <1>1, LenNat DEF Loops, Sections
  <2> QED
    BY <1>1, <1>2, <2>1, <2>2 DEF CountInv
<1>3. CASE SkipSection
  <2>1. /\ label' = "section" /\ section \in Sections /\ section' = section + 1
        /\ ~Searched(section) \/ Len(memory[section]) <= 1
        /\ UNCHANGED <<memory, globStats>>
    BY <1>3 DEF SkipSection
  <2>2. \A a : SitesIn(section, a) = {}
    <3>1. Len(memory[section]) \in Nat
      BY <1>1, <2>1, MemoryType
    <3>2. Len(memory[section]) <= 1 => 1..(Len(memory[section]) - 1) = {}
      BY <3>1
    <3>3. ~Searched(section) => \A k, a : ~CountedPtr(section, k, a)
      BY DEF CountedPtr
    <3> QED
      BY <2>1, <3>2, <3>3 DEF SitesIn
  <2>3. ASSUME NEW a
        PROVE  /\ SitesBefore(section, a)' = SitesBefore(section, a)
               /\ IsFiniteSet(SitesBefore(section, a)')
    <3>1. IsFiniteSet(SitesBefore(section, a)) /\ IsFiniteSet(SitesIn(section, a))
      BY <1>1, <2>2, FS_EmptySet DEF CountInv
    <3> QED
      BY <1>1, <2>1, <2>2, <3>1, SitesOfOneMore
  <2> QED
    BY <1>1, <2>1, <2>3 DEF CountInv
<1>4. CASE MergeSection
  <2>1. /\ label = "show" /\ mapping \notin Sections
        /\ label' \in {"abort", "section"} /\ section' = section + 1
        /\ globStats' = Merged(globStats, stats)
        /\ UNCHANGED memory
    BY <1>4 DEF MergeSection
  <2>2. section \in Sections /\ 1..(mapping - 1) = Sections
    <3>1. mapping = Len(VMAs) + 1
      BY <1>1, <2>1, LenNat DEF Loops, Sections
    <3> QED
      BY <1>1, <2>1, <3>1, LenNat DEF Loops, Sections
  <2>3. ASSUME NEW a
        PROVE  /\ a \in DOMAIN stats <=> SitesIn(section, a) # {}
               /\ a \in DOMAIN stats => stats[a].count = Cardinality(SitesIn(section, a))
               /\ IsFiniteSet(SitesIn(section, a))
    <3>1. /\ a \in DOMAIN stats <=> \E m \in Sections : PtrsTo(m, a) # {}
          /\ \A m \in Sections :
               PtrsTo(m, a) # {} => stats[a].count = Cardinality(PtrsTo(m, a))
      BY <1>1, <2>1, <2>2 DEF ShownInv
    <3>2. /\ IsFiniteSet(SitesIn(section, a))
          /\ \A m \in Sections : PtrsTo(m, a) # {} =>
               /\ SitesIn(section, a) # {}
               /\ Cardinality(SitesIn(section, a)) = Cardinality(PtrsTo(m, a))
          /\ SitesIn(section, a) # {} => \E m \in Sections : PtrsTo(m, a) # {}
      BY <1>1, <2>1, SectionCounted
    <3> QED
      BY <3>1, <3>2
  <2>4. ASSUME NEW a
        PROVE  /\ SitesBefore(section, a)' = SitesBefore(section, a) \cup SitesIn(section, a)
               /\ IsFiniteSet(SitesBefore(section, a)')
               /\ Cardinality(SitesBefore(section, a)')
                    = Cardinality(SitesBefore(section, a)) + Cardinality(SitesIn(section, a))
    <3>1. IsFiniteSet(SitesBefore(section, a)) /\ IsFiniteSet(SitesIn(section, a))
      BY <1>1, <2>3 DEF CountInv
    <3> QED
      BY <1>1, <2>1, <2>2, <3>1, SitesOfOneMore
  <2>5. DOMAIN globStats' = DOMAIN globStats \cup DOMAIN stats
    BY <2>1 DEF Merged
  <2>6. \A a : a \in DOMAIN globStats' <=> SitesBefore(section, a)' # {}
    BY <1>1, <2>3, <2>4, <2>5 DEF CountInv
  <2>7. ASSUME NEW a \in DOMAIN globStats'
        PROVE  globStats'[a].count = Cardinality(SitesBefore(section, a)')
    <3>1. /\ Cardinality(SitesBefore(section, a)) \in Nat
          /\ Cardinality(SitesIn(section, a)) \in Nat
      BY <1>1, <2>3, FS_CardinalityType DEF CountInv
    <3>2. a \notin DOMAIN globStats => Cardinality(SitesBefore(section, a)) = 0
      BY <1>1, FS_EmptySet DEF CountInv
    <3>3. a \notin DOMAIN stats => Cardinality(SitesIn(section, a)) = 0
      BY <2>3, FS_EmptySet
    <3>4. a \in DOMAIN globStats =>
            globStats[a].count = Cardinality(SitesBefore(section, a))
      BY <1>1 DEF CountInv
    <3>5. CASE a \notin DOMAIN stats
      <4>1. a \in DOMAIN globStats /\ globStats'[a] = globStats[a]
        BY <2>1, <2>5, <3>5 DEF Merged
      <4> QED
        BY <2>4, <3>1, <3>3, <3>4, <3>5, <4>1
    <3>6. CASE a \in DOMAIN stats
      <4>1. globStats'[a].count =
              stats[a].count + (IF a \in DOMAIN globStats THEN globStats[a].count ELSE 0)
        BY <2>1, <3>6 DEF Merged
      <4>2. stats[a].count = Cardinality(SitesIn(section, a))
        BY <2>3, <3>6
      <4> QED
        BY <2>4, <3>1, <3>2, <3>4, <4>1, <4>2
    <3> QED
      BY <3>5, <3>6
  <2> QED
    BY <2>1, <2>4, <2>6, <2>7 DEF CountInv
<1>5. CASE Finished
  BY <1>2, <1>5 DEF Finished
<1>6. CASE BeginSection \/ ScanQuadword \/ ScanDone \/ PassMapping \/ NoLoader \/ ShowMapping
             \/ UNCHANGED vars
  <2>1. UNCHANGED <<memory, section, globStats>> /\ (label' = "done" => label = "done")
    BY <1>6 DEF BeginSection, ScanQuadword, ScanDone, PassMapping, NoLoader, ShowMapping,
                Showing, vars
  <2> QED
    BY <1>2, <2>1
<1> QED
  BY <1>3, <1>4, <1>5, <1>6 DEF Next

LEMMA CountingInvariant == Spec => [](Inv /\ Counting)
<1>1. Inv /\ Counting /\ [Next]_vars => Counting'
  <2>1. (Counting <=> ScanInv /\ ShownInv /\ CountInv)'
    BY DEF Counting
  <2> QED
    BY <2>1, ScanInvStep, ShownInvStep, CountInvStep
<1>2. Inv /\ Counting /\ [Next]_vars => Inv' /\ Counting'
  BY <1>1, InvStep
<1>3. Init => Inv /\ Counting
  BY InvInit, CountingInit
<1> QED
  BY <1>2, <1>3, PTL DEF Spec

(***************************************************************************)
(* The statistics of the process count each pointer into code that         *)
(* validateDataPage keeps, once, however many sections and mappings they   *)
(* were merged from: no merge loses a count, and none is added twice.      *)
(***************************************************************************)
THEOREM CountsCorrect == Spec => []PointersCounted
<1>1. Inv /\ Counting => PointersCounted
  <2> SUFFICES ASSUME Inv, Counting, label = "done" PROVE
                 /\ DOMAIN globStats = {a \in Quadwords : CountedSites(a) # {}}
                 /\ \A a \in DOMAIN globStats :
                      globStats[a].count = Cardinality(CountedSites(a))
    BY DEF PointersCounted
  <2>1. CountInv /\ section = Len(VMAs) + 1 /\ Len(VMAs) \in Nat
    BY LenNat DEF Counting, CountInv
  <2>2. \A a : SitesBefore(section, a) = CountedSites(a)
    <3>1. 1..(section - 1) = Sections
      BY <2>1 DEF Sections
    <3> QED
      BY <3>1 DEF SitesBefore, SitesIn, CountedSites
  <2>3. ASSUME NEW a, CountedSites(a) # {} PROVE a \in Quadwords
    <3>0. PICK s \in Sections : \E k \in 1..(Len(memory[s]) - 1) : CountedPtr(s, k, a)
      BY <2>3 DEF CountedSites
    <3>1. PICK k \in 1..(Len(memory[s]) - 1) : CountedPtr(s, k, a)
      BY <3>0
    <3>2. memory[s] \in Seq(Nat) /\ Len(memory[s]) \in Nat
      BY MemoryType DEF Inv
    <3>3. k \in DOMAIN memory[s] /\ memory[s][k] = a
      BY <3>1, <3>2 DEF CountedPtr
    <3> QED
      BY <3>3 DEF Quadwords
  <2> QED
    BY <2>1, <2>2, <2>3 DEF CountInv
<1> QED
  BY <1>1, CountingInvariant, PTL

-----------------------------------------------------------------------------
(* What the walks of helpers.cpp find.                                     *)

LEMMA Smallest ==
  ASSUME NEW T, T \subseteq Nat, T # {}
  PROVE  \E k \in T : \A j \in T : k <= j
<1> DEFINE R == {p \in Nat \X Nat : p[1] < p[2]}
<1>1. IsWellFoundedOn(R, Nat)
  BY NatLessThanWellFounded DEF OpToRel
<1>2. PICK k \in T : \A j \in T : <<j, k>> \notin R
  <2> HIDE DEF R
  <2> QED
    BY <1>1, WFMin
<1>3. \A j \in T : ~(j < k)
  BY <1>2
<1> QED
  BY <1>2, <1>3

LEMMA AtType ==
  ASSUME NEW t \in Seq(Instruction), NEW o
  PROVE  At(t, o).len \in 0..15
<1>1. \A n \in DOMAIN t : t[n] \in Instruction
  OBVIOUS
<1> QED
  BY <1>1 DEF At, Instruction

\* an instruction of the walk from f begins at r and ends at q
Leads(t, r, q) == At(t, r).len > 0 /\ r + At(t, r).len = q

\* w is the function of isIntendedInstruction
IsWalk(t, f, o, w) ==
  w = [q \in f..o |-> q = f \/ \E r \in f..(q - 1) : Leads(t, r, q) /\ w[r]]

\* there is a function that the walk from f to o computes
LEMMA WalkExists ==
  ASSUME NEW t \in Seq(Instruction), NEW f \in Nat, NEW o \in Nat, f < o
  PROVE  \E w : IsWalk(t, f, o, w)
<1> DEFINE Closed(X) == f \in X /\ \A r \in X : \A q \in f..o : Leads(t, r, q) => q \in X
           Reached == {q \in f..o : \A X \in SUBSET (f..o) : Closed(X) => q \in X}
           w == [q \in f..o |-> q \in Reached]
<1>1. f \in Reached
  OBVIOUS
<1>2. \A r : At(t, r).len \in Nat
  BY AtType
<1>3. ASSUME NEW q \in f..o, NEW r \in Reached, Leads(t, r, q) PROVE q \in Reached
  BY <1>3
<1>4. ASSUME NEW q \in Reached, q # f
      PROVE  \E r \in Reached : Leads(t, r, q)
  <2> SUFFICES ASSUME \A r \in Reached : ~Leads(t, r, q) PROVE FALSE
    OBVIOUS
  <2> DEFINE X == Reached \ {q}
  <2>1. X \in SUBSET (f..o) /\ f \in X
    BY <1>1, <1>4
  <2>2. ASSUME NEW r \in X, NEW p \in f..o, Leads(t, r, p) PROVE p \in X
    <3>1. p \in Reached
      BY <1>3, <2>2
    <3> QED
      BY <2>2, <3>1
  <2>3. Closed(X)
    BY <2>1, <2>2
  <2>4. q \in X
    BY <2>1, <2>3
  <2> QED
    BY <2>4
<1>5. \A r \in Reached : r \in f..o
  OBVIOUS
<1> HIDE DEF Reached
<1>a. \A r \in f..o : w[r] <=> r \in Reached
  BY Zenon
<1> HIDE DEF w
<1>6. ASSUME NEW q \in f..o
      PROVE  q \in Reached <=> q = f \/ \E r \in f..(q - 1) : Leads(t, r, q) /\ w[r]
  <2>1. ASSUME q \in Reached, q # f PROVE \E r \in f..(q - 1) : Leads(t, r, q) /\ w[r]
    <3>1. PICK r \in Reached : Leads(t, r, q)
      BY <1>4, <2>1
    <3>2. r \in f..o /\ r < q
      BY <1>2, <1>5, <3>1 DEF Leads
    <3>3. r \in f..(q - 1) /\ w[r]
      BY <1>a, <3>2
    <3> QED
      BY <3>1, <3>3
  <2>2. ASSUME NEW r \in f..(q - 1), Leads(t, r, q), w[r] PROVE q \in Reached
    <3>1. r \in f..o
      OBVIOUS
    <3> QED
      BY <1>3, <1>a, <2>2, <3>1
  <2> QED
    BY <1>1, <2>1, <2>2
<1>7. \A q \in f..o :
        (q \in Reached) = (q = f \/ \E r \in f..(q - 1) : Leads(t, r, q) /\ w[r])
  BY <1>6
<1>8. w = [q \in f..o |-> q = f \/ \E r \in f..(q - 1) : Leads(t, r, q) /\ w[r]]
  <2>1. w = [q \in f..o |-> q \in Reached]
    BY DEF w
  <2> QED
    BY <1>7, <2>1, Zenon
<1>9. IsWalk(t, f, o, w)
  BY <1>8, Zenon DEF IsWalk
<1> QED
  BY <1>9

\* where the walk comes to an offset, the instructions before it lead there
LEMMA WalkedStraight ==
  ASSUME NEW t \in Seq(Instruction), NEW f \in Nat, NEW o \in Nat, NEW w,
         w = [q \in f..o |-> q = f \/ \E r \in f..(q - 1) : Leads(t, r, q) /\ w[r]],
         NEW q \in f..o, w[q]
  PROVE  Straight(t, f, q)
<1> DEFINE T == {p \in f..o : w[p] /\ ~Straight(t, f, p)}
<1> SUFFICES ASSUME T # {} PROVE FALSE
  OBVIOUS
<1>1. T \subseteq Nat
  OBVIOUS
<1>2. PICK p \in T : \A n \in T : p <= n
  <2> HIDE DEF T
  <2> QED
    BY <1>1, Smallest
<1>3. p \in f..o /\ w[p] /\ ~Straight(t, f, p)
  BY <1>2
<1>4. CASE p = f
  <2>1. {f} \in SUBSET (f..f) /\ {f, f} \subseteq {f} /\ {f} \ {f} = {}
    OBVIOUS
  <2> QED
    BY <1>3, <1>4, <2>1 DEF Straight
<1>5. CASE p # f
  <2>1. PICK r \in f..(p - 1) : Leads(t, r, p) /\ w[r]
    BY <1>3, <1>5
  <2>2. r \in f..o /\ r < p /\ r \in Nat /\ p \in Nat
    BY <1>3
  <2>3. Straight(t, f, r)
    <3>1. r \notin T
      <4> HIDE DEF T
      <4> QED
        BY <1>2, <2>2
    <3> QED
      BY <2>1, <2>2, <3>1
  <2>4. PICK path \in SUBSET (f..r) :
          /\ {f, r} \subseteq path
          /\ \A n \in path \ {r} : At(t, n).len > 0 /\ n + At(t, n).len \in path
    BY <2>3 DEF Straight
  <2> DEFINE longer == path \cup {p}
  <2>5. longer \in SUBSET (f..p) /\ {f, p} \subseteq longer
    BY <2>2, <2>4
  <2>6. \A n \in longer \ {p} : At(t, n).len > 0 /\ n + At(t, n).len \in longer
    BY <2>1, <2>4 DEF Leads
  <2> QED
    BY <1>3, <2>5, <2>6 DEF Straight
<1> QED
  BY <1>4, <1>5

LEMMA IntendedStraight ==
  ASSUME NEW t \in Seq(Instruction), NEW f \in Nat, NEW o \in Nat,
         isIntendedInstruction(t, f, o)
  PROVE  Straight(t, f, o)
<1> DEFINE walked == CHOOSE w : w = [q \in f..o |->
                       q = f \/ \E r \in f..(q - 1) : Leads(t, r, q) /\ w[r]]
<1>1. f < o /\ walked[o]
  BY DEF isIntendedInstruction, Leads
<1>2. walked = [q \in f..o |-> q = f \/ \E r \in f..(q - 1) : Leads(t, r, q) /\ walked[r]]
  <2>1. \E w : IsWalk(t, f, o, w)
    <3>1. f < o
      BY <1>1
    <3> HIDE DEF walked
    <3> QED
      BY <3>1, WalkExists
  <2>2. walked = CHOOSE w : IsWalk(t, f, o, w)
    BY Zenon DEF IsWalk
  <2> HIDE DEF walked
  <2>3. IsWalk(t, f, o, walked)
    BY <2>1, <2>2
  <2> QED
    BY <2>3 DEF IsWalk
<1> HIDE DEF walked
<1>3. o \in f..o
  BY <1>1
<1> QED
  BY <1>1, <1>2, <1>3, WalkedStraight

LEMMA SymbolType ==
  ASSUME NEW a \in Nat
  PROVE  getContainingSymbol(a) \in Nat
<1>1. CASE ~\E s \in Symbols : s <= a
  BY <1>1 DEF getContainingSymbol
<1>2. CASE \E s \in Symbols : s <= a
  <2> DEFINE T == {a - s : s \in {s \in Symbols : s <= a}}
  <2>1. Symbols \subseteq Nat
    BY PtrClassAssumption
  <2>2. T \subseteq Nat /\ T # {}
    BY <1>2, <2>1
  <2>3. PICK d \in T : \A e \in T : d <= e
    <3> HIDE DEF T
    <3> QED
      BY <2>2, Smallest
  <2>4. PICK s \in Symbols : s <= a /\ d = a - s
    BY <2>3
  <2>5. \A r \in Symbols : r <= a => r <= s
    <3> SUFFICES ASSUME NEW r \in Symbols, r <= a PROVE r <= s
      OBVIOUS
    <3>1. d <= a - r
      BY <2>3
    <3> QED
      BY <2>1, <2>4, <3>1
  <2> QED
    BY <1>2, <2>1, <2>4, <2>5 DEF getContainingSymbol
<1> QED
  BY <1>1, <1>2

\* what is not unknown is explained
LEMMA FlagsExplain ==
  ASSUME NEW m \in Sections, VMAs[m].exec, VMAs[m].name \in DOMAIN Libraries,
         NEW a \in (VMAs[m].start + 1)..VMAs[m].end,
         "UNKNOWN" \notin PtrFlags(m, a)
  PROVE  LET lib == Libraries[VMAs[m].name]
             o == a - VMAs[m].start
             f == getContainingSymbol(a)
         IN /\ SectionsAt(lib, o) # {}
            /\ \A k \in SectionsAt(lib, o) : lib.sections[k].kind = "code"
            => \/ a \in Symbols \/ o = lib.entry
               \/ \E k \in SectionsAt(lib, o) : lib.sections[k].offset = o
               \/ /\ BehindCall(lib.text, o)
                  /\ a - f > Far \/ Straight(lib.text, f - VMAs[m].start, o)
<1> DEFINE lib == Libraries[VMAs[m].name]
           o == a - VMAs[m].start
           f == getContainingSymbol(a)
           toSec == findSectionByOffset(lib, o)
<1> SUFFICES ASSUME SectionsAt(lib, o) # {},
                    \A k \in SectionsAt(lib, o) : lib.sections[k].kind = "code",
                    a \notin Symbols, o # lib.entry,
                    \A k \in SectionsAt(lib, o) : lib.sections[k].offset # o
             PROVE  /\ BehindCall(lib.text, o)
                    /\ a - f > Far \/ Straight(lib.text, f - VMAs[m].start, o)
  OBVIOUS
<1>1. VMAs[m].start \in Nat /\ VMAs[m].end \in Nat /\ a \in Nat /\ o \in Nat \ {0}
  BY Bounds
<1>2. IsLibrary(lib)
  BY PtrClassAssumption
<1>3. lib.sections \in Seq(ElfSection) /\ lib.text \in Seq(Instruction)
  BY <1>2 DEF IsLibrary
<1>4. \E k \in SectionsAt(lib, o) : toSec = lib.sections[k]
  <2>1. SectionsAt(lib, o) \subseteq Nat
    BY <1>3 DEF SectionsAt
  <2>2. \E k \in SectionsAt(lib, o) : \A j \in SectionsAt(lib, o) : k <= j
    BY <2>1, Smallest
  <2> QED
    BY <2>2 DEF findSectionByOffset
<1>5. toSec.kind = "code" /\ toSec.offset # o
  BY <1>4
<1>6. "UNKNOWN" \notin CodeFlags(lib, m, a)
  <2> HIDE DEF toSec, lib
  <2>1. PtrFlags(m, a) = Flag(a < PieBase, "NOT_7f") \cup CodeFlags(lib, m, a)
    BY <1>5 DEF PtrFlags, toSec, lib
  <2> QED
    BY <2>1
<1> HIDE DEF lib
<1>7. /\ isReturnAddress(lib.text, o)
      /\ a - f > Far \/ isIntendedInstruction(lib.text, f - VMAs[m].start, o)
  BY <1>6 DEF CodeFlags
<1>8. BehindCall(lib.text, o)
  <2>1. PICK n \in 2..7 : At(lib.text, o - n) = [len |-> n, op |-> "call"]
    BY <1>7 DEF isReturnAddress
  <2>2. At(lib.text, o - n).len = n /\ At(lib.text, o - n).op = "call"
    BY <2>1
  <2>3. (o - n) + 1 \in DOMAIN lib.text
    BY <2>2 DEF At
  <2>4. (o - n) + 1 \in Nat \ {0}
    BY <1>3, <2>3
  <2>5. o - n \in 0..(o - 1) /\ (o - n) + n = o
    BY <1>1, <2>4
  <2> QED
    BY <2>2, <2>5 DEF BehindCall
<1>9. ASSUME ~(a - f > Far) PROVE Straight(lib.text, f - VMAs[m].start, o)
  <2>1. f \in Nat
    BY <1>1, SymbolType
  <2>2. f >= VMAs[m].start
    BY <1>9, SymbolAssumption
  <2>3. f - VMAs[m].start \in Nat
    BY <1>1, <2>1, <2>2
  <2>4. isIntendedInstruction(lib.text, f - VMAs[m].start, o)
    BY <1>7, <1>9
  <2> QED
    BY <1>1, <1>3, <2>3, <2>4, IntendedStraight
<1> QED
  BY <1>8, <1>9

(***************************************************************************)
(* No pointer into code passes as known but a named one, an entry, the     *)
(* beginning of a section or one behind a call that, near a symbol, lies on*)
(* an instruction that execution from the symbol comes to: the flags are   *)
(* those of the one mapping that the pointer lies in.                      *)
(***************************************************************************)
THEOREM UnknownsCorrect == Spec => []UnknownUnlessExplained
<1>1. Inv => UnknownUnlessExplained
  <2> SUFFICES ASSUME Sound(globStats), NEW a \in DOMAIN globStats, NEW m \in Sections,
                      VMAs[m].exec, InMapping(a, m), "UNKNOWN" \notin globStats[a].flags
               PROVE  LET lib == Libraries[VMAs[m].name]
                          o == a - VMAs[m].start
                          f == getContainingSymbol(a)
                      IN /\ SectionsAt(lib, o) # {}
                         /\ \A k \in SectionsAt(lib, o) : lib.sections[k].kind = "code"
                         => \/ a \in Symbols \/ o = lib.entry
                            \/ \E k \in SectionsAt(lib, o) : lib.sections[k].offset = o
                            \/ /\ BehindCall(lib.text, o)
                               /\ \/ a - f > Far
                                  \/ Straight(lib.text, f - VMAs[m].start, o)
    BY DEF Inv, UnknownUnlessExplained
  <2>1. PICK n \in Sections : /\ VMAs[n].name \in DOMAIN Libraries
                              /\ a \in (VMAs[n].start + 1)..VMAs[n].end
                              /\ globStats[a].flags = PtrFlags(n, a)
    BY DEF Sound
  <2>2. a \in (VMAs[m].start + 1)..VMAs[m].end
    BY <2>1, Bounds DEF InMapping
  <2>3. m = n
    BY <2>1, <2>2, OneMapping
  <2> QED
    BY <2>1, <2>2, <2>3, FlagsExplain
<1> QED
  BY <1>1, InvInit, InvStep, PTL DEF Spec
=============================================================================
