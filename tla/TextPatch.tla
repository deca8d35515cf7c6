----------------------------- MODULE TextPatch -----------------------------
(***************************************************************************)
(* ElfKernelLoader::initText and ElfModuleLoader::initText: the text of an *)
(* ELF file is patched the way the guest's kernel has patched it when it   *)
(* booted or loaded the module, so that it can be compared with the guest's*)
(* memory.  Alternatives, paravirt calls and lock prefixes are patched in  *)
(* the contents of the file, calls of mcount and jump labels in the copy   *)
(* that the pages are compared with.  The guest runs on meanwhile: the     *)
(* counters of the static keys are read while it changes them.             *)
(*                                                                         *)
(* A position is an offset from the beginning of .text, in the file, in the*)
(* copy and in the guest's memory; the byte at offset k is the (k+1)-th of *)
(* a sequence.                                                             *)
(***************************************************************************)
EXTENDS Integers, Sequences

CONSTANTS
  NopMax,       \* ASM_NOP_MAX
  PageSize,     \* what the copy is filled up to: 0x200000, of a module 0x1000
  Keys,         \* static keys
  AnyClobbers,  \* CLBR_ANY, as a set of registers
  Insns,        \* the instructions of the DEF_NATIVE templates
  Files         \* the ELF files that may be loaded, see FileAssumption

(***************************************************************************)
(* A byte is an opcode or a prefix, or the k-th byte of something longer.  *)
(***************************************************************************)
Byte ==
  [op : {"e8", "e9", "3e", "f0", "zero"}]
    \cup [op : {"code"}, k : Nat]                           \* anything else
    \cup [op : {"nop"}, length : 1..NopMax, k : 1..NopMax]  \* ideal_nops
    \cup [op : {"atomic"}, k : 1..5]        \* ideal_nops[9], in the guest only
    \cup [op : {"disp"}, value : Int, k : 1..4]             \* an operand

Op(name) == [op |-> name]

\* a call (e8) or a jmp (e9), relative to the instruction behind it
Jump(opcode, delta) ==
  <<Op(opcode)>> \o [k \in 1..4 |-> [op |-> "disp", value |-> delta, k |-> k]]

\* the sites that paravirtNativePatch has instructions for ...
NativeSites ==
  {"restore_fl", "save_fl", "irq_enable", "irq_disable", "irq_enable_sysexit",
   "usergs_sysret32", "usergs_sysret64", "swapgs", "read_cr2", "read_cr3",
   "write_cr3", "clts", "flush_tlb_single", "wbinvd"}

\* ... and those that paravirt_patch_default jumps from
JumpSites == {"iret", "irq_enable_sysexit", "usergs_sysret32", "usergs_sysret64"}

\* the places of a file that are patched, and by which entry of which table
SitesOf(f) ==
  {[at |-> f.alternatives[n].at, len |-> f.alternatives[n].len,
    by |-> <<"alternatives", n>>] : n \in DOMAIN f.alternatives}
  \cup {[at |-> f.patchSites[n].at, len |-> f.patchSites[n].len,
         by |-> <<"patchSites", n>>] : n \in DOMAIN f.patchSites}
  \cup {[at |-> f.locks[n], len |-> 1, by |-> <<"locks", n>>] : n \in DOMAIN f.locks}
  \cup {[at |-> f.mcounts[n], len |-> 5, by |-> <<"mcounts", n>>] :
          n \in DOMAIN f.mcounts}
  \cup {[at |-> e.code, len |-> 5, by |-> <<"jumpTable", e>>] : e \in f.jumpTable}

Place(s) == (s.at + 1)..(s.at + s.len)

(***************************************************************************)
(* What the loader finds in a file, and in the guest about it.  A          *)
(* replacement is not longer than what it replaces (kernel_headers.h:62).  *)
(***************************************************************************)
ASSUME FileAssumption ==
  /\ NopMax \in Nat \ 0..4
  /\ PageSize \in Nat \ {0}
  /\ DOMAIN Insns = NativeSites \cup {"mov32", "mov64"}
  /\ \A t \in DOMAIN Insns : Insns[t] \in Seq(Byte)
  /\ \A f \in Files :
       /\ f.isKernel \in BOOLEAN
       /\ f.size \in Nat                      \* textSegment.size
       /\ f.text \in Seq(Byte)                \* .text and the byte behind it
       /\ Len(f.text) = f.size + 1
       /\ f.tail \in Seq(Byte)                \* what the copy has behind .text
       /\ {f.index, f.memindex} \subseteq Nat \* textSegment ...
       /\ {f.replIndex, f.replMemindex, f.replSize} \subseteq Nat
                                              \* ... and .altinstr_replacement
       /\ f.alternatives \in Seq([at : Nat, len : Nat, feature : STRING,
                                  repl : Seq(Byte), pointer : Nat])
       /\ \A n \in DOMAIN f.alternatives :
            LET a == f.alternatives[n]
            IN /\ Len(a.repl) <= a.len
               /\ Len(a.repl) = 5 /\ a.repl[1] = Op("e8") => a.repl[2].op = "disp"
       /\ f.features \subseteq STRING         \* x86_capability
       /\ f.patchSites \in Seq([at : Nat, len : 0..254, type : STRING,
                                clobbers : SUBSET AnyClobbers])
       /\ \A n \in DOMAIN f.patchSites :      \* in .text, or in .init.text behind it
            \/ f.patchSites[n].at + f.patchSites[n].len <= f.size
            \/ f.patchSites[n].at > f.size
       /\ \A n \in DOMAIN f.patchSites :      \* the guest's pv_*_ops
            f.patchSites[n].type \in DOMAIN f.ops =>
              f.ops[f.patchSites[n].type] \in
                [is : {"null", "nop", "ident32", "ident64", "function"},
                 address : Nat]
       /\ f.locks \in Seq(Int)
       /\ f.mcounts \in Seq(Nat)
       /\ f.jumpTable \subseteq [code : Nat, target : Nat, key : Keys]
       /\ f.guestTable \in Seq([code : Nat, target : Nat, key : Keys])

VARIABLES
  file,         \* the file and the guest that are loaded
  stage,        \* the function that initText is in
  next,         \* the entry that the function's loop has come to
  elf,          \* .text in the contents of the file
  copy,         \* textSegmentContent
  smpOffsets,
  jumpEntries,
  jumpDestinations,
  enabled       \* the static keys that the guest has enabled

vars == <<file, stage, next, elf, copy, smpOffsets, jumpEntries,
          jumpDestinations, enabled>>

Init ==
  /\ file \in Files
  /\ stage = "altinstr"
  /\ next = 1
  /\ elf = file.text
  /\ copy = <<>>
  /\ smpOffsets = {}
  /\ jumpEntries = <<>>
  /\ jumpDestinations = {}
  /\ enabled \in SUBSET Keys

-----------------------------------------------------------------------------
(* ParavirtPatcher.  patch_* return how much of the buffer they have used, *)
(* here the bytes themselves: the rest is filled with nops.                *)

\* add_nops: as many of the longest nop as fit, and one that fills the rest
Nops(len) ==
  [k \in 1..len |->
     LET before == ((k - 1) \div NopMax) * NopMax
     IN [op     |-> "nop",
         length |-> IF len - before > NopMax THEN NopMax ELSE len - before,
         k      |-> k - before]]

\* copied although they do not fit
PatchInsnsAlways(site, insns) == insns

\* what does not fit is not patched
PatchInsns(site, insns) == IF Len(insns) > Len(site) THEN site ELSE insns

PatchJmp(site, target, addr) ==
  IF Len(site) < 5 THEN site ELSE Jump("e9", target - (addr + 5))

PatchCall(site, target, addr, siteClobbers) ==
  IF Len(site) < 5 \/ ~(AnyClobbers \subseteq siteClobbers)
  THEN site
  ELSE Jump("e8", target - (addr + 5))

\* get_call_destination: the structs of the guest that were found, in a row
CallDestination(type) ==
  IF type \in DOMAIN file.ops THEN file.ops[type] ELSE [is |-> "null", address |-> 0]

ParavirtPatchDefault(type, clobbers, site, addr) ==
  LET opfunc == CallDestination(type)
  IN CASE opfunc.is \in {"null", "nop"} -> <<>>
       [] opfunc.is = "ident32" -> PatchInsns(site, Insns["mov32"])
       [] opfunc.is = "ident64" -> PatchInsns(site, Insns["mov64"])
       [] opfunc.is = "function" /\ type \in JumpSites ->
            PatchJmp(site, opfunc.address, addr)
       [] opfunc.is = "function" /\ type \notin JumpSites ->
            PatchCall(site, opfunc.address, addr, clobbers)

ParavirtNativePatch(type, clobbers, site, addr) ==
  IF type \in NativeSites
  THEN PatchInsns(site, Insns[type])
  ELSE ParavirtPatchDefault(type, clobbers, site, addr)

-----------------------------------------------------------------------------
(* The loops of initText, one entry at a time.                             *)

\* the bytes, from offset at; what is behind .text in the file is not kept here
Write(text, at, bytes) ==
  [k \in DOMAIN text |-> IF k - at \in DOMAIN bytes THEN bytes[k - at] ELSE text[k]]

Entries ==
  CASE stage = "altinstr"  -> file.alternatives
    [] stage = "parainstr" -> file.patchSites
    [] stage = "smplocks"  -> file.locks
    [] stage = "mcount"    -> file.mcounts
    [] stage = "jumps"     -> file.guestTable
    [] OTHER               -> <<>>

\* the next entry of the loop of a stage
Entry(s) == stage = s /\ next <= Len(Entries) /\ next' = next + 1

(***************************************************************************)
(* A replacement that is a call has an operand for the place where the     *)
(* replacement is, in the file and, if it is in .altinstr_replacement, in  *)
(* memory.  (The code's instr is a pointer into the file; that it finds the*)
(* site by the file offset of .text is taken for granted.)                 *)
(***************************************************************************)
\* the operand corrected by the distance in the file alone
MovedOperandInFile(a) ==
  a.repl[2].value + (a.pointer - (file.index + a.at))

MovedOperand(a) ==
  LET inSection == a.pointer >= file.replIndex
                     /\ a.pointer < file.replIndex + file.replSize
  IN a.repl[2].value
       - (IF inSection
          THEN (file.replIndex - file.index) - (file.replMemindex - file.memindex)
          ELSE 0)
       + (a.pointer - (file.index + a.at))

ApplyAltinstr ==
  /\ Entry("altinstr")
  /\ LET a == file.alternatives[next]
         isCall == Len(a.repl) = 5 /\ a.repl[1] = Op("e8")
         insnbuf == IF isCall THEN Jump("e8", MovedOperand(a)) ELSE a.repl
     IN elf' = IF a.feature \in file.features
               THEN Write(elf, a.at, insnbuf \o Nops(a.len - Len(a.repl)))
               ELSE elf
  /\ UNCHANGED <<file, stage, copy, smpOffsets, jumpEntries, jumpDestinations,
                 enabled>>

ApplyParainstr ==
  /\ Entry("parainstr")
  /\ LET p == file.patchSites[next]
         site == SubSeq(elf, p.at + 1, p.at + p.len)
         used == ParavirtNativePatch(p.type, p.clobbers, site, file.memindex + p.at)
     IN elf' = Write(elf, p.at, used \o Nops(p.len - Len(used)))
  /\ UNCHANGED <<file, stage, copy, smpOffsets, jumpEntries, jumpDestinations,
                 enabled>>

\* the end of .text counts as .text (containsElfAddress)
ApplySmpLocks ==
  /\ Entry("smplocks")
  /\ LET offset == file.locks[next]
         lock == IF "up" \notin file.features THEN "3e" ELSE "f0"
     IN IF offset \in 0..file.size
        THEN /\ elf' = Write(elf, offset, <<Op(lock)>>)
             /\ smpOffsets' = smpOffsets \cup {offset}
        ELSE UNCHANGED <<elf, smpOffsets>>
  /\ UNCHANGED <<file, stage, copy, jumpEntries, jumpDestinations, enabled>>

\* filled up as if .text were all there is
FilledBehindText(text) ==
  text \o [k \in 1..(PageSize - (file.size % PageSize)) |-> Op("zero")]

Filled(text) ==
  text \o [k \in 1..(PageSize - (Len(text) % PageSize)) |-> Op("zero")]

\* .text, then .notes and __ex_table where the file has them, or the other
\* executable sections of a module, whose last page is filled at once
CopyText ==
  /\ stage = "copy"
  /\ LET text == SubSeq(elf, 1, file.size) \o file.tail
     IN copy' = IF file.isKernel THEN text ELSE Filled(text)
  /\ stage' = "mcount"
  /\ next' = 1
  /\ UNCHANGED <<file, elf, smpOffsets, jumpEntries, jumpDestinations, enabled>>

\* five bytes at an offset of the copy
HasRoom(at) == at + 5 <= Len(copy)

ApplyMcount ==
  /\ Entry("mcount")
  /\ HasRoom(file.mcounts[next])
  /\ copy' = Write(copy, file.mcounts[next], Nops(5))
  /\ UNCHANGED <<file, stage, elf, smpOffsets, jumpEntries, jumpDestinations,
                 enabled>>

(***************************************************************************)
(* An entry of the guest's table; those behind .text, of .init.text, are   *)
(* skipped.  The counter of its key is read from the running guest.  The   *)
(* maps were empty when the loop began: initText runs once for a loader.   *)
(***************************************************************************)
\* only the labels that are enabled when they are loaded are kept
NewEntriesOfEnabled(entry) ==
  IF entry.key \in enabled THEN {e \in file.jumpTable : e.code = entry.code} ELSE {}

NewEntries(entry) == {e \in file.jumpTable : e.code = entry.code}

FoundEntries(entry) == IF entry.code > file.size THEN {} ELSE NewEntries(entry)

ApplyJumpEntry ==
  /\ Entry("jumps")
  /\ LET entry == file.guestTable[next]
         found == FoundEntries(entry)
         destination(e) == e.target - (e.code + 5)
         codes == {e.code : e \in found}
     IN /\ found = {} \/ HasRoom(entry.code)
        /\ copy' = IF found = {} THEN copy
                   ELSE LET e == CHOOSE e \in found : TRUE
                        IN Write(copy, e.code, IF entry.key \in enabled
                                               THEN Jump("e9", destination(e))
                                               ELSE Nops(5))
        /\ jumpEntries' =
             [c \in DOMAIN jumpEntries \cup codes |->
                IF c \in DOMAIN jumpEntries THEN jumpEntries[c]
                ELSE destination(CHOOSE e \in found : e.code = c)]
        /\ jumpDestinations' = jumpDestinations \cup {e.target : e \in found}
  /\ UNCHANGED <<file, stage, elf, smpOffsets, enabled>>

\* A call of mcount or a label is patched wherever it is.  If that is behind
\* the copy, what the loader has then, and whether it goes on, is undefined.
PatchBehindCopy ==
  /\ next <= Len(Entries)
  /\ \/ stage = "mcount" /\ ~HasRoom(file.mcounts[next])
     \/ /\ stage = "jumps"
        /\ FoundEntries(file.guestTable[next]) # {}
        /\ ~HasRoom(file.guestTable[next].code)
  /\ stage' = "undefined"
  /\ next' = 1
  /\ UNCHANGED <<file, elf, copy, smpOffsets, jumpEntries, jumpDestinations,
                 enabled>>

Fill ==
  /\ stage = "fill"
  /\ copy' = Filled(copy)
  /\ stage' = "done"
  /\ UNCHANGED <<file, next, elf, smpOffsets, jumpEntries, jumpDestinations,
                 enabled>>

\* a loop ends; jump labels are patched in the kernel only (elfkernelspaceloader.cpp:204)
LoopEnds ==
  /\ stage \in {"altinstr", "parainstr", "smplocks", "mcount", "jumps"}
  /\ next > Len(Entries)
  /\ stage' = CASE stage = "altinstr" -> "parainstr"
                [] stage = "parainstr" -> "smplocks"
                [] stage = "smplocks" -> "copy"
                [] stage = "mcount" -> IF file.isKernel THEN "jumps" ELSE "done"
                [] stage = "jumps" -> "fill"
  /\ next' = 1
  /\ UNCHANGED <<file, elf, copy, smpOffsets, jumpEntries, jumpDestinations,
                 enabled>>

InitText ==
  \/ ApplyAltinstr \/ ApplyParainstr \/ ApplySmpLocks \/ CopyText
  \/ ApplyMcount \/ ApplyJumpEntry \/ PatchBehindCopy \/ Fill \/ LoopEnds

\* the guest enables or disables a static key
GuestTogglesKey ==
  /\ \E k \in Keys : enabled' = IF k \in enabled THEN enabled \ {k} ELSE enabled \cup {k}
  /\ UNCHANGED <<file, stage, next, elf, copy, smpOffsets, jumpEntries,
                 jumpDestinations>>

Next == InitText \/ GuestTogglesKey

Spec == Init /\ [][Next]_vars

-----------------------------------------------------------------------------
(***************************************************************************)
(* The text of an unmodified guest.  Its kernel patches at the addresses   *)
(* that the text has in memory, where the loader has only the file.        *)
(***************************************************************************)
\* content has these bytes at an offset
HasAt(content, at, bytes) ==
  \A k \in DOMAIN bytes : at + k \in DOMAIN content /\ content[at + k] = bytes[k]

AtomicNop == [k \in 1..5 |-> [op |-> "atomic", k |-> k]]

\* .text and what follows it, unpatched
Image(f) == SubSeq(f.text, 1, f.size) \o f.tail

Unpatched(f, s) == SubSeq(Image(f), s.at + 1, s.at + s.len)

\* A replacement is in .altinstr_replacement or in .text.  A call in it has the
\* same target from its new place.
GuestReplacement(f, a) ==
  LET repl == IF a.pointer >= f.replIndex /\ a.pointer < f.replIndex + f.replSize
              THEN f.replMemindex + (a.pointer - f.replIndex)
              ELSE f.memindex + (a.pointer - f.index)
      target == repl + 5 + a.repl[2].value
  IN IF Len(a.repl) = 5 /\ a.repl[1] = Op("e8")
     THEN Jump("e8", target - (f.memindex + a.at + 5))
     ELSE a.repl

\* A paravirt call stays if what should be in its place does not fit there, or
\* if it does not let the function use the registers that it wants.
GuestCall(f, p, unpatched) ==
  LET op == IF p.type \in DOMAIN f.ops THEN f.ops[p.type].is ELSE "null"
      delta == f.ops[p.type].address - (f.memindex + p.at + 5)
      insns == CASE p.type \in NativeSites -> Insns[p.type]
                 [] p.type \notin NativeSites /\ op \in {"null", "nop"} -> <<>>
                 [] p.type \notin NativeSites /\ op = "ident32" -> Insns["mov32"]
                 [] p.type \notin NativeSites /\ op = "ident64" -> Insns["mov64"]
                 [] p.type \notin NativeSites /\ op = "function" ->
                      Jump(IF p.type \in JumpSites THEN "e9" ELSE "e8", delta)
      isCall == p.type \notin NativeSites \cup JumpSites /\ op = "function"
  IN IF Len(insns) > p.len \/ (isCall /\ ~(AnyClobbers \subseteq p.clobbers))
     THEN unpatched
     ELSE insns

Padded(insns, len) == insns \o Nops(len - Len(insns))

\* The labels that the loader can know: modules' are not patched.
IsPatchedLabel(f, e) ==
  f.isKernel /\ \E m \in DOMAIN f.guestTable : f.guestTable[m].code = e.code

\* what the guest may have at a site
GuestForms(f, s) ==
  LET entry == s.by[2]
  IN CASE s.by[1] = "alternatives" ->
            LET a == f.alternatives[entry]
            IN {IF a.feature \in f.features
                THEN Padded(GuestReplacement(f, a), a.len) ELSE Unpatched(f, s)}
       [] s.by[1] = "patchSites" ->
            {Padded(GuestCall(f, f.patchSites[entry], Unpatched(f, s)), s.len)}
       [] s.by[1] = "locks" -> {<<Op("3e")>>, <<Op("f0")>>}
       [] s.by[1] = "mcounts" -> {Nops(5), AtomicNop}
       [] s.by[1] = "jumpTable" ->
            IF IsPatchedLabel(f, entry)
            THEN {Nops(5), AtomicNop, Jump("e9", entry.target - (entry.code + 5))}
            ELSE {Unpatched(f, s)}

\* in .text, but for calls of mcount, which the sections behind it have too
IsInside(f, s) ==
  /\ s.at >= 0
  /\ s.at + s.len <= (IF s.by[1] = "mcounts" THEN Len(Image(f)) ELSE f.size)

\* No two sites overlap, and those of .init.text are somewhere else in memory.
ASSUME GuestAssumption ==
  \A f \in Files :
    /\ \A s, t \in SitesOf(f) : s # t => Place(s) \cap Place(t) = {}
    /\ DOMAIN f.mem = 1..Len(Image(f))
    /\ \A s \in SitesOf(f) :
         \/ Place(s) \cap DOMAIN f.mem = {}
         \/ IsInside(f, s) /\ \E form \in GuestForms(f, s) : HasAt(f.mem, s.at, form)
    /\ \A k \in DOMAIN f.mem :
         (\A s \in SitesOf(f) : k \notin Place(s)) => f.mem[k] = Image(f)[k]

-----------------------------------------------------------------------------
(* Properties.                                                             *)

\* The loops run in their order, over text that keeps its length; the copy is
\* whole pages when initText is done, and the maps that validateCodePage uses
\* know sites of the file only.
TypeOK ==
  /\ stage \in {"altinstr", "parainstr", "smplocks", "copy", "mcount", "jumps",
                "fill", "done", "undefined"}
  /\ next \in 1..(Len(Entries) + 1)
  /\ elf \in Seq(Byte) /\ Len(elf) = file.size + 1
  /\ copy \in Seq(Byte)
  /\ stage = "done" => Len(copy) % PageSize = 0 /\ Len(copy) > file.size
  /\ smpOffsets \subseteq {file.locks[n] : n \in DOMAIN file.locks}
  /\ DOMAIN jumpEntries \subseteq {e.code : e \in file.jumpTable}
  /\ jumpDestinations \subseteq {e.target : e \in file.jumpTable}
  /\ enabled \subseteq Keys

LabelForms(at) == {Nops(5), AtomicNop, Jump("e9", jumpEntries[at])}

\* What the scan of a page can explain (validateCodePage): a lock prefix or a
\* jump label that the loader has recorded, in either state and with the right
\* destination, or a nop that the guest has written atomically.
Explained(k) ==
  \/ k - 1 \in smpOffsets /\ {copy[k], file.mem[k]} = {Op("3e"), Op("f0")}
  \/ \E at \in DOMAIN jumpEntries :
       /\ k \in (at + 1)..(at + 5)
       /\ \E form \in LabelForms(at) : HasAt(file.mem, at, form)
       /\ \E form \in LabelForms(at) : HasAt(copy, at, form)
  \/ \E at \in (k - 5)..(k - 1) :
       HasAt(copy, at, Nops(5)) /\ HasAt(file.mem, at, AtomicNop)

\* The text of an unmodified guest differs from what initText has built only
\* where the page scan can explain it: every alternative, paravirt call, lock
\* prefix, mcount call and jump label is patched, padded and relocated as the
\* guest's kernel has done it, whatever keys the guest toggles while it loads.
LoadedTextExplained ==
  stage = "done" =>
    \A k \in DOMAIN file.mem :
      k \in DOMAIN copy /\ (copy[k] = file.mem[k] \/ Explained(k))

Altered(text, newText) ==
  {k \in DOMAIN text \cap DOMAIN newText : text[k] # newText[k]}

\* A step of a loop changes no byte outside of one patch site of the file: the
\* padding with nops ends where the replaced instruction ends.
PatchStaysInSite ==
  [][LET altered == Altered(elf, elf') \cup Altered(copy, copy')
     IN \/ altered = {}
        \/ \E s \in SitesOf(file) : altered \subseteq Place(s)]_vars
=============================================================================
