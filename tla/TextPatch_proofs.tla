-------------------------- MODULE TextPatch_proofs --------------------------
(***************************************************************************)
(* How the text that a loader has read from a file is made.  First where   *)
(* patching writes, for every ELF file, every nop and page size and every  *)
(* instruction template: a step changes one patch site at most, and the    *)
(* text keeps its length until it is copied and filled up.  Then what is   *)
(* built: at each site that is done, what the guest may have there.  Then  *)
(* what relocation writes, for every file, owner and number of rounds.     *)
(***************************************************************************)
EXTENDS TextPatch, Relocation, SequenceTheorems, WellFoundedInduction, TLAPS

-----------------------------------------------------------------------------
(* Arithmetic.                                                             *)

LEMMA DivBounds ==
  ASSUME NEW n \in Nat, NEW d \in Nat \ {0}
  PROVE  /\ n \div d \in Nat
         /\ (n \div d) * d \in Nat
         /\ (n \div d) * d <= n
         /\ n < (n \div d) * d + d
  OBVIOUS

LEMMA MultipleDivides ==
  ASSUME NEW m \in Nat, NEW d \in Nat \ {0}
  PROVE  (d * m) % d = 0
  OBVIOUS

LEMMA FillsPage ==
  ASSUME NEW n \in Nat, NEW d \in Nat \ {0}
  PROVE  /\ d - (n % d) \in 1..d
         /\ (n + (d - (n % d))) % d = 0
<1> DEFINE q == n \div d
<1>1. q \in Nat /\ n % d \in 0..(d - 1) /\ n = d * q + (n % d)
  OBVIOUS
<1>2. d * q + d = d * (q + 1)
  BY <1>1
<1>3. n + (d - (n % d)) = d * (q + 1)
  BY <1>1, <1>2
<1>4. (d * (q + 1)) % d = 0
  BY <1>1, MultipleDivides
<1> QED
  BY <1>1, <1>3, <1>4
-----------------------------------------------------------------------------
(* Bytes: what a patch is made of, and how long it is.                     *)

LEMMA NopsType ==
  ASSUME NEW len \in Int
  PROVE  /\ Nops(len) \in Seq(Byte)
         /\ Len(Nops(len)) = IF len >= 0 THEN len ELSE 0
<1>1. ASSUME NEW k \in 1..len PROVE Nops(len)[k] \in Byte
  <2> DEFINE before == ((k - 1) \div NopMax) * NopMax
  <2>1. NopMax \in Nat \ {0} /\ k - 1 \in Nat
    BY FileAssumption
  <2>2. before \in Nat /\ before <= k - 1 /\ k - 1 < before + NopMax
    BY <2>1, DivBounds
  <2>3. Nops(len)[k] = [op |-> "nop",
                        length |-> IF len - before > NopMax THEN NopMax ELSE len - before,
                        k |-> k - before]
    BY DEF Nops
  <2> HIDE DEF before
  <2>4. k - before \in 1..NopMax
    BY <2>1, <2>2
  <2>5. (IF len - before > NopMax THEN NopMax ELSE len - before) \in 1..NopMax
    BY <2>1, <2>2
  <2>6. Nops(len)[k] \in [op : {"nop"}, length : 1..NopMax, k : 1..NopMax]
    BY <2>3, <2>4, <2>5
  <2> QED
    BY <2>6 DEF Byte
<1> DEFINE n == IF len >= 0 THEN len ELSE 0
<1>2. n \in Nat /\ 1..len = 1..n
  OBVIOUS
<1>3. DOMAIN Nops(len) = 1..len /\ Nops(len) = [k \in 1..len |-> Nops(len)[k]]
  BY DEF Nops
<1> HIDE DEF n
<1>4. Nops(len) \in [1..n -> Byte]
  BY <1>1, <1>2, <1>3
<1>5. Nops(len) \in Seq(Byte) /\ Len(Nops(len)) = n
  BY <1>2, <1>4
<1> QED
  BY <1>5 DEF n

LEMMA FiveNops == Nops(5) \in Seq(Byte) /\ Len(Nops(5)) = 5
<1> DEFINE five == 5
<1> HIDE DEF five
<1>1. five \in Int /\ five >= 0
  BY DEF five
<1>2. Nops(five) \in Seq(Byte) /\ Len(Nops(five)) = five
  BY <1>1, NopsType
<1> QED
  BY <1>2 DEF five

LEMMA OpType ==
  ASSUME NEW name \in {"e8", "e9", "3e", "f0", "zero"}
  PROVE  <<Op(name)>> \in Seq(Byte) /\ Len(<<Op(name)>>) = 1
BY DEF Op, Byte

LEMMA JumpType ==
  ASSUME NEW opcode \in {"e8", "e9"}, NEW delta \in Int
  PROVE  Jump(opcode, delta) \in Seq(Byte) /\ Len(Jump(opcode, delta)) = 5
<1> DEFINE operand == [k \in 1..4 |-> [op |-> "disp", value |-> delta, k |-> k]]
<1>1. operand \in [1..4 -> Byte]
  BY DEF Byte
<1>2. operand \in Seq(Byte) /\ Len(operand) = 4
  BY <1>1
<1>3. Jump(opcode, delta) = <<Op(opcode)>> \o operand
  BY DEF Jump
<1>4. <<Op(opcode)>> \in Seq(Byte) /\ Len(<<Op(opcode)>>) = 1
  BY OpType
<1> HIDE DEF operand
<1> DEFINE first == <<Op(opcode)>>
<1> HIDE DEF first
<1>5. first \in Seq(Byte) /\ Len(first) = 1
  BY <1>4 DEF first
<1>6. first \o operand \in Seq(Byte) /\ Len(first \o operand) = Len(first) + Len(operand)
  BY <1>2, <1>5, ConcatProperties
<1>7. Len(first \o operand) = 5
  BY <1>2, <1>5, <1>6
<1> QED
  BY <1>3, <1>6, <1>7 DEF first

\* writing bytes into a text changes nothing else, and not its length
LEMMA WriteType ==
  ASSUME NEW S, NEW text \in Seq(S), NEW T, NEW bytes \in Seq(T), NEW at \in Int,
         \A k \in 1..Len(text) : k - at \in 1..Len(bytes) => bytes[k - at] \in S
  PROVE  /\ Write(text, at, bytes) \in Seq(S)
         /\ Len(Write(text, at, bytes)) = Len(text)
         /\ Altered(text, Write(text, at, bytes)) \subseteq (at + 1)..(at + Len(bytes))
<1>1. DOMAIN text = 1..Len(text) /\ DOMAIN bytes = 1..Len(bytes) /\ Len(text) \in Nat
      /\ Len(bytes) \in Nat
  BY LenProperties
<1> DEFINE new == [k \in 1..Len(text) |->
                     IF k - at \in DOMAIN bytes THEN bytes[k - at] ELSE text[k]]
<1>2. Write(text, at, bytes) = new
  BY <1>1 DEF Write
<1>3. ASSUME NEW k \in 1..Len(text) PROVE new[k] \in S
  BY <1>1, ElementOfSeq
<1>4. new \in [1..Len(text) -> S]
  BY <1>3
<1>5. new \in Seq(S) /\ Len(new) = Len(text)
  BY <1>1, <1>4
<1>6. ASSUME NEW k \in Altered(text, new) PROVE k \in (at + 1)..(at + Len(bytes))
  <2>1. k \in 1..Len(text) /\ text[k] # new[k]
    BY <1>1 DEF Altered
  <2>2. k - at \in 1..Len(bytes)
    BY <1>1, <2>1
  <2> QED
    BY <1>1, <2>1, <2>2
<1> QED
  BY <1>2, <1>5, <1>6

\* padding to a length that is not exceeded
LEMMA PaddedType ==
  ASSUME NEW S, Byte \subseteq S, NEW used \in Seq(S), NEW len \in Nat, Len(used) <= len
  PROVE  /\ used \o Nops(len - Len(used)) \in Seq(S)
         /\ Len(used \o Nops(len - Len(used))) = len
<1>1. Len(used) \in Nat /\ len - Len(used) \in Nat
  BY LenProperties
<1>2. Nops(len - Len(used)) \in Seq(S) /\ Len(Nops(len - Len(used))) = len - Len(used)
  BY <1>1, NopsType, SeqMonotonic
<1> DEFINE padding == Nops(len - Len(used))
<1> HIDE DEF padding
<1>3. padding \in Seq(S) /\ Len(padding) = len - Len(used)
  BY <1>2 DEF padding
<1>4. used \o padding \in Seq(S) /\ Len(used \o padding) = Len(used) + Len(padding)
  BY <1>3, ConcatProperties
<1>5. Len(used \o padding) = len
  BY <1>1, <1>3, <1>4
<1> QED
  BY <1>4, <1>5 DEF padding

-----------------------------------------------------------------------------
(* ParavirtPatcher: no patch is longer than the site.                      *)

LEMMA InsnsFit ==
  ASSUME NEW S, Byte \subseteq S, NEW site \in Seq(S), NEW t \in DOMAIN Insns
  PROVE  /\ PatchInsns(site, Insns[t]) \in Seq(S)
         /\ Len(PatchInsns(site, Insns[t])) <= Len(site)
<1>1. Insns[t] \in Seq(S) /\ Len(Insns[t]) \in Nat /\ Len(site) \in Nat
  <2>1. Insns[t] \in Seq(Byte)
    BY FileAssumption
  <2> QED
    BY <2>1, SeqMonotonic, LenProperties
<1> QED
  BY <1>1 DEF PatchInsns

LEMMA JumpsFit ==
  ASSUME NEW S, Byte \subseteq S, NEW site \in Seq(S), NEW clobbers,
         NEW dest \in Int, NEW addr \in Int
  PROVE  /\ PatchJmp(site, dest, addr) \in Seq(S)
         /\ Len(PatchJmp(site, dest, addr)) <= Len(site)
         /\ PatchCall(site, dest, addr, clobbers) \in Seq(S)
         /\ Len(PatchCall(site, dest, addr, clobbers)) <= Len(site)
<1> DEFINE jump(opcode) == Jump(opcode, dest - (addr + 5))
<1>1. \A opcode \in {"e8", "e9"} : jump(opcode) \in Seq(S) /\ Len(jump(opcode)) = 5
  BY JumpType, SeqMonotonic
<1>2. Len(site) \in Nat
  BY LenProperties
<1>3. /\ PatchJmp(site, dest, addr) = IF Len(site) < 5 THEN site ELSE jump("e9")
      /\ PatchCall(site, dest, addr, clobbers) \in
           {site} \cup {j \in {jump("e8")} : Len(site) >= 5}
  BY <1>2 DEF PatchJmp, PatchCall
<1> HIDE DEF jump
<1> QED
  BY <1>1, <1>2, <1>3

\* the sites whose type the patcher has no instructions for
LEMMA DefaultFits ==
  ASSUME file \in Files, NEW n \in DOMAIN file.patchSites,
         NEW S, Byte \subseteq S, NEW site \in Seq(S), NEW addr \in Int
  PROVE  LET p == file.patchSites[n]
             used == ParavirtPatchDefault(p.type, p.clobbers, site, addr)
         IN used \in Seq(S) /\ Len(used) <= Len(site)
<1> DEFINE p == file.patchSites[n]
           opfunc == CallDestination(p.type)
           used == ParavirtPatchDefault(p.type, p.clobbers, site, addr)
<1>1. opfunc \in [is : {"null", "nop", "ident32", "ident64", "function"}, address : Nat]
  <2>1. p.type \in DOMAIN file.ops =>
          file.ops[p.type] \in
            [is : {"null", "nop", "ident32", "ident64", "function"}, address : Nat]
    BY FileAssumption
  <2> QED
    BY <2>1 DEF CallDestination
<1>2. Len(site) \in Nat /\ <<>> \in Seq(S) /\ Len(<<>>) = 0
  BY LenProperties, EmptySeq
<1>3. \/ used = <<>>
      \/ used = PatchInsns(site, Insns["mov32"])
      \/ used = PatchInsns(site, Insns["mov64"])
      \/ used = PatchJmp(site, opfunc.address, addr)
      \/ used = PatchCall(site, opfunc.address, addr, p.clobbers)
  BY <1>1 DEF ParavirtPatchDefault
<1>4. {"mov32", "mov64"} \subseteq DOMAIN Insns
  BY FileAssumption
<1>5. opfunc.address \in Int
  BY <1>1
<1> HIDE DEF opfunc, used
<1>6. CASE used = <<>>
  BY <1>2, <1>6 DEF used
<1>7. CASE used = PatchInsns(site, Insns["mov32"]) \/ used = PatchInsns(site, Insns["mov64"])
  BY <1>4, <1>7, InsnsFit DEF used
<1>8. CASE \/ used = PatchJmp(site, opfunc.address, addr)
           \/ used = PatchCall(site, opfunc.address, addr, p.clobbers)
  BY <1>5, <1>8, JumpsFit DEF used
<1> QED
  BY <1>3, <1>6, <1>7, <1>8

LEMMA PatchFits ==
  ASSUME file \in Files, NEW n \in DOMAIN file.patchSites,
         NEW S, Byte \subseteq S, NEW site \in Seq(S), NEW addr \in Int
  PROVE  LET p == file.patchSites[n]
             used == ParavirtNativePatch(p.type, p.clobbers, site, addr)
         IN used \in Seq(S) /\ Len(used) <= Len(site)
<1> DEFINE p == file.patchSites[n]
<1>1. CASE p.type \in NativeSites
  <2>1. p.type \in DOMAIN Insns
    BY <1>1, FileAssumption
  <2>2. ParavirtNativePatch(p.type, p.clobbers, site, addr) = PatchInsns(site, Insns[p.type])
    BY <1>1 DEF ParavirtNativePatch
  <2> QED
    BY <2>1, <2>2, InsnsFit
<1>2. CASE p.type \notin NativeSites
  <2>1. ParavirtNativePatch(p.type, p.clobbers, site, addr)
          = ParavirtPatchDefault(p.type, p.clobbers, site, addr)
    BY <1>2 DEF ParavirtNativePatch
  <2> QED
    BY <2>1, DefaultFits
<1> QED
  BY <1>1, <1>2

-----------------------------------------------------------------------------
(* The invariant: TypeOK, and how much of the text the copy has.           *)

\* There is no copy before copyTextSegment; behind it the copy has all of
\* .text, and of a module it is whole pages already.
CopyOfText ==
  /\ stage \in {"altinstr", "parainstr", "smplocks", "copy"} => copy = <<>>
  /\ stage \in {"mcount", "jumps", "fill"} => Len(copy) >= file.size
  /\ stage = "mcount" /\ ~file.isKernel =>
       Len(copy) % PageSize = 0 /\ Len(copy) > file.size

Inv == file \in Files /\ TypeOK /\ CopyOfText

\* what a step changes lies in one site
OneSite ==
  LET altered == Altered(elf, elf') \cup Altered(copy, copy')
  IN \/ altered = {}
     \/ \E s \in SitesOf(file) : altered \subseteq Place(s)

LEMMA SameText == ASSUME NEW text PROVE Altered(text, text) = {}
BY DEF Altered

LEMMA OnlyElf ==
  ASSUME copy' = copy, NEW s \in SitesOf(file),
         Altered(elf, elf') \subseteq Place(s)
  PROVE  OneSite
<1>1. Altered(copy, copy') = {}
  BY SameText
<1> QED
  BY <1>1 DEF OneSite

LEMMA OnlyCopy ==
  ASSUME elf' = elf, NEW s \in SitesOf(file),
         Altered(copy, copy') \subseteq Place(s)
  PROVE  OneSite
<1>1. Altered(elf, elf') = {}
  BY SameText
<1> QED
  BY <1>1 DEF OneSite

LEMMA NoText == ASSUME elf' = elf, copy' = copy PROVE OneSite
BY SameText DEF OneSite

LEMMA EntriesType ==
  file \in Files => Len(Entries) \in Nat /\ DOMAIN Entries = 1..Len(Entries)
<1> SUFFICES ASSUME file \in Files
             PROVE  Len(Entries) \in Nat /\ DOMAIN Entries = 1..Len(Entries)
  OBVIOUS
<1>1. /\ file.alternatives \in Seq([at : Nat, len : Nat, feature : STRING,
                                    repl : Seq(Byte), pointer : Nat])
      /\ file.patchSites \in Seq([at : Nat, len : 0..254, type : STRING,
                                  clobbers : SUBSET AnyClobbers])
      /\ file.locks \in Seq(Int)
      /\ file.mcounts \in Seq(Nat)
      /\ file.guestTable \in Seq([code : Nat, target : Nat, key : Keys])
  BY FileAssumption
<1>2. Entries \in {file.alternatives, file.patchSites, file.locks, file.mcounts,
                   file.guestTable, <<>>}
  BY DEF Entries
<1>3. Len(<<>>) = 0 /\ DOMAIN <<>> = 1..0
  OBVIOUS
<1> QED
  BY <1>1, <1>2, <1>3, LenProperties

LEMMA EntryStep ==
  ASSUME Inv, NEW s, Entry(s), UNCHANGED <<file, stage>>
  PROVE  next \in 1..Len(Entries) /\ next' \in 1..(Len(Entries') + 1)
<1>1. Len(Entries) \in Nat /\ Entries' = Entries
  BY EntriesType DEF Inv, Entries
<1>2. next \in 1..Len(Entries) /\ next' = next + 1
  BY <1>1 DEF Inv, TypeOK, Entry
<1> QED
  BY <1>1, <1>2

LEMMA InitInv == Init => Inv
<1> SUFFICES ASSUME Init PROVE Inv
  OBVIOUS
<1>1. file \in Files /\ file.text \in Seq(Byte) /\ Len(file.text) = file.size + 1
  BY FileAssumption DEF Init
<1>2. next \in 1..(Len(Entries) + 1)
  BY <1>1, EntriesType DEF Init
<1>3. <<>> \in Seq(Byte) /\ DOMAIN <<>> = {}
  BY EmptySeq, LenProperties
<1> QED
  BY <1>1, <1>2, <1>3 DEF Init, Inv, TypeOK, CopyOfText

-----------------------------------------------------------------------------
(* The loops over the contents of the file.                                *)

\* bytes written into the file
LEMMA ElfPatched ==
  ASSUME Inv, NEW s, Entry(s), s \in {"altinstr", "parainstr", "smplocks"},
         UNCHANGED <<file, stage, copy, jumpEntries, jumpDestinations, enabled>>,
         smpOffsets' \subseteq {file.locks[n] : n \in DOMAIN file.locks},
         elf' \in Seq(Byte), Len(elf') = Len(elf)
  PROVE  Inv'
<1>1. next' \in 1..(Len(Entries') + 1)
  BY EntryStep
<1> QED
  BY <1>1 DEF Inv, TypeOK, CopyOfText, Entry

LEMMA ElfWritten ==
  ASSUME Inv, NEW s, Entry(s), s \in {"altinstr", "parainstr", "smplocks"},
         UNCHANGED <<file, stage, copy, jumpEntries, jumpDestinations, enabled>>,
         smpOffsets' \subseteq {file.locks[n] : n \in DOMAIN file.locks},
         NEW site \in SitesOf(file), site.at \in Int,
         NEW bytes \in Seq(Byte), Len(bytes) = site.len,
         elf' = Write(elf, site.at, bytes)
  PROVE  Inv' /\ OneSite
<1>1. elf \in Seq(Byte)
  BY DEF Inv, TypeOK
<1>2. \A k \in 1..Len(elf) : k - site.at \in 1..Len(bytes) => bytes[k - site.at] \in Byte
  BY ElementOfSeq
<1>3. /\ elf' \in Seq(Byte) /\ Len(elf') = Len(elf)
      /\ Altered(elf, elf') \subseteq (site.at + 1)..(site.at + site.len)
  BY <1>1, <1>2, WriteType
<1> QED
  BY <1>3, ElfPatched, OnlyElf DEF Place

\* what is written for an alternative: what the guest's kernel has there
LEMMA AltBytes ==
  ASSUME file \in Files, NEW n \in DOMAIN file.alternatives
  PROVE  LET a == file.alternatives[n]
             isCall == Len(a.repl) = 5 /\ a.repl[1] = Op("e8")
             insnbuf == IF isCall THEN Jump("e8", MovedOperand(a)) ELSE a.repl
             bytes == insnbuf \o Nops(a.len - Len(a.repl))
         IN /\ a.at \in Int
            /\ bytes \in Seq(Byte) /\ Len(bytes) = a.len
            /\ bytes = Padded(GuestReplacement(file, a), a.len)
<1> DEFINE a == file.alternatives[n]
           isCall == Len(a.repl) = 5 /\ a.repl[1] = Op("e8")
           insnbuf == IF isCall THEN Jump("e8", MovedOperand(a)) ELSE a.repl
           bytes == insnbuf \o Nops(a.len - Len(a.repl))
<1>1. /\ a \in [at : Nat, len : Nat, feature : STRING, repl : Seq(Byte), pointer : Nat]
      /\ Len(a.repl) <= a.len
      /\ isCall => a.repl[2].op = "disp"
  <2>1. /\ file.alternatives \in Seq([at : Nat, len : Nat, feature : STRING,
                                      repl : Seq(Byte), pointer : Nat])
        /\ \A m \in DOMAIN file.alternatives :
             LET b == file.alternatives[m]
             IN /\ Len(b.repl) <= b.len
                /\ Len(b.repl) = 5 /\ b.repl[1] = Op("e8") => b.repl[2].op = "disp"
    BY FileAssumption
  <2> QED
    BY <2>1, LenProperties, ElementOfSeq
<1>2. ASSUME isCall
      PROVE  /\ MovedOperand(a) \in Int
             /\ Jump("e8", MovedOperand(a)) = GuestReplacement(file, a)
  <2>1. a.repl[2] \in Byte /\ a.repl[2].op = "disp"
    BY <1>1, <1>2, ElementOfSeq
  <2>2. a.repl[2].value \in Int
    BY <2>1 DEF Byte
  <2>3. /\ file.index \in Int /\ file.memindex \in Int
        /\ file.replIndex \in Int /\ file.replMemindex \in Int /\ file.replSize \in Int
    <3>1. /\ {file.index, file.memindex} \subseteq Nat
          /\ {file.replIndex, file.replMemindex, file.replSize} \subseteq Nat
      BY FileAssumption
    <3> QED
      BY <3>1
  <2> DEFINE inSection == /\ a.pointer >= file.replIndex
                          /\ a.pointer < file.replIndex + file.replSize
             home == IF inSection
                     THEN file.replMemindex + (a.pointer - file.replIndex)
                     ELSE file.memindex + (a.pointer - file.index)
             delta == (home + 5 + a.repl[2].value) - (file.memindex + a.at + 5)
  <2>4. GuestReplacement(file, a) = Jump("e8", delta)
    BY <1>2 DEF GuestReplacement
  <2> HIDE DEF a
  <2>5. a.pointer \in Int /\ a.at \in Int
    BY <1>1
  <2>6. MovedOperand(a) \in Int /\ MovedOperand(a) = delta
    BY <2>2, <2>3, <2>5 DEF MovedOperand
  <2> QED
    BY <2>4, <2>6
<1>3. insnbuf \in Seq(Byte) /\ Len(insnbuf) = Len(a.repl)
  <2>1. CASE isCall
    <3>1. Jump("e8", MovedOperand(a)) \in Seq(Byte) /\ Len(Jump("e8", MovedOperand(a))) = 5
      BY <1>2, <2>1, JumpType
    <3> QED
      BY <2>1, <3>1
  <2>2. CASE ~isCall
    BY <1>1, <2>2
  <2> QED
    BY <2>1, <2>2
<1>4. insnbuf = GuestReplacement(file, a)
  BY <1>2 DEF GuestReplacement
<1> HIDE DEF a, insnbuf
<1>5. bytes = Padded(insnbuf, a.len)
  BY <1>3 DEF Padded
<1>6. bytes \in Seq(Byte) /\ Len(bytes) = a.len
  <2>1. a.len \in Nat /\ Len(insnbuf) <= a.len
    BY <1>1, <1>3
  <2> QED
    BY <1>3, <1>5, <2>1, PaddedType DEF Padded
<1>7. /\ a.at \in Int
      /\ bytes \in Seq(Byte) /\ Len(bytes) = a.len
      /\ bytes = Padded(GuestReplacement(file, a), a.len)
  BY <1>1, <1>4, <1>5, <1>6
<1> QED
  BY <1>7 DEF a, insnbuf

LEMMA AltinstrStep == ASSUME Inv, ApplyAltinstr PROVE Inv' /\ OneSite
<1> DEFINE a == file.alternatives[next]
           isCall == Len(a.repl) = 5 /\ a.repl[1] = Op("e8")
           insnbuf == IF isCall THEN Jump("e8", MovedOperand(a)) ELSE a.repl
           bytes == insnbuf \o Nops(a.len - Len(a.repl))
<1>1. file \in Files /\ elf \in Seq(Byte)
  BY DEF Inv, TypeOK
<1>2. /\ Entry("altinstr")
      /\ UNCHANGED <<file, stage, copy, smpOffsets, jumpEntries, jumpDestinations, enabled>>
      /\ elf' = IF a.feature \in file.features THEN Write(elf, a.at, bytes) ELSE elf
  BY DEF ApplyAltinstr
<1>3. next \in DOMAIN file.alternatives
  <2>1. next \in 1..Len(Entries)
    BY <1>2, EntryStep
  <2> QED
    BY <1>1, <1>2, <2>1, EntriesType DEF Entry, Entries
<1>6. a.at \in Int /\ bytes \in Seq(Byte) /\ Len(bytes) = a.len
  BY <1>1, <1>3, AltBytes
<1> HIDE DEF a, insnbuf
<1> HIDE DEF bytes
<1> DEFINE site == [at |-> a.at, len |-> a.len, by |-> <<"alternatives", next>>]
<1>7. site \in SitesOf(file) /\ site.at \in Int /\ Len(bytes) = site.len
  <2>1. site \in SitesOf(file)
    BY <1>3 DEF SitesOf, a
  <2> QED
    BY <1>6, <2>1
<1>8. smpOffsets' \subseteq {file.locks[n] : n \in DOMAIN file.locks}
  BY <1>2 DEF Inv, TypeOK
<1>9. CASE elf' = elf
  BY <1>1, <1>2, <1>8, <1>9, ElfPatched, NoText
<1>10. CASE elf' = Write(elf, site.at, bytes)
  <2> HIDE DEF site
  <2> QED
    BY <1>2, <1>6, <1>7, <1>8, <1>10, ElfWritten
<1> QED
  BY <1>2, <1>9, <1>10

\* a piece of a text
LEMMA PieceType ==
  ASSUME NEW S, NEW text, NEW at \in Int, NEW len \in Nat,
         \A k \in (at + 1)..(at + len) : text[k] \in S
  PROVE  /\ SubSeq(text, at + 1, at + len) \in Seq(S)
         /\ Len(SubSeq(text, at + 1, at + len)) = len
         /\ \A k \in 1..len : SubSeq(text, at + 1, at + len)[k] = text[at + k]
<1> DEFINE m == at + 1
           n == at + len
           piece == SubSeq(text, m, n)
<1>1. m \in Int /\ n \in Int /\ \A k \in m..n : text[k] \in S
  OBVIOUS
<1> HIDE DEF m, n
<1>2. /\ piece \in Seq(S) /\ Len(piece) = IF m <= n THEN n - m + 1 ELSE 0
      /\ \A k \in 1..n - m + 1 : piece[k] = text[m + k - 1]
  BY <1>1, SubSeqProperties
<1> HIDE DEF piece
<1>3. Len(piece) = len
  BY <1>2 DEF m, n
<1>4. n - m + 1 = len /\ \A k \in 1..len : m + k - 1 = at + k
  BY DEF m, n
<1>5. \A k \in 1..len : piece[k] = text[at + k]
  BY <1>2, <1>4
<1> QED
  BY <1>2, <1>3, <1>5 DEF m, n, piece

\* what is written for a paravirt call, whatever the site has had
LEMMA CallBytes ==
  ASSUME Inv, NEW n \in DOMAIN file.patchSites
  PROVE  LET p == file.patchSites[n]
             region == SubSeq(elf, p.at + 1, p.at + p.len)
             used == ParavirtNativePatch(p.type, p.clobbers, region, file.memindex + p.at)
             bytes == used \o Nops(p.len - Len(used))
             S == Byte \cup {elf[k] : k \in (p.at + 1)..(p.at + p.len)}
         IN /\ p.at \in Nat /\ p.len \in Nat
            /\ p.at + p.len <= file.size \/ p.at > file.size
            /\ Len(region) = p.len
            /\ bytes \in Seq(S) /\ Len(bytes) = p.len
<1> DEFINE p == file.patchSites[n]
           region == SubSeq(elf, p.at + 1, p.at + p.len)
           used == ParavirtNativePatch(p.type, p.clobbers, region, file.memindex + p.at)
           bytes == used \o Nops(p.len - Len(used))
           S == Byte \cup {elf[k] : k \in (p.at + 1)..(p.at + p.len)}
<1>1. file \in Files
  BY DEF Inv
<1>3. n \in DOMAIN file.patchSites
  OBVIOUS
<1>4. /\ p.at \in Nat /\ p.len \in Nat
      /\ p.at + p.len <= file.size \/ p.at > file.size
  <2>1. /\ file.patchSites \in Seq([at : Nat, len : 0..254, type : STRING,
                                    clobbers : SUBSET AnyClobbers])
        /\ \A m \in DOMAIN file.patchSites :
             \/ file.patchSites[m].at + file.patchSites[m].len <= file.size
             \/ file.patchSites[m].at > file.size
    BY <1>1, FileAssumption
  <2>2. p \in [at : Nat, len : 0..254, type : STRING, clobbers : SUBSET AnyClobbers]
    <3> HIDE DEF bytes, used, region, S
    <3> DEFINE sites == file.patchSites
               R == [at : Nat, len : 0..254, type : STRING, clobbers : SUBSET AnyClobbers]
    <3>1. sites \in Seq(R) /\ n \in DOMAIN sites /\ p = sites[n]
      BY <1>3, <2>1
    <3> HIDE DEF sites, R, p
    <3>2. DOMAIN sites = 1..Len(sites)
      BY <3>1, LenProperties
    <3>3. p \in R
      BY <3>1, <3>2, ElementOfSeq
    <3> QED
      BY <3>3 DEF R
  <2>3. p.at \in Nat /\ p.len \in Nat
    BY <2>2
  <2>4. p.at + p.len <= file.size \/ p.at > file.size
    BY <1>3, <2>1
  <2> QED
    BY <2>3, <2>4
<1>5. file.size \in Nat /\ file.memindex \in Nat
  BY <1>1, FileAssumption
<1> HIDE DEF p, S
<1>7. region \in Seq(S) /\ Len(region) = p.len
  <2>1. \A k \in (p.at + 1)..(p.at + p.len) : elf[k] \in S
    BY DEF S
  <2> QED
    BY <1>4, <2>1, PieceType
<1> HIDE DEF region
<1>8. Byte \subseteq S /\ file.memindex + p.at \in Int
  BY <1>4, <1>5 DEF S
<1>9. used \in Seq(S) /\ Len(used) <= p.len
  BY <1>1, <1>7, <1>8, PatchFits DEF p
<1> HIDE DEF used
<1>10. bytes \in Seq(S) /\ Len(bytes) = p.len
  BY <1>4, <1>8, <1>9, PaddedType
<1> HIDE DEF bytes
<1>11. /\ p.at \in Nat /\ p.len \in Nat
       /\ p.at + p.len <= file.size \/ p.at > file.size
       /\ Len(region) = p.len
       /\ bytes \in Seq(S) /\ Len(bytes) = p.len
  BY <1>4, <1>7, <1>10
<1> QED
  BY <1>11 DEF p, S, region, used, bytes

LEMMA ParainstrStep == ASSUME Inv, ApplyParainstr PROVE Inv' /\ OneSite
<1> DEFINE p == file.patchSites[next]
           region == SubSeq(elf, p.at + 1, p.at + p.len)
           used == ParavirtNativePatch(p.type, p.clobbers, region, file.memindex + p.at)
           bytes == used \o Nops(p.len - Len(used))
           S == Byte \cup {elf[k] : k \in (p.at + 1)..(p.at + p.len)}
<1>1. file \in Files /\ elf \in Seq(Byte) /\ Len(elf) = file.size + 1
  BY DEF Inv, TypeOK
<1>2. /\ Entry("parainstr")
      /\ UNCHANGED <<file, stage, copy, smpOffsets, jumpEntries, jumpDestinations, enabled>>
      /\ elf' = Write(elf, p.at, bytes)
  BY DEF ApplyParainstr
<1>3. next \in DOMAIN file.patchSites
  <2>1. next \in 1..Len(Entries)
    BY <1>2, EntryStep
  <2> QED
    BY <1>1, <1>2, <2>1, EntriesType DEF Entry, Entries
<1>4. /\ p.at \in Nat /\ p.len \in Nat
      /\ p.at + p.len <= file.size \/ p.at > file.size
      /\ bytes \in Seq(S) /\ Len(bytes) = p.len
  BY <1>3, CallBytes
<1>5. file.size \in Nat
  BY <1>1, FileAssumption
<1> DEFINE site == [at |-> p.at, len |-> p.len, by |-> <<"patchSites", next>>]
<1>7. site \in SitesOf(file)
  BY <1>3 DEF SitesOf
<1>8. smpOffsets' \subseteq {file.locks[n] : n \in DOMAIN file.locks}
  BY <1>2 DEF Inv, TypeOK
<1>9. CASE p.at + p.len <= file.size
  <2>1. ASSUME NEW k \in (p.at + 1)..(p.at + p.len) PROVE elf[k] \in Byte
    <3> HIDE DEF p, bytes, S
    <3>1. k \in 1..Len(elf)
      BY <1>1, <1>4, <1>5, <1>9
    <3> QED
      BY <1>1, <3>1, ElementOfSeq
  <2>2. S = Byte
    BY <2>1
  <2>3. bytes \in Seq(Byte) /\ Len(bytes) = site.len /\ site.at \in Int
    <3> HIDE DEF p, bytes, S
    <3>1. bytes \in Seq(Byte)
      BY <1>4, <2>2
    <3> QED
      BY <1>4, <3>1
  <2>4. elf' = Write(elf, site.at, bytes)
    BY <1>2
  <2> HIDE DEF site, bytes
  <2> QED
    BY <1>2, <1>7, <1>8, <2>3, <2>4, ElfWritten
<1>10. CASE p.at > file.size
  <2> HIDE DEF p, bytes, S
  <2>1. \A k \in 1..Len(elf) : k - p.at \notin 1..Len(bytes)
    BY <1>1, <1>4, <1>5, <1>10
  <2>2. DOMAIN elf = 1..Len(elf) /\ DOMAIN bytes = 1..Len(bytes)
    BY <1>1, <1>4, LenProperties
  <2>3. Write(elf, p.at, bytes) = [k \in DOMAIN elf |-> elf[k]]
    BY <2>1, <2>2 DEF Write
  <2>4. elf' = elf
    BY <1>1, <1>2, <2>3, LenProperties
  <2> QED
    BY <1>1, <1>2, <1>8, <2>4, ElfPatched, NoText
<1> QED
  BY <1>4, <1>9, <1>10

LEMMA SmpLocksStep == ASSUME Inv, ApplySmpLocks PROVE Inv' /\ OneSite
<1> DEFINE offset == file.locks[next]
           lock == IF "up" \notin file.features THEN "3e" ELSE "f0"
           bytes == <<Op(lock)>>
           site == [at |-> offset, len |-> 1, by |-> <<"locks", next>>]
<1>1. file \in Files /\ elf \in Seq(Byte)
  BY DEF Inv, TypeOK
<1>2. /\ Entry("smplocks")
      /\ UNCHANGED <<file, stage, copy, jumpEntries, jumpDestinations, enabled>>
      /\ \/ elf' = Write(elf, site.at, bytes) /\ smpOffsets' = smpOffsets \cup {offset}
         \/ elf' = elf /\ smpOffsets' = smpOffsets
  BY DEF ApplySmpLocks
<1>3. next \in DOMAIN file.locks
  <2>1. next \in 1..Len(Entries)
    BY <1>2, EntryStep
  <2> QED
    BY <1>1, <1>2, <2>1, EntriesType DEF Entry, Entries
<1>4. offset \in Int
  <2>1. file.locks \in Seq(Int)
    BY <1>1, FileAssumption
  <2> QED
    BY <1>3, <2>1, LenProperties, ElementOfSeq
<1>5. site \in SitesOf(file) /\ site.at \in Int /\ site.len = 1
  <2>1. site \in SitesOf(file)
    BY <1>3 DEF SitesOf
  <2> QED
    BY <1>4, <2>1
<1>6. smpOffsets' \subseteq {file.locks[n] : n \in DOMAIN file.locks}
  BY <1>2, <1>3 DEF Inv, TypeOK
<1>7. bytes \in Seq(Byte) /\ Len(bytes) = 1
  BY OpType
<1> HIDE DEF offset, bytes, site
<1>8. CASE elf' = elf
  BY <1>1, <1>2, <1>6, <1>8, ElfPatched, NoText
<1>9. CASE elf' = Write(elf, site.at, bytes)
  BY <1>2, <1>5, <1>6, <1>7, <1>9, ElfWritten
<1> QED
  BY <1>2, <1>8, <1>9

-----------------------------------------------------------------------------
(* The copy: made, patched and filled up.                                  *)

LEMMA FilledType ==
  ASSUME NEW text \in Seq(Byte)
  PROVE  /\ Filled(text) \in Seq(Byte)
         /\ Len(Filled(text)) % PageSize = 0
         /\ Len(Filled(text)) > Len(text)
         /\ Altered(text, Filled(text)) = {}
<1> DEFINE n == PageSize - (Len(text) % PageSize)
           zeros == [k \in 1..n |-> Op("zero")]
<1>1. Len(text) \in Nat /\ PageSize \in Nat \ {0}
  BY FileAssumption, LenProperties
<1>2. n \in 1..PageSize /\ (Len(text) + n) % PageSize = 0
  BY <1>1, FillsPage
<1>3. Filled(text) = text \o zeros
  BY DEF Filled
<1> HIDE DEF n
<1>4. n \in Nat /\ n > 0
  BY <1>1, <1>2
<1>5. zeros \in [1..n -> Byte]
  BY DEF Op, Byte
<1>6. zeros \in Seq(Byte) /\ Len(zeros) = n
  BY <1>4, <1>5
<1> HIDE DEF zeros
<1>7. /\ Filled(text) \in Seq(Byte)
      /\ Len(Filled(text)) = Len(text) + n
      /\ \A k \in 1..Len(text) + n :
           Filled(text)[k] = IF k <= Len(text) THEN text[k] ELSE zeros[k - Len(text)]
  <2> DEFINE filled == text \o zeros
  <2>1. /\ filled \in Seq(Byte)
        /\ Len(filled) = Len(text) + Len(zeros)
        /\ \A k \in 1..Len(text) + Len(zeros) :
             filled[k] = IF k <= Len(text) THEN text[k] ELSE zeros[k - Len(text)]
    BY <1>6, ConcatProperties
  <2>2. Filled(text) = filled
    BY <1>3
  <2> HIDE DEF filled
  <2> QED
    BY <1>6, <2>1, <2>2
<1>8. \A k \in 1..Len(text) : text[k] = Filled(text)[k]
  BY <1>1, <1>4, <1>7
<1>9. Altered(text, Filled(text)) = {}
  BY <1>8, LenProperties DEF Altered
<1>10. Len(Filled(text)) > Len(text)
  BY <1>1, <1>4, <1>7
<1> QED
  BY <1>2, <1>7, <1>9, <1>10

LEMMA CopyStep == ASSUME Inv, CopyText PROVE Inv' /\ OneSite
<1> DEFINE body == SubSeq(elf, 1, file.size)
           text == body \o file.tail
<1>1. /\ file \in Files /\ elf \in Seq(Byte) /\ Len(elf) = file.size + 1
      /\ stage = "copy" /\ copy = <<>>
  BY DEF Inv, TypeOK, CopyOfText, CopyText
<1>2. file.size \in Nat /\ file.tail \in Seq(Byte) /\ file.isKernel \in BOOLEAN
  BY <1>1, FileAssumption
<1>3. /\ copy' = IF file.isKernel THEN text ELSE Filled(text)
      /\ stage' = "mcount" /\ next' = 1
      /\ UNCHANGED <<file, elf, smpOffsets, jumpEntries, jumpDestinations, enabled>>
  BY DEF CopyText
<1>4. body \in Seq(Byte) /\ Len(body) = file.size
  <2>1. \A k \in 1..file.size : elf[k] \in Byte
    BY <1>1, <1>2, ElementOfSeq
  <2>2. /\ body \in Seq(Byte)
        /\ Len(body) = IF 1 <= file.size THEN file.size - 1 + 1 ELSE 0
    BY <1>2, <2>1, SubSeqProperties
  <2> QED
    BY <1>2, <2>2
<1> HIDE DEF body
<1>5. text \in Seq(Byte) /\ Len(text) >= file.size
  <2>1. text \in Seq(Byte) /\ Len(text) = Len(body) + Len(file.tail)
    BY <1>2, <1>4, ConcatProperties
  <2>2. Len(file.tail) \in Nat
    BY <1>2, LenProperties
  <2> QED
    BY <1>2, <1>4, <2>1, <2>2
<1> HIDE DEF text
<1>6. /\ Filled(text) \in Seq(Byte) /\ Len(Filled(text)) % PageSize = 0
      /\ Len(Filled(text)) > file.size
  <2>1. /\ Filled(text) \in Seq(Byte) /\ Len(Filled(text)) % PageSize = 0
        /\ Len(Filled(text)) > Len(text)
    BY <1>5, FilledType
  <2>2. Len(text) \in Nat /\ Len(Filled(text)) \in Nat
    BY <1>5, <2>1, LenProperties
  <2> QED
    BY <1>2, <1>5, <2>1, <2>2
<1>7. copy' \in Seq(Byte) /\ Len(copy') >= file.size
  <2>1. Len(Filled(text)) \in Nat
    BY <1>6, LenProperties
  <2> QED
    BY <1>2, <1>3, <1>5, <1>6, <2>1
<1>8. ~file.isKernel => Len(copy') % PageSize = 0 /\ Len(copy') > file.size
  BY <1>3, <1>6
<1>9. next' \in 1..(Len(Entries') + 1)
  <2>1. (file \in Files => Len(Entries) \in Nat /\ DOMAIN Entries = 1..Len(Entries))'
    BY EntriesType, PTL
  <2>2. Len(Entries') \in Nat
    BY <1>1, <1>3, <2>1
  <2> QED
    BY <1>3, <2>2
<1>10. Inv'
  BY <1>1, <1>3, <1>7, <1>8, <1>9 DEF Inv, TypeOK, CopyOfText
<1>11. Altered(copy, copy') = {}
  <2>1. DOMAIN copy = {}
    BY <1>1
  <2> QED
    BY <2>1 DEF Altered
<1>12. OneSite
  BY <1>3, <1>11, SameText DEF OneSite
<1> QED
  BY <1>10, <1>12

\* bytes written into the copy
LEMMA CopyWritten ==
  ASSUME Inv, NEW s, Entry(s), s \in {"mcount", "jumps"},
         UNCHANGED <<file, stage, elf, smpOffsets, enabled>>,
         DOMAIN jumpEntries' \subseteq {e.code : e \in file.jumpTable},
         jumpDestinations' \subseteq {e.target : e \in file.jumpTable},
         NEW site \in SitesOf(file), site.at \in Int,
         NEW bytes \in Seq(Byte), Len(bytes) = site.len,
         copy' \in {copy, Write(copy, site.at, bytes)}
  PROVE  Inv' /\ OneSite
<1>1. copy \in Seq(Byte)
  BY DEF Inv, TypeOK
<1>2. \A k \in 1..Len(copy) : k - site.at \in 1..Len(bytes) => bytes[k - site.at] \in Byte
  BY ElementOfSeq
<1>3. /\ Write(copy, site.at, bytes) \in Seq(Byte)
      /\ Len(Write(copy, site.at, bytes)) = Len(copy)
      /\ Altered(copy, Write(copy, site.at, bytes))
           \subseteq (site.at + 1)..(site.at + site.len)
  BY <1>1, <1>2, WriteType
<1>4. copy' \in Seq(Byte) /\ Len(copy') = Len(copy)
  BY <1>1, <1>3
<1>5. next' \in 1..(Len(Entries') + 1)
  BY EntryStep
<1>6. Inv'
  BY <1>4, <1>5 DEF Inv, TypeOK, CopyOfText, Entry
<1>7. CASE copy' = copy
  BY <1>6, <1>7, NoText
<1>8. CASE copy' = Write(copy, site.at, bytes)
  BY <1>3, <1>6, <1>8, OnlyCopy DEF Place
<1> QED
  BY <1>7, <1>8

LEMMA McountStep == ASSUME Inv, ApplyMcount PROVE Inv' /\ OneSite
<1> DEFINE site == [at |-> file.mcounts[next], len |-> 5, by |-> <<"mcounts", next>>]
<1>1. file \in Files
  BY DEF Inv
<1>2. /\ Entry("mcount")
      /\ UNCHANGED <<file, stage, elf, smpOffsets, jumpEntries, jumpDestinations, enabled>>
      /\ copy' = Write(copy, site.at, Nops(5))
  BY DEF ApplyMcount
<1>3. next \in DOMAIN file.mcounts
  <2>1. next \in 1..Len(Entries)
    BY <1>2, EntryStep
  <2> QED
    BY <1>1, <1>2, <2>1, EntriesType DEF Entry, Entries
<1>4. site \in SitesOf(file)
  BY <1>3 DEF SitesOf
<1>5. site.at \in Int /\ site.len = 5
  <2>1. file.mcounts \in Seq(Nat)
    BY <1>1, FileAssumption
  <2> QED
    BY <1>3, <2>1, LenProperties, ElementOfSeq
<1>6. Nops(5) \in Seq(Byte) /\ Len(Nops(5)) = 5
  BY FiveNops
<1>7. /\ DOMAIN jumpEntries' \subseteq {e.code : e \in file.jumpTable}
      /\ jumpDestinations' \subseteq {e.target : e \in file.jumpTable}
  BY <1>2 DEF Inv, TypeOK
<1> HIDE DEF site
<1> QED
  BY <1>2, <1>4, <1>5, <1>6, <1>7, CopyWritten

LEMMA JumpEntryStep == ASSUME Inv, ApplyJumpEntry PROVE Inv' /\ OneSite
<1> DEFINE entry == file.guestTable[next]
           found == FoundEntries(entry)
           destination(e) == e.target - (e.code + 5)
           e0 == CHOOSE e \in found : TRUE
           bytes == IF entry.key \in enabled THEN Jump("e9", destination(e0)) ELSE Nops(5)
           site == [at |-> e0.code, len |-> 5, by |-> <<"jumpTable", e0>>]
<1>1. file \in Files /\ file.jumpTable \subseteq [code : Nat, target : Nat, key : Keys]
  BY FileAssumption DEF Inv
<1>2. /\ Entry("jumps")
      /\ UNCHANGED <<file, stage, elf, smpOffsets, enabled>>
      /\ copy' = IF found = {} THEN copy ELSE Write(copy, e0.code, bytes)
      /\ DOMAIN jumpEntries' = DOMAIN jumpEntries \cup {e.code : e \in found}
      /\ jumpDestinations' = jumpDestinations \cup {e.target : e \in found}
  BY DEF ApplyJumpEntry
<1>3. found \subseteq file.jumpTable
  BY DEF FoundEntries, NewEntries
<1> HIDE DEF found
<1>4. /\ DOMAIN jumpEntries' \subseteq {e.code : e \in file.jumpTable}
      /\ jumpDestinations' \subseteq {e.target : e \in file.jumpTable}
  BY <1>2, <1>3 DEF Inv, TypeOK
<1>5. CASE found = {}
  <2>1. copy' = copy /\ next' \in 1..(Len(Entries') + 1)
    BY <1>2, <1>5, EntryStep
  <2>2. Inv'
    BY <1>2, <1>4, <2>1 DEF Inv, TypeOK, CopyOfText, Entry
  <2> QED
    BY <1>2, <2>1, <2>2, NoText
<1>6. CASE found # {}
  <2>1. e0 \in file.jumpTable
    BY <1>3, <1>6
  <2> HIDE DEF e0
  <2>2. site \in SitesOf(file) /\ site.at \in Int /\ site.len = 5
    <3>1. site \in SitesOf(file)
      BY <2>1, Zenon DEF SitesOf
    <3> QED
      BY <1>1, <2>1, <3>1
  <2>3. destination(e0) \in Int
    BY <1>1, <2>1
  <2> HIDE DEF destination
  <2>4. bytes \in Seq(Byte) /\ Len(bytes) = 5
    BY <2>3, JumpType, FiveNops
  <2>5. copy' = Write(copy, site.at, bytes)
    BY <1>2, <1>6
  <2> HIDE DEF bytes, site
  <2> QED
    BY <1>2, <1>4, <2>2, <2>4, <2>5, CopyWritten
<1> QED
  BY <1>5, <1>6

LEMMA FillStep == ASSUME Inv, Fill PROVE Inv' /\ OneSite
<1>1. copy \in Seq(Byte) /\ Len(copy) >= file.size /\ file.size \in Nat
  BY FileAssumption DEF Inv, TypeOK, CopyOfText, Fill
<1>2. /\ stage = "fill" /\ stage' = "done" /\ copy' = Filled(copy)
      /\ UNCHANGED <<file, next, elf, smpOffsets, jumpEntries, jumpDestinations, enabled>>
  BY DEF Fill
<1>3. /\ copy' \in Seq(Byte) /\ Len(copy') % PageSize = 0 /\ Len(copy') > file.size
      /\ Altered(copy, copy') = {}
  <2>1. /\ copy' \in Seq(Byte) /\ Len(copy') % PageSize = 0 /\ Len(copy') > Len(copy)
        /\ Altered(copy, copy') = {}
    BY <1>1, <1>2, FilledType
  <2>2. Len(copy) \in Nat /\ Len(copy') \in Nat
    BY <1>1, <2>1, LenProperties
  <2> QED
    BY <1>1, <2>1, <2>2
<1>4. next' \in 1..(Len(Entries') + 1)
  BY <1>2 DEF Inv, TypeOK, Entries
<1>5. Inv'
  BY <1>2, <1>3, <1>4 DEF Inv, TypeOK, CopyOfText
<1>6. OneSite
  BY <1>2, <1>3, SameText DEF OneSite
<1> QED
  BY <1>5, <1>6

LEMMA LoopEndsStep == ASSUME Inv, LoopEnds PROVE Inv' /\ OneSite
<1>1. /\ UNCHANGED <<file, elf, copy, smpOffsets, jumpEntries, jumpDestinations, enabled>>
      /\ next' = 1
      /\ \/ stage \in {"altinstr", "parainstr"} /\ stage' \in {"parainstr", "smplocks"}
         \/ stage = "smplocks" /\ stage' = "copy"
         \/ stage = "mcount" /\ file.isKernel /\ stage' = "jumps"
         \/ stage = "mcount" /\ ~file.isKernel /\ stage' = "done"
         \/ stage = "jumps" /\ stage' = "fill"
  BY DEF LoopEnds
<1>2. next' \in 1..(Len(Entries') + 1)
  <2>1. (file \in Files => Len(Entries) \in Nat /\ DOMAIN Entries = 1..Len(Entries))'
    BY EntriesType, PTL
  <2>2. Len(Entries') \in Nat
    BY <1>1, <2>1 DEF Inv
  <2> QED
    BY <1>1, <2>2
<1>3. Inv'
  BY <1>1, <1>2 DEF Inv, TypeOK, CopyOfText
<1> QED
  BY <1>1, <1>3, NoText

LEMMA BehindCopyStep == ASSUME Inv, PatchBehindCopy PROVE Inv' /\ OneSite
<1>1. /\ UNCHANGED <<file, elf, copy, smpOffsets, jumpEntries, jumpDestinations, enabled>>
      /\ next' = 1 /\ stage' = "undefined"
  BY DEF PatchBehindCopy
<1>2. Entries' = <<>>
  BY <1>1 DEF Entries
<1>3. next' \in 1..(Len(Entries') + 1)
  BY <1>1, <1>2
<1>4. Inv'
  BY <1>1, <1>3 DEF Inv, TypeOK, CopyOfText
<1> QED
  BY <1>1, <1>4, NoText

LEMMA KeyStep == ASSUME Inv, GuestTogglesKey \/ UNCHANGED vars PROVE Inv' /\ OneSite
<1>1. /\ UNCHANGED <<file, stage, next, elf, copy, smpOffsets, jumpEntries,
                     jumpDestinations>>
      /\ enabled' \subseteq Keys
  BY DEF GuestTogglesKey, vars, Inv, TypeOK
<1>2. Inv'
  BY <1>1 DEF Inv, TypeOK, CopyOfText, Entries
<1> QED
  BY <1>1, <1>2, NoText

-----------------------------------------------------------------------------
LEMMA Step == Inv /\ [Next]_vars => Inv' /\ OneSite
BY AltinstrStep, ParainstrStep, SmpLocksStep, CopyStep, McountStep, JumpEntryStep,
   BehindCopyStep, FillStep, LoopEndsStep, KeyStep DEF Next, InitText

(***************************************************************************)
(* The loops of both initText keep the types of their variables, never get *)
(* past the end of their tables, never change the length of the text, and  *)
(* end with whole pages that have all of it.                               *)
(***************************************************************************)
THEOREM TypeCorrect == Spec => []TypeOK
<1>1. Inv => TypeOK
  BY DEF Inv
<1>2. Inv /\ [Next]_vars => Inv'
  BY Step
<1> QED
  BY InitInv, <1>1, <1>2, PTL DEF Spec

(***************************************************************************)
(* No patch of initText reaches behind the site that it is for: what is    *)
(* written for an alternative, a paravirt call, a lock prefix, an mcount   *)
(* call or a jump label, its padding included, is as long as the site.     *)
(***************************************************************************)
THEOREM PatchesStayInSite == Spec => PatchStaysInSite
<1>1. Inv /\ [Next]_vars => Inv'
  BY Step
<1>2. Inv /\ [Next]_vars
        => [LET altered == Altered(elf, elf') \cup Altered(copy, copy')
            IN \/ altered = {}
               \/ \E s \in SitesOf(file) : altered \subseteq Place(s)]_vars
  BY Step DEF OneSite
<1> QED
  BY InitInv, <1>1, <1>2, PTL DEF Spec, PatchStaysInSite

-----------------------------------------------------------------------------
(* The text that is built.  Each byte of it is that of the file until the  *)
(* site that it is in is done, and then one that the guest may have there. *)

\* what the loader writes at a site
LoaderForms(f, s) ==
  CASE s.by[1] = "mcounts" -> {Nops(5)}
    [] s.by[1] = "jumpTable" ->
         {Nops(5), Jump("e9", s.by[2].target - (s.by[2].code + 5))}
    [] s.by[1] \notin {"mcounts", "jumpTable"} -> GuestForms(f, s)

\* the loop for a site has come past its entry
SiteDone(s) ==
  LET entry == s.by[2]
  IN \/ s.by[1] = "alternatives" /\ (stage = "altinstr" => entry < next)
     \/ /\ s.by[1] = "patchSites"
        /\ stage # "altinstr" /\ (stage = "parainstr" => entry < next)
     \/ /\ s.by[1] = "locks"
        /\ stage \notin {"altinstr", "parainstr"} /\ (stage = "smplocks" => entry < next)
     \/ /\ s.by[1] = "mcounts"
        /\ stage \in {"mcount", "jumps", "fill", "done"} /\ (stage = "mcount" => entry < next)
     \/ /\ s.by[1] = "jumpTable"
        /\ file.isKernel /\ stage \in {"jumps", "fill", "done"}
        /\ \E m \in DOMAIN file.guestTable :
             file.guestTable[m].code = entry.code /\ (stage = "jumps" => m < next)

DoneSites == {s \in SitesOf(file) : SiteDone(s)}

HasForm(f, text, s) ==
  \E form \in LoaderForms(f, s) : DOMAIN form = 1..s.len /\ HasAt(text, s.at, form)

\* the first bytes of a text, when some sites are done
Built(f, text, limit, done) ==
  /\ 1..limit \subseteq DOMAIN text
  /\ \A k \in 1..limit : (\A s \in done : k \notin Place(s)) => text[k] = Image(f)[k]
  /\ \A s \in done : IsInside(f, s) => HasForm(f, text, s)

InFile == {"altinstr", "parainstr", "smplocks", "copy"}

InCopy == {"mcount", "jumps", "fill", "done"}

BuiltInv ==
  /\ stage \in InFile => Built(file, elf, file.size, DoneSites)
  /\ stage \in InCopy => Built(file, copy, Len(Image(file)), DoneSites)

\* the maps know the sites that are done, and the targets of labels
MapsInv ==
  /\ stage \in {"jumps", "fill"} => file.isKernel
  /\ \A s \in DoneSites : IsInside(file, s) =>
       /\ s.by[1] = "locks" => s.at \in smpOffsets
       /\ s.by[1] = "jumpTable" => s.at \in DOMAIN jumpEntries
  /\ \A c \in DOMAIN jumpEntries :
       \E e \in file.jumpTable : c = e.code /\ jumpEntries[c] = e.target - (e.code + 5)

LoadInv == Inv /\ BuiltInv /\ MapsInv

-----------------------------------------------------------------------------
(* The sites of a file.                                                    *)

AltSite(n) == [at |-> file.alternatives[n].at, len |-> file.alternatives[n].len,
               by |-> <<"alternatives", n>>]
CallSite(n) == [at |-> file.patchSites[n].at, len |-> file.patchSites[n].len,
                by |-> <<"patchSites", n>>]
LockSite(n) == [at |-> file.locks[n], len |-> 1, by |-> <<"locks", n>>]
McountSite(n) == [at |-> file.mcounts[n], len |-> 5, by |-> <<"mcounts", n>>]
LabelSite(e) == [at |-> e.code, len |-> 5, by |-> <<"jumpTable", e>>]

LEMMA SiteKinds ==
  ASSUME NEW s
  PROVE  s \in SitesOf(file) <=>
           \/ \E n \in DOMAIN file.alternatives : s = AltSite(n)
           \/ \E n \in DOMAIN file.patchSites : s = CallSite(n)
           \/ \E n \in DOMAIN file.locks : s = LockSite(n)
           \/ \E n \in DOMAIN file.mcounts : s = McountSite(n)
           \/ \E e \in file.jumpTable : s = LabelSite(e)
BY Zenon DEF SitesOf, AltSite, CallSite, LockSite, McountSite, LabelSite

LEMMA SiteFields ==
  /\ \A n : AltSite(n).by[1] = "alternatives" /\ AltSite(n).by[2] = n
  /\ \A n : CallSite(n).by[1] = "patchSites" /\ CallSite(n).by[2] = n
  /\ \A n : LockSite(n).by[1] = "locks" /\ LockSite(n).by[2] = n
            /\ LockSite(n).at = file.locks[n] /\ LockSite(n).len = 1
  /\ \A n : McountSite(n).by[1] = "mcounts" /\ McountSite(n).by[2] = n
            /\ McountSite(n).at = file.mcounts[n] /\ McountSite(n).len = 5
  /\ \A e : LabelSite(e).by[1] = "jumpTable" /\ LabelSite(e).by[2] = e
            /\ LabelSite(e).at = e.code /\ LabelSite(e).len = 5
BY DEF AltSite, CallSite, LockSite, McountSite, LabelSite

LEMMA CallFields ==
  /\ \A n : AltSite(n).at = file.alternatives[n].at
            /\ AltSite(n).len = file.alternatives[n].len
  /\ \A n : CallSite(n).at = file.patchSites[n].at
            /\ CallSite(n).len = file.patchSites[n].len
BY DEF AltSite, CallSite

LEMMA TableTypes ==
  ASSUME file \in Files
  PROVE  /\ \A n \in DOMAIN file.alternatives :
              file.alternatives[n].at \in Nat /\ file.alternatives[n].len \in Nat
         /\ \A n \in DOMAIN file.patchSites :
              file.patchSites[n].at \in Nat /\ file.patchSites[n].len \in Nat
         /\ \A n \in DOMAIN file.locks : file.locks[n] \in Int
         /\ \A n \in DOMAIN file.mcounts : file.mcounts[n] \in Nat
         /\ \A e \in file.jumpTable : e.code \in Nat /\ e.target \in Nat
         /\ \A n \in DOMAIN file.guestTable : file.guestTable[n].code \in Nat
         /\ file.size \in Nat
<1> DEFINE A == [at : Nat, len : Nat, feature : STRING, repl : Seq(Byte), pointer : Nat]
           P == [at : Nat, len : 0..254, type : STRING, clobbers : SUBSET AnyClobbers]
           G == [code : Nat, target : Nat, key : Keys]
<1>1. /\ file.alternatives \in Seq(A)
      /\ file.patchSites \in Seq(P)
      /\ file.locks \in Seq(Int)
      /\ file.mcounts \in Seq(Nat)
      /\ file.guestTable \in Seq(G)
  BY FileAssumption
<1>1b. file.jumpTable \subseteq G /\ file.size \in Nat
  BY FileAssumption
<1>2. \A n \in DOMAIN file.alternatives : file.alternatives[n] \in A
  <2> HIDE DEF A
  <2> QED
    BY <1>1, LenProperties, ElementOfSeq
<1>3. \A n \in DOMAIN file.patchSites : file.patchSites[n] \in P
  <2> HIDE DEF P
  <2> QED
    BY <1>1, LenProperties, ElementOfSeq
<1>4. \A n \in DOMAIN file.guestTable : file.guestTable[n] \in G
  <2> HIDE DEF G
  <2> QED
    BY <1>1, LenProperties, ElementOfSeq
<1>5. /\ \A n \in DOMAIN file.locks : file.locks[n] \in Int
      /\ \A n \in DOMAIN file.mcounts : file.mcounts[n] \in Nat
  BY <1>1, LenProperties, ElementOfSeq
<1>6. \A n \in DOMAIN file.alternatives :
        file.alternatives[n].at \in Nat /\ file.alternatives[n].len \in Nat
  BY <1>2
<1>7. \A n \in DOMAIN file.patchSites :
        file.patchSites[n].at \in Nat /\ file.patchSites[n].len \in Nat
  BY <1>3
<1>8. \A n \in DOMAIN file.guestTable : file.guestTable[n].code \in Nat
  BY <1>4
<1>9. \A e \in file.jumpTable : e.code \in Nat /\ e.target \in Nat
  BY <1>1b
<1> QED
  BY <1>1b, <1>5, <1>6, <1>7, <1>8, <1>9

LEMMA SiteTypes ==
  ASSUME file \in Files, NEW s \in SitesOf(file)
  PROVE  s.at \in Int /\ s.len \in Nat
<1>1. CASE \E n \in DOMAIN file.alternatives : s = AltSite(n)
  BY <1>1, TableTypes, CallFields
<1>2. CASE \E n \in DOMAIN file.patchSites : s = CallSite(n)
  BY <1>2, TableTypes, CallFields
<1>3. CASE \E n \in DOMAIN file.locks : s = LockSite(n)
  BY <1>3, TableTypes, SiteFields
<1>4. CASE \E n \in DOMAIN file.mcounts : s = McountSite(n)
  BY <1>4, TableTypes, SiteFields
<1>5. CASE \E e \in file.jumpTable : s = LabelSite(e)
  BY <1>5, TableTypes, SiteFields
<1> QED
  BY <1>1, <1>2, <1>3, <1>4, <1>5, SiteKinds

\* .text and what follows it
LEMMA ImageFacts ==
  ASSUME file \in Files
  PROVE  /\ Image(file) \in Seq(Byte)
         /\ Len(Image(file)) \in Nat /\ Len(Image(file)) = file.size + Len(file.tail)
         /\ file.size <= Len(Image(file))
         /\ \A k \in 1..file.size : Image(file)[k] = file.text[k]
         /\ \A k \in (file.size + 1)..Len(Image(file)) :
              Image(file)[k] = file.tail[k - file.size]
<1> DEFINE body == SubSeq(file.text, 1, file.size)
<1>1. /\ file.size \in Nat /\ file.text \in Seq(Byte) /\ Len(file.text) = file.size + 1
      /\ file.tail \in Seq(Byte) /\ Len(file.tail) \in Nat
  BY FileAssumption, LenProperties
<1>2. /\ body \in Seq(Byte) /\ Len(body) = file.size
      /\ \A k \in 1..file.size : body[k] = file.text[k]
  <2>1. \A k \in 1..file.size : file.text[k] \in Byte
    BY <1>1, ElementOfSeq
  <2>2. /\ body \in Seq(Byte)
        /\ Len(body) = IF 1 <= file.size THEN file.size - 1 + 1 ELSE 0
        /\ \A k \in 1..file.size - 1 + 1 : body[k] = file.text[1 + k - 1]
    BY <1>1, <2>1, SubSeqProperties
  <2> QED
    BY <1>1, <2>2
<1>3. Image(file) = body \o file.tail
  BY DEF Image
<1> HIDE DEF body
<1> DEFINE content == body \o file.tail
<1>4. /\ content \in Seq(Byte) /\ Len(content) = Len(body) + Len(file.tail)
      /\ \A k \in 1..Len(body) + Len(file.tail) :
           content[k] = IF k <= Len(body) THEN body[k] ELSE file.tail[k - Len(body)]
  BY <1>1, <1>2, ConcatProperties
<1> HIDE DEF content
<1>5. Image(file) = content
  BY <1>3 DEF content
<1> DEFINE n == file.size
           rest == Len(file.tail)
<1>6. n \in Nat /\ rest \in Nat /\ Len(body) = n /\ Len(content) = n + rest
  BY <1>1, <1>2, <1>4
<1> HIDE DEF n, rest
<1>7. Len(content) \in Nat /\ n <= Len(content)
  BY <1>6
<1>8. ASSUME NEW k \in 1..n PROVE content[k] = file.text[k]
  <2>1. k \in 1..(n + rest) /\ k <= n
    BY <1>6
  <2>2. content[k] = body[k]
    BY <1>4, <1>6, <2>1 DEF rest
  <2> QED
    BY <1>2, <2>2 DEF n
<1>9. ASSUME NEW k \in (n + 1)..(n + rest) PROVE content[k] = file.tail[k - n]
  <2>1. k \in 1..(n + rest) /\ ~(k <= n)
    BY <1>6
  <2> QED
    BY <1>4, <1>6, <2>1 DEF rest
<1>10. /\ \A k \in 1..n : content[k] = file.text[k]
       /\ \A k \in (n + 1)..Len(content) : content[k] = file.tail[k - n]
  BY <1>6, <1>8, <1>9
<1> QED
  BY <1>4, <1>5, <1>6, <1>7, <1>10 DEF n, rest

\* what is assumed of the guest
LEMMA GuestFacts ==
  ASSUME file \in Files
  PROVE  /\ \A s, t \in SitesOf(file) : s # t => Place(s) \cap Place(t) = {}
         /\ DOMAIN file.mem = 1..Len(Image(file))
         /\ \A s \in SitesOf(file) :
              \/ Place(s) \cap DOMAIN file.mem = {}
              \/ /\ IsInside(file, s)
                 /\ \E form \in GuestForms(file, s) : HasAt(file.mem, s.at, form)
         /\ \A k \in DOMAIN file.mem :
              (\A s \in SitesOf(file) : k \notin Place(s)) => file.mem[k] = Image(file)[k]
BY GuestAssumption

LEMMA InsideBounds ==
  ASSUME file \in Files, NEW s \in SitesOf(file), IsInside(file, s)
  PROVE  /\ s.at >= 0
         /\ s.at + s.len <= Len(Image(file))
         /\ s.by[1] # "mcounts" => s.at + s.len <= file.size
BY ImageFacts, SiteTypes, TableTypes DEF IsInside

\* a site in the text that is not patched
LEMMA UnpatchedBytes ==
  ASSUME file \in Files, NEW s \in SitesOf(file), IsInside(file, s)
  PROVE  /\ DOMAIN Unpatched(file, s) = 1..s.len
         /\ \A k \in 1..s.len : Unpatched(file, s)[k] = Image(file)[s.at + k]
<1> DEFINE form == Unpatched(file, s)
<1>1. s.at \in Int /\ s.at >= 0 /\ s.len \in Nat /\ s.at + s.len <= Len(Image(file))
  BY SiteTypes, InsideBounds
<1>2. Image(file) \in Seq(Byte) /\ Len(Image(file)) \in Nat
  BY ImageFacts
<1>3. \A k \in (s.at + 1)..(s.at + s.len) : Image(file)[k] \in Byte
  <2>1. \A k \in (s.at + 1)..(s.at + s.len) : k \in 1..Len(Image(file))
    BY <1>1, <1>2
  <2> QED
    BY <1>2, <2>1, ElementOfSeq
<1>4. /\ form \in Seq(Byte) /\ Len(form) = s.len
      /\ \A k \in 1..s.len : form[k] = Image(file)[s.at + k]
  <2> DEFINE at == s.at
             len == s.len
             content == Image(file)
  <2>1. at \in Int /\ len \in Nat /\ \A k \in (at + 1)..(at + len) : content[k] \in Byte
    BY <1>1, <1>3
  <2>2. form = SubSeq(content, at + 1, at + len)
    BY DEF Unpatched
  <2> HIDE DEF form, at, len, content
  <2>3. /\ form \in Seq(Byte) /\ Len(form) = len
        /\ \A k \in 1..len : form[k] = content[at + k]
    BY <2>1, <2>2, PieceType
  <2> QED
    BY <2>3 DEF at, len, content
<1> HIDE DEF form
<1>5. DOMAIN form = 1..s.len
  BY <1>4, LenProperties
<1> QED
  BY <1>4, <1>5 DEF form

-----------------------------------------------------------------------------
(* One more site is done.                                                  *)

LEMMA WriteBuilt ==
  ASSUME file \in Files, NEW limit \in Nat, limit <= Len(Image(file)),
         NEW text, NEW done, done \subseteq SitesOf(file), Built(file, text, limit, done),
         NEW s \in SitesOf(file), NEW bytes, DOMAIN bytes = 1..s.len,
         IsInside(file, s) => s.at + s.len <= limit /\ bytes \in LoaderForms(file, s)
  PROVE  Built(file, Write(text, s.at, bytes), limit, done \cup {s})
<1> DEFINE new == Write(text, s.at, bytes)
<1>1. DOMAIN new = DOMAIN text /\ 1..limit \subseteq DOMAIN new
  BY DEF Write, Built
<1>2. /\ s.at \in Int /\ s.len \in Nat
      /\ \A k \in Int : k - s.at \in DOMAIN bytes <=> k \in Place(s)
  BY SiteTypes DEF Place
<1>3. /\ \A k \in DOMAIN text : k \in Int /\ k \notin Place(s) => new[k] = text[k]
      /\ \A k \in DOMAIN text : k \in Int /\ k \in Place(s) => new[k] = bytes[k - s.at]
  BY <1>2 DEF Write
<1>4. ASSUME NEW k \in 1..limit, \A t \in done \cup {s} : k \notin Place(t)
      PROVE  new[k] = Image(file)[k]
  BY <1>3, <1>4 DEF Built
<1>5. ASSUME IsInside(file, s) PROVE HasForm(file, new, s)
  <2>1. ASSUME NEW k \in 1..s.len PROVE s.at + k \in DOMAIN new /\ new[s.at + k] = bytes[k]
    <3>1. s.at >= 0 /\ s.at + s.len <= limit
      BY <1>5, InsideBounds
    <3>2. s.at + k \in 1..limit /\ s.at + k \in Place(s) /\ s.at + k - s.at = k
      BY <1>2, <3>1 DEF Place
    <3> HIDE DEF new
    <3>3. s.at + k \in DOMAIN text /\ s.at + k \in DOMAIN new /\ s.at + k \in Int
      BY <1>1, <1>2, <3>2
    <3> DEFINE pos == s.at + k
    <3>4. pos - s.at = k
      BY <1>2
    <3> HIDE DEF pos
    <3>5. new[pos] = bytes[pos - s.at]
      BY <1>3, <3>2, <3>3 DEF pos
    <3>6. new[pos] = bytes[k]
      BY <3>4, <3>5
    <3> QED
      BY <3>3, <3>6 DEF pos
  <2>2. HasAt(new, s.at, bytes)
    BY <2>1 DEF HasAt
  <2> QED
    BY <1>5, <2>2 DEF HasForm
<1>6. ASSUME NEW t \in done, t # s, IsInside(file, t) PROVE HasForm(file, new, t)
  <2>1. PICK form \in LoaderForms(file, t) : DOMAIN form = 1..t.len /\ HasAt(text, t.at, form)
    BY <1>6 DEF Built, HasForm
  <2>2. t.at \in Int /\ t.len \in Nat /\ Place(t) \cap Place(s) = {}
    BY <1>6, SiteTypes, GuestFacts
  <2>3. ASSUME NEW k \in 1..t.len PROVE t.at + k \in DOMAIN new /\ new[t.at + k] = form[k]
    <3>1. t.at + k \in DOMAIN text /\ text[t.at + k] = form[k]
      BY <2>1 DEF HasAt
    <3>2. t.at + k \in Int /\ t.at + k \notin Place(s)
      BY <2>2 DEF Place
    <3> HIDE DEF new
    <3> QED
      BY <1>1, <1>2, <1>3, <3>1, <3>2
  <2>4. HasAt(new, t.at, form)
    BY <2>1, <2>3 DEF HasAt
  <2> QED
    BY <2>1, <2>4 DEF HasForm
<1> HIDE DEF new
<1> QED
  BY <1>1, <1>4, <1>5, <1>6 DEF Built, new

\* nothing is written at a site that keeps its bytes, or that is elsewhere
LEMMA KeepBuilt ==
  ASSUME file \in Files, NEW limit \in Nat, limit <= Len(Image(file)),
         NEW text, NEW done, done \subseteq SitesOf(file), Built(file, text, limit, done),
         NEW s \in SitesOf(file), s \notin done,
         IsInside(file, s) => s.at + s.len <= limit /\ Unpatched(file, s) \in LoaderForms(file, s)
  PROVE  Built(file, text, limit, done \cup {s})
<1>1. ASSUME IsInside(file, s) PROVE HasForm(file, text, s)
  <2> DEFINE form == Unpatched(file, s)
  <2>1. s.at \in Int /\ s.at >= 0 /\ s.len \in Nat /\ s.at + s.len <= limit
    BY <1>1, SiteTypes, InsideBounds
  <2>4. DOMAIN form = 1..s.len /\ \A k \in 1..s.len : form[k] = Image(file)[s.at + k]
    BY <1>1, UnpatchedBytes
  <2> HIDE DEF form
  <2>6. ASSUME NEW k \in 1..s.len
        PROVE  s.at + k \in DOMAIN text /\ text[s.at + k] = form[k]
    <3>1. s.at + k \in 1..limit /\ s.at + k \in Place(s)
      BY <2>1 DEF Place
    <3>2. \A t \in done : s.at + k \notin Place(t)
      BY <3>1, GuestFacts
    <3>3. text[s.at + k] = Image(file)[s.at + k]
      BY <3>1, <3>2 DEF Built
    <3> QED
      BY <2>4, <3>1, <3>3 DEF Built
  <2>7. HasAt(text, s.at, form)
    BY <2>4, <2>6 DEF HasAt
  <2> QED
    BY <1>1, <2>4, <2>7 DEF HasForm, form
<1> QED
  BY <1>1 DEF Built

-----------------------------------------------------------------------------
(* Which sites are done.                                                   *)

LEMMA SiteBy ==
  ASSUME file \in Files, NEW s \in SitesOf(file)
  PROVE  LET n == s.by[2]
         IN /\ s.by[1] \in {"alternatives", "patchSites", "locks", "mcounts", "jumpTable"}
            /\ s.by[1] = "alternatives" =>
                 s = AltSite(n) /\ n \in DOMAIN file.alternatives /\ n \in Nat \ {0}
            /\ s.by[1] = "patchSites" =>
                 s = CallSite(n) /\ n \in DOMAIN file.patchSites /\ n \in Nat \ {0}
            /\ s.by[1] = "locks" =>
                 s = LockSite(n) /\ n \in DOMAIN file.locks /\ n \in Nat \ {0}
            /\ s.by[1] = "mcounts" =>
                 s = McountSite(n) /\ n \in DOMAIN file.mcounts /\ n \in Nat \ {0}
            /\ s.by[1] = "jumpTable" => s = LabelSite(n) /\ n \in file.jumpTable
<1>1. /\ DOMAIN file.alternatives \subseteq Nat \ {0}
      /\ DOMAIN file.patchSites \subseteq Nat \ {0}
      /\ DOMAIN file.locks \subseteq Nat \ {0}
      /\ DOMAIN file.mcounts \subseteq Nat \ {0}
  <2> DEFINE A == [at : Nat, len : Nat, feature : STRING, repl : Seq(Byte),
                   pointer : Nat]
             P == [at : Nat, len : 0..254, type : STRING, clobbers : SUBSET AnyClobbers]
  <2>1. /\ file.alternatives \in Seq(A) /\ file.patchSites \in Seq(P)
        /\ file.locks \in Seq(Int) /\ file.mcounts \in Seq(Nat)
    BY FileAssumption
  <2> HIDE DEF A, P
  <2> QED
    BY <2>1, LenProperties
<1>2. CASE \E n \in DOMAIN file.alternatives : s = AltSite(n)
  BY <1>1, <1>2, SiteFields
<1>3. CASE \E n \in DOMAIN file.patchSites : s = CallSite(n)
  BY <1>1, <1>3, SiteFields
<1>4. CASE \E n \in DOMAIN file.locks : s = LockSite(n)
  BY <1>1, <1>4, SiteFields
<1>5. CASE \E n \in DOMAIN file.mcounts : s = McountSite(n)
  BY <1>1, <1>5, SiteFields
<1>6. CASE \E e \in file.jumpTable : s = LabelSite(e)
  BY <1>6, SiteFields
<1> QED
  BY <1>2, <1>3, <1>4, <1>5, <1>6, SiteKinds

\* a step of a loop over a table of the file
LEMMA EntryDone ==
  ASSUME Inv, NEW kind, NEW st,
         \/ kind = "alternatives" /\ st = "altinstr"
         \/ kind = "patchSites" /\ st = "parainstr"
         \/ kind = "locks" /\ st = "smplocks"
         \/ kind = "mcounts" /\ st = "mcount",
         Entry(st), UNCHANGED <<file, stage>>,
         NEW s \in SitesOf(file), s.by[1] = kind, s.by[2] = next
  PROVE  s \notin DoneSites /\ DoneSites' = DoneSites \cup {s}
<1>1. file \in Files /\ stage = st /\ next' = next + 1 /\ next \in Nat
  <2>1. next \in 1..Len(Entries)
    BY EntryStep
  <2>2. Len(Entries) \in Nat
    BY EntriesType DEF Inv
  <2> QED
    BY <2>1, <2>2 DEF Inv, Entry
<1>2. ~SiteDone(s)
  BY <1>1 DEF SiteDone
<1>3. ASSUME NEW t \in SitesOf(file)
      PROVE  SiteDone(t)' <=> SiteDone(t) \/ t = s
  <2>1. t.by[1] = kind /\ t.by[2] = next <=> t = s
    BY <1>1, SiteBy
  <2>2. t.by[1] \in {"alternatives", "patchSites", "locks", "mcounts"} => t.by[2] \in Nat
    BY <1>1, SiteBy
  <2>3. t.by[1] = kind => (t.by[2] < next' <=> t.by[2] < next \/ t.by[2] = next)
    BY <1>1, <2>2
  <2> QED
    BY <1>1, <2>1, <2>3 DEF SiteDone
<1> QED
  BY <1>2, <1>3 DEF DoneSites

\* a step of the loop over the guest's table of jump labels
LEMMA LabelsDone ==
  ASSUME Inv, Entry("jumps"), UNCHANGED <<file, stage>>, file.isKernel
  PROVE  DoneSites' = DoneSites \cup
           {s \in SitesOf(file) : s.by[1] = "jumpTable"
                                    /\ s.by[2].code = file.guestTable[next].code}
<1>1. /\ file \in Files /\ stage = "jumps" /\ next' = next + 1
      /\ next \in Nat /\ next \in DOMAIN file.guestTable
      /\ DOMAIN file.guestTable \subseteq Nat
  <2>1. next \in 1..Len(Entries)
    BY EntryStep
  <2>2. Len(Entries) \in Nat /\ DOMAIN Entries = 1..Len(Entries)
    BY EntriesType DEF Inv
  <2>3. Entries = file.guestTable
    BY DEF Entry, Entries
  <2> QED
    BY <2>1, <2>2, <2>3 DEF Inv, Entry
<1>2. ASSUME NEW t \in SitesOf(file)
      PROVE  SiteDone(t)' <=>
               \/ SiteDone(t)
               \/ t.by[1] = "jumpTable" /\ t.by[2].code = file.guestTable[next].code
  <2>1. \A m \in DOMAIN file.guestTable : m < next' <=> m < next \/ m = next
    BY <1>1
  <2> QED
    BY <1>1, <2>1 DEF SiteDone
<1> QED
  BY <1>2 DEF DoneSites

\* no other step does a site
LEMMA SameDone ==
  ASSUME UNCHANGED <<file, stage, next>>
  PROVE  DoneSites' = DoneSites
BY DEF DoneSites, SiteDone

LEMMA LoopDone ==
  ASSUME Inv, LoopEnds \/ CopyText \/ Fill,
         stage = "jumps" => file.isKernel
  PROVE  DoneSites' = DoneSites
<1>1. file \in Files /\ file' = file
  BY DEF Inv, LoopEnds, CopyText, Fill
<1>2. /\ \/ stage \in {"altinstr", "parainstr", "smplocks", "mcount", "jumps"} /\ next > Len(Entries)
         \/ stage \in {"copy", "fill"}
      /\ \/ stage = "altinstr" /\ stage' = "parainstr" /\ next' = 1
         \/ stage = "parainstr" /\ stage' = "smplocks" /\ next' = 1
         \/ stage = "smplocks" /\ stage' = "copy"
         \/ stage = "copy" /\ stage' = "mcount" /\ next' = 1
         \/ stage = "mcount" /\ file.isKernel /\ stage' = "jumps" /\ next' = 1
         \/ stage = "mcount" /\ ~file.isKernel /\ stage' = "done"
         \/ stage = "jumps" /\ stage' = "fill"
         \/ stage = "fill" /\ stage' = "done"
  BY DEF LoopEnds, CopyText, Fill
<1>3. Len(Entries) \in Nat /\ DOMAIN Entries = 1..Len(Entries) /\ next \in Int
  BY <1>1, EntriesType DEF Inv, TypeOK
<1>4. stage \notin {"copy", "fill"} => \A n \in DOMAIN Entries : n < next /\ n \in Nat /\ n >= 1
  BY <1>2, <1>3
<1>5. DOMAIN file.guestTable \subseteq Nat \ {0}
  BY <1>1, FileAssumption, LenProperties
<1>6. ASSUME NEW s \in SitesOf(file) PROVE SiteDone(s)' <=> SiteDone(s)
  <2>1. /\ s.by[1] = "alternatives" => s.by[2] \in DOMAIN file.alternatives /\ s.by[2] \in Nat \ {0}
        /\ s.by[1] = "patchSites" => s.by[2] \in DOMAIN file.patchSites /\ s.by[2] \in Nat \ {0}
        /\ s.by[1] = "locks" => s.by[2] \in DOMAIN file.locks /\ s.by[2] \in Nat \ {0}
        /\ s.by[1] = "mcounts" => s.by[2] \in DOMAIN file.mcounts /\ s.by[2] \in Nat \ {0}
    BY <1>1, SiteBy
  <2>2. CASE stage = "altinstr"
    BY <1>1, <1>2, <1>4, <2>1, <2>2 DEF SiteDone, Entries
  <2>3. CASE stage = "parainstr"
    BY <1>1, <1>2, <1>4, <2>1, <2>3 DEF SiteDone, Entries
  <2>4. CASE stage = "smplocks"
    BY <1>1, <1>2, <1>4, <2>1, <2>4 DEF SiteDone, Entries
  <2>5. CASE stage = "copy"
    BY <1>1, <1>2, <2>1, <2>5 DEF SiteDone
  <2>6. CASE stage = "mcount"
    BY <1>1, <1>2, <1>4, <1>5, <2>1, <2>6 DEF SiteDone, Entries
  <2>7. CASE stage = "jumps"
    BY <1>1, <1>2, <1>4, <2>1, <2>7 DEF SiteDone, Entries
  <2>8. CASE stage = "fill"
    BY <1>1, <1>2, <2>1, <2>8 DEF SiteDone
  <2> QED
    BY <1>2, <2>2, <2>3, <2>4, <2>5, <2>6, <2>7, <2>8
<1> QED
  BY <1>1, <1>6 DEF DoneSites

-----------------------------------------------------------------------------
(* The steps.                                                              *)

LEMMA BuiltStep ==
  ASSUME UNCHANGED file, UNCHANGED stage,
         stage \in InFile => Built(file, elf', file.size, DoneSites'),
         stage \in InCopy => Built(file, copy', Len(Image(file)), DoneSites')
  PROVE  BuiltInv'
BY DEF BuiltInv, InFile, InCopy

LEMMA MapsKept ==
  ASSUME MapsInv, UNCHANGED <<file, smpOffsets, jumpEntries>>,
         stage' \in {"jumps", "fill"} => file.isKernel,
         \A s \in DoneSites' : s \in DoneSites \/ s.by[1] \notin {"locks", "jumpTable"}
  PROVE  MapsInv'
BY DEF MapsInv

LEMMA DoneAreSites == DoneSites \subseteq SitesOf(file)
BY DEF DoneSites

\* the entry that a loop is at
LEMMA AtEntry ==
  ASSUME Inv, NEW s, Entry(s), UNCHANGED <<file, stage>>
  PROVE  /\ file \in Files /\ stage = s /\ next \in DOMAIN Entries
BY EntryStep, EntriesType DEF Inv, Entry

LEMMA AltinstrLoads == ASSUME LoadInv, ApplyAltinstr PROVE (BuiltInv /\ MapsInv)'
<1> DEFINE a == file.alternatives[next]
           s == AltSite(next)
           bytes == Padded(GuestReplacement(file, a), a.len)
<1>1. /\ Entry("altinstr") /\ Inv
      /\ UNCHANGED <<file, stage, copy, smpOffsets, jumpEntries>>
      /\ elf' = IF a.feature \in file.features
                THEN Write(elf, a.at,
                       (IF Len(a.repl) = 5 /\ a.repl[1] = Op("e8")
                        THEN Jump("e8", MovedOperand(a)) ELSE a.repl)
                       \o Nops(a.len - Len(a.repl)))
                ELSE elf
  BY DEF ApplyAltinstr, LoadInv
<1>2. file \in Files /\ stage = "altinstr" /\ next \in DOMAIN file.alternatives
  BY <1>1, AtEntry DEF Entries
<1>3. /\ elf' = IF a.feature \in file.features THEN Write(elf, a.at, bytes) ELSE elf
      /\ DOMAIN bytes = 1..a.len
  <2> HIDE DEF bytes
  <2>1. /\ elf' = IF a.feature \in file.features THEN Write(elf, a.at, bytes) ELSE elf
        /\ bytes \in Seq(Byte) /\ Len(bytes) = a.len
    BY <1>1, <1>2, AltBytes DEF bytes
  <2> QED
    BY <2>1, LenProperties
<1>4. /\ s \in SitesOf(file) /\ s.by[1] = "alternatives" /\ s.by[2] = next
      /\ s.at = a.at /\ s.len = a.len
  BY <1>2, SiteKinds, SiteFields, CallFields
<1>5. LoaderForms(file, s) =
        {IF a.feature \in file.features THEN bytes ELSE Unpatched(file, s)}
  <2> HIDE DEF s, bytes
  <2> QED
    BY <1>4 DEF LoaderForms, GuestForms, bytes
<1> HIDE DEF s, bytes, a
<1>6. s \notin DoneSites /\ DoneSites' = DoneSites \cup {s}
  BY <1>1, <1>4, EntryDone
<1>7. /\ Built(file, elf, file.size, DoneSites)
      /\ file.size \in Nat /\ file.size <= Len(Image(file))
  BY <1>2, ImageFacts, TableTypes DEF LoadInv, BuiltInv, InFile
<1>8. IsInside(file, s) => s.at + s.len <= file.size
  BY <1>2, <1>4, InsideBounds
<1>9. Built(file, elf', file.size, DoneSites \cup {s})
  <2>1. CASE a.feature \in file.features
    BY <1>2, <1>3, <1>4, <1>5, <1>7, <1>8, <2>1, WriteBuilt, DoneAreSites
  <2>2. CASE a.feature \notin file.features
    BY <1>2, <1>3, <1>4, <1>5, <1>6, <1>7, <1>8, <2>2, KeepBuilt, DoneAreSites
  <2> QED
    BY <2>1, <2>2
<1>10. BuiltInv'
  BY <1>1, <1>2, <1>6, <1>9, BuiltStep DEF InCopy
<1>11. MapsInv'
  BY <1>1, <1>2, <1>4, <1>6, MapsKept DEF LoadInv
<1> QED
  BY <1>10, <1>11

\* the paravirt patcher does what the guest's kernel does
LEMMA CallInsns ==
  ASSUME file \in Files, NEW n \in DOMAIN file.patchSites, NEW region,
         Len(region) = file.patchSites[n].len
  PROVE  LET p == file.patchSites[n]
         IN ParavirtNativePatch(p.type, p.clobbers, region, file.memindex + p.at)
              = GuestCall(file, p, region)
<1> DEFINE p == file.patchSites[n]
           addr == file.memindex + p.at
           used == ParavirtNativePatch(p.type, p.clobbers, region, addr)
           delta == file.ops[p.type].address - (file.memindex + p.at + 5)
<1>1. p.len \in Nat /\ p.at \in Nat /\ file.memindex \in Nat
  BY TableTypes, FileAssumption
<1>2. ASSUME p.type \in DOMAIN file.ops
      PROVE  /\ file.ops[p.type].is \in {"null", "nop", "ident32", "ident64", "function"}
             /\ file.ops[p.type].address \in Nat
  BY <1>2, FileAssumption
<1>3. CASE p.type \in NativeSites
  <2>1. used = PatchInsns(region, Insns[p.type])
    BY <1>3 DEF ParavirtNativePatch
  <2>2. GuestCall(file, p, region) =
          IF Len(Insns[p.type]) > p.len THEN region ELSE Insns[p.type]
    BY <1>3 DEF GuestCall
  <2> QED
    BY <2>1, <2>2 DEF PatchInsns
<1>4. CASE p.type \notin NativeSites /\ CallDestination(p.type).is \in {"null", "nop"}
  <2>1. used = <<>>
    BY <1>4 DEF ParavirtNativePatch, ParavirtPatchDefault
  <2>2. GuestCall(file, p, region) = IF Len(<<>>) > p.len THEN region ELSE <<>>
    BY <1>4 DEF GuestCall, CallDestination
  <2>3. ~(Len(<<>>) > p.len)
    BY <1>1
  <2> QED
    BY <2>1, <2>2, <2>3
<1>5. CASE p.type \notin NativeSites /\ CallDestination(p.type).is = "ident32"
  <2>1. used = PatchInsns(region, Insns["mov32"])
    BY <1>5 DEF ParavirtNativePatch, ParavirtPatchDefault
  <2>2. GuestCall(file, p, region) =
          IF Len(Insns["mov32"]) > p.len THEN region ELSE Insns["mov32"]
    BY <1>5 DEF GuestCall, CallDestination
  <2> QED
    BY <2>1, <2>2 DEF PatchInsns
<1>6. CASE p.type \notin NativeSites /\ CallDestination(p.type).is = "ident64"
  <2>1. used = PatchInsns(region, Insns["mov64"])
    BY <1>6 DEF ParavirtNativePatch, ParavirtPatchDefault
  <2>2. GuestCall(file, p, region) =
          IF Len(Insns["mov64"]) > p.len THEN region ELSE Insns["mov64"]
    BY <1>6 DEF GuestCall, CallDestination
  <2> QED
    BY <2>1, <2>2 DEF PatchInsns
<1>7. CASE p.type \notin NativeSites /\ CallDestination(p.type).is = "function"
  <2>1. /\ p.type \in DOMAIN file.ops /\ file.ops[p.type].is = "function"
        /\ CallDestination(p.type).address = file.ops[p.type].address
    BY <1>7 DEF CallDestination
  <2>2. delta \in Int /\ file.ops[p.type].address - (addr + 5) = delta
    BY <1>1, <1>2, <2>1
  <2> HIDE DEF delta
  <2>3. Len(Jump("e9", delta)) = 5 /\ Len(Jump("e8", delta)) = 5
    BY <2>2, JumpType
  <2> DEFINE len == p.len
  <2>0. Len(region) = len /\ len \in Nat /\ (5 > len <=> Len(region) < 5)
    BY <1>1
  <2>4. CASE p.type \in JumpSites
    <3>1. used = PatchJmp(region, file.ops[p.type].address, addr)
      BY <1>7, <2>1, <2>4 DEF ParavirtNativePatch, ParavirtPatchDefault
    <3>2. used = IF Len(region) < 5 THEN region ELSE Jump("e9", delta)
      BY <2>2, <3>1 DEF PatchJmp
    <3>3. GuestCall(file, p, region) =
            IF Len(Jump("e9", delta)) > len THEN region ELSE Jump("e9", delta)
      BY <1>7, <2>1, <2>4 DEF GuestCall, delta
    <3> DEFINE jmp == Jump("e9", delta)
    <3> HIDE DEF p, used, len, jmp
    <3>4. Len(jmp) = 5
      BY <2>3 DEF jmp
    <3>5. used = IF Len(region) < 5 THEN region ELSE jmp
      BY <3>2 DEF jmp
    <3>6. GuestCall(file, p, region) = IF Len(jmp) > len THEN region ELSE jmp
      BY <3>3 DEF jmp
    <3>7. used = GuestCall(file, p, region)
      BY <2>0, <3>4, <3>5, <3>6
    <3> QED
      BY <3>7 DEF p, used
  <2>5. CASE p.type \notin JumpSites
    <3>1. used = PatchCall(region, file.ops[p.type].address, addr, p.clobbers)
      BY <1>7, <2>1, <2>5 DEF ParavirtNativePatch, ParavirtPatchDefault
    <3>2. used = IF Len(region) < 5 \/ ~(AnyClobbers \subseteq p.clobbers)
                 THEN region ELSE Jump("e8", delta)
      BY <2>2, <3>1 DEF PatchCall
    <3>3. GuestCall(file, p, region) =
            IF Len(Jump("e8", delta)) > len \/ ~(AnyClobbers \subseteq p.clobbers)
            THEN region ELSE Jump("e8", delta)
      BY <1>7, <2>1, <2>5 DEF GuestCall, delta
    <3> DEFINE call == Jump("e8", delta)
               any == AnyClobbers \subseteq p.clobbers
    <3>4. Len(call) = 5
      BY <2>3
    <3>5. used = IF Len(region) < 5 \/ ~any THEN region ELSE call
      BY <3>2
    <3>6. GuestCall(file, p, region) = IF Len(call) > len \/ ~any THEN region ELSE call
      BY <3>3
    <3> HIDE DEF p, used, len, call, any
    <3>7. used = GuestCall(file, p, region)
      BY <2>0, <3>4, <3>5, <3>6
    <3> QED
      BY <3>7 DEF p, used
  <2> QED
    BY <2>4, <2>5
<1>8. CallDestination(p.type).is \in {"null", "nop", "ident32", "ident64", "function"}
  BY <1>2 DEF CallDestination
<1> QED
  BY <1>3, <1>4, <1>5, <1>6, <1>7, <1>8

LEMMA ParainstrLoads == ASSUME LoadInv, ApplyParainstr PROVE (BuiltInv /\ MapsInv)'
<1> DEFINE p == file.patchSites[next]
           s == CallSite(next)
           region == SubSeq(elf, p.at + 1, p.at + p.len)
           used == ParavirtNativePatch(p.type, p.clobbers, region, file.memindex + p.at)
           bytes == used \o Nops(p.len - Len(used))
<1>1. /\ Entry("parainstr") /\ Inv
      /\ UNCHANGED <<file, stage, copy, smpOffsets, jumpEntries>>
      /\ elf' = Write(elf, p.at, bytes)
  BY DEF ApplyParainstr, LoadInv
<1>2. file \in Files /\ stage = "parainstr" /\ next \in DOMAIN file.patchSites
  BY <1>1, AtEntry DEF Entries
<1>3. p.at \in Nat /\ p.len \in Nat /\ Len(region) = p.len /\ DOMAIN bytes = 1..p.len
  <2> HIDE DEF p
  <2>1. /\ p.at \in Nat /\ p.len \in Nat /\ Len(region) = p.len
        /\ \E S : bytes \in Seq(S) /\ Len(bytes) = p.len
    BY <1>1, <1>2, CallBytes DEF p
  <2> HIDE DEF bytes, region
  <2> QED
    BY <2>1, LenProperties
<1>4. /\ s \in SitesOf(file) /\ s.by[1] = "patchSites" /\ s.by[2] = next
      /\ s.at = p.at /\ s.len = p.len
  BY <1>2, SiteKinds, SiteFields, CallFields
<1>5. used = GuestCall(file, p, region)
  BY <1>2, <1>3, CallInsns
<1> HIDE DEF s, p, used, region
<1>6. s \notin DoneSites /\ DoneSites' = DoneSites \cup {s}
  BY <1>1, <1>4, EntryDone
<1>7. /\ Built(file, elf, file.size, DoneSites)
      /\ file.size \in Nat /\ file.size <= Len(Image(file))
  BY <1>2, ImageFacts, TableTypes DEF LoadInv, BuiltInv, InFile
<1>8. ASSUME IsInside(file, s)
      PROVE  s.at + s.len <= file.size /\ bytes \in LoaderForms(file, s)
  <2>1. s.at + s.len <= file.size
    BY <1>2, <1>4, <1>8, InsideBounds
  <2>2. ASSUME NEW k \in (p.at + 1)..(p.at + p.len)
        PROVE  elf[k] = Image(file)[k] /\ Image(file)[k] \in Byte
    <3>1. k \in 1..file.size /\ k \in 1..Len(Image(file)) /\ k \in Place(s)
      BY <1>2, <1>3, <1>4, <1>7, <2>1, ImageFacts DEF Place
    <3>2. \A t \in DoneSites : k \notin Place(t)
      BY <1>2, <1>4, <1>6, <3>1, GuestFacts, DoneAreSites
    <3> QED
      BY <1>2, <1>7, <3>1, <3>2, ImageFacts, ElementOfSeq DEF Built
  <2>21. /\ \A k \in (p.at + 1)..(p.at + p.len) : elf[k] \in Byte
         /\ \A k \in (p.at + 1)..(p.at + p.len) : Image(file)[k] \in Byte
    BY <2>2
  <2>22. p.at \in Int /\ p.len \in Nat
    BY <1>3
  <2>3. /\ region \in Seq(Byte)
        /\ \A k \in 1..p.len : region[k] = elf[p.at + k]
    BY <2>21, <2>22, PieceType DEF region
  <2>4. /\ Unpatched(file, s) \in Seq(Byte) /\ Len(Unpatched(file, s)) = p.len
        /\ \A k \in 1..p.len : Unpatched(file, s)[k] = Image(file)[p.at + k]
    <3> DEFINE at == p.at
               len == p.len
               content == Image(file)
    <3>1. at \in Int /\ len \in Nat /\ \A k \in (at + 1)..(at + len) : content[k] \in Byte
      BY <2>21, <2>22
    <3>2. Unpatched(file, s) = SubSeq(content, at + 1, at + len)
      BY <1>4 DEF Unpatched
    <3> HIDE DEF at, len, content
    <3>3. /\ Unpatched(file, s) \in Seq(Byte) /\ Len(Unpatched(file, s)) = len
          /\ \A k \in 1..len : Unpatched(file, s)[k] = content[at + k]
      BY <3>1, <3>2, PieceType
    <3> QED
      BY <3>3 DEF at, len, content
  <2>5. \A k \in 1..p.len : region[k] = Unpatched(file, s)[k]
    <3>1. \A k \in 1..p.len : p.at + k \in (p.at + 1)..(p.at + p.len)
      BY <1>3
    <3> QED
      BY <2>2, <2>3, <2>4, <3>1
  <2>6. region = Unpatched(file, s)
    BY <1>3, <2>3, <2>4, <2>5, SeqEqual
  <2>7. bytes = Padded(GuestCall(file, p, Unpatched(file, s)), s.len)
    BY <1>4, <1>5, <2>6 DEF Padded
  <2> HIDE DEF bytes
  <2>8. LoaderForms(file, s) = {Padded(GuestCall(file, p, Unpatched(file, s)), s.len)}
    BY <1>4 DEF LoaderForms, GuestForms, p
  <2> QED
    BY <2>1, <2>7, <2>8
<1> HIDE DEF bytes
<1>9. Built(file, elf', file.size, DoneSites \cup {s})
  BY <1>1, <1>2, <1>3, <1>4, <1>7, <1>8, WriteBuilt, DoneAreSites
<1>10. BuiltInv'
  BY <1>1, <1>2, <1>6, <1>9, BuiltStep DEF InCopy
<1>11. MapsInv'
  BY <1>1, <1>2, <1>4, <1>6, MapsKept DEF LoadInv
<1> QED
  BY <1>10, <1>11

\* a text that begins in the same way, and goes on like the file
LEMMA LongerBuilt ==
  ASSUME file \in Files, NEW limit \in Nat, NEW longer \in Nat, limit <= longer,
         longer <= Len(Image(file)),
         NEW text, NEW text2, NEW done, done \subseteq SitesOf(file),
         Built(file, text, limit, done),
         \A k \in 1..longer : k \in DOMAIN text2,
         \A k \in 1..limit : text2[k] = text[k],
         \A k \in (limit + 1)..longer : text2[k] = Image(file)[k],
         \A s \in done : IsInside(file, s) => s.at + s.len <= limit
  PROVE  Built(file, text2, longer, done)
<1>1. ASSUME NEW k \in 1..longer, \A s \in done : k \notin Place(s)
      PROVE  text2[k] = Image(file)[k]
  <2>1. CASE k \in 1..limit
    BY <1>1, <2>1 DEF Built
  <2>2. CASE k \notin 1..limit
    <3>1. k \in (limit + 1)..longer
      BY <2>2
    <3> QED
      BY <3>1
  <2> QED
    BY <2>1, <2>2
<1>2. ASSUME NEW s \in done, IsInside(file, s) PROVE HasForm(file, text2, s)
  <2>1. PICK form \in LoaderForms(file, s) : DOMAIN form = 1..s.len /\ HasAt(text, s.at, form)
    BY <1>2 DEF Built, HasForm
  <2>2. s.at \in Int /\ s.len \in Nat /\ s.at >= 0 /\ s.at + s.len <= limit
    BY <1>2, SiteTypes, InsideBounds
  <2>3. ASSUME NEW k \in 1..s.len PROVE s.at + k \in DOMAIN text2 /\ text2[s.at + k] = form[k]
    <3>1. s.at + k \in 1..limit /\ s.at + k \in 1..longer
      BY <2>2
    <3>2. text[s.at + k] = form[k]
      BY <2>1 DEF HasAt
    <3> QED
      BY <3>1, <3>2
  <2>4. HasAt(text2, s.at, form)
    BY <2>1, <2>3 DEF HasAt
  <2> QED
    BY <2>1, <2>4 DEF HasForm
<1> QED
  BY <1>1, <1>2 DEF Built

LEMMA SmpLocksLoads == ASSUME LoadInv, ApplySmpLocks PROVE (BuiltInv /\ MapsInv)'
<1> DEFINE s == LockSite(next)
           offset == file.locks[next]
           lock == IF "up" \notin file.features THEN "3e" ELSE "f0"
           bytes == <<Op(lock)>>
<1>1. /\ Entry("smplocks") /\ Inv
      /\ UNCHANGED <<file, stage, copy, jumpEntries>>
      /\ \/ /\ offset \in 0..file.size
            /\ elf' = Write(elf, offset, bytes) /\ smpOffsets' = smpOffsets \cup {offset}
         \/ /\ offset \notin 0..file.size
            /\ elf' = elf /\ smpOffsets' = smpOffsets
  BY DEF ApplySmpLocks, LoadInv
<1>2. file \in Files /\ stage = "smplocks" /\ next \in DOMAIN file.locks
  BY <1>1, AtEntry DEF Entries
<1>3. offset \in Int /\ file.size \in Nat /\ DOMAIN bytes = 1..1
  BY <1>2, TableTypes
<1>4. /\ s \in SitesOf(file) /\ s.by[1] = "locks" /\ s.by[2] = next
      /\ s.at = offset /\ s.len = 1
  BY <1>2, SiteKinds, SiteFields
<1>5. bytes \in {<<Op("3e")>>, <<Op("f0")>>}
  OBVIOUS
<1> HIDE DEF s, offset, bytes
<1>6. bytes \in LoaderForms(file, s)
  BY <1>4, <1>5 DEF LoaderForms, GuestForms
<1>7. s \notin DoneSites /\ DoneSites' = DoneSites \cup {s}
  BY <1>1, <1>4, EntryDone
<1>8. /\ Built(file, elf, file.size, DoneSites)
      /\ file.size <= Len(Image(file))
  BY <1>2, ImageFacts DEF LoadInv, BuiltInv, InFile
<1>9. IsInside(file, s) => s.at + s.len <= file.size /\ offset \in 0..file.size
  BY <1>2, <1>3, <1>4, InsideBounds
<1>10. Built(file, elf', file.size, DoneSites \cup {s})
  <2>1. CASE offset \in 0..file.size
    <3>1. elf' = Write(elf, s.at, bytes) /\ DOMAIN bytes = 1..s.len
      BY <1>1, <1>3, <1>4, <2>1
    <3> QED
      BY <1>2, <1>3, <1>4, <1>6, <1>8, <1>9, <3>1, WriteBuilt, DoneAreSites
  <2>2. CASE offset \notin 0..file.size
    BY <1>1, <1>2, <1>3, <1>4, <1>7, <1>8, <1>9, <2>2, KeepBuilt, DoneAreSites
  <2> QED
    BY <2>1, <2>2
<1>11. BuiltInv'
  BY <1>1, <1>2, <1>7, <1>10, BuiltStep DEF InCopy
<1>12. MapsInv'
  <2>1. ASSUME NEW t \in DoneSites', IsInside(file, t), t.by[1] = "locks"
        PROVE  t.at \in smpOffsets'
    BY <1>1, <1>4, <1>7, <1>9, <2>1 DEF LoadInv, MapsInv
  <2>2. ASSUME NEW t \in DoneSites', IsInside(file, t), t.by[1] = "jumpTable"
        PROVE  t.at \in DOMAIN jumpEntries
    BY <1>4, <1>7, <2>2 DEF LoadInv, MapsInv
  <2> QED
    BY <1>1, <1>2, <2>1, <2>2 DEF LoadInv, MapsInv
<1> QED
  BY <1>11, <1>12

LEMMA CopyLoads == ASSUME LoadInv, CopyText PROVE (BuiltInv /\ MapsInv)'
<1> DEFINE body == SubSeq(elf, 1, file.size)
           text == body \o file.tail
           limit == Len(Image(file))
<1>1. /\ Inv /\ stage = "copy" /\ stage' = "mcount"
      /\ UNCHANGED <<file, smpOffsets, jumpEntries>>
      /\ copy' \in {text, Filled(text)}
  BY DEF CopyText, LoadInv
<1>2. /\ file \in Files /\ elf \in Seq(Byte) /\ Len(elf) = file.size + 1
      /\ file.size \in Nat /\ file.tail \in Seq(Byte) /\ Len(file.tail) \in Nat
  BY <1>1, FileAssumption, LenProperties DEF Inv, TypeOK
<1>3. /\ body \in Seq(Byte) /\ Len(body) = file.size
      /\ \A k \in 1..file.size : body[k] = elf[k]
  <2>1. \A k \in 1..file.size : elf[k] \in Byte
    BY <1>2, ElementOfSeq
  <2>2. /\ body \in Seq(Byte)
        /\ Len(body) = IF 1 <= file.size THEN file.size - 1 + 1 ELSE 0
        /\ \A k \in 1..file.size - 1 + 1 : body[k] = elf[1 + k - 1]
    BY <1>2, <2>1, SubSeqProperties
  <2> QED
    BY <1>2, <2>2
<1> HIDE DEF body
<1>4. /\ text \in Seq(Byte) /\ Len(text) = limit /\ limit \in Nat /\ file.size <= limit
      /\ \A k \in 1..limit :
           text[k] = IF k <= file.size THEN elf[k] ELSE Image(file)[k]
  <2>1. /\ text \in Seq(Byte) /\ Len(text) = Len(body) + Len(file.tail)
        /\ \A k \in 1..Len(body) + Len(file.tail) :
             text[k] = IF k <= Len(body) THEN body[k] ELSE file.tail[k - Len(body)]
    BY <1>2, <1>3, ConcatProperties
  <2>2. /\ limit \in Nat /\ limit = file.size + Len(file.tail) /\ file.size <= limit
        /\ \A k \in (file.size + 1)..limit : Image(file)[k] = file.tail[k - file.size]
    BY <1>2, ImageFacts
  <2> HIDE DEF text, limit
  <2>3. ASSUME NEW k \in 1..limit
        PROVE  text[k] = IF k <= file.size THEN elf[k] ELSE Image(file)[k]
    <3>1. CASE k <= file.size
      <4>1. k \in 1..file.size
        BY <1>2, <2>2, <3>1
      <4> QED
        BY <1>3, <2>1, <2>2, <3>1, <4>1
    <3>2. CASE ~(k <= file.size)
      <4>1. k \in (file.size + 1)..limit
        BY <1>2, <2>2, <3>2
      <4> QED
        BY <1>3, <2>1, <2>2, <3>2, <4>1
    <3> QED
      BY <3>1, <3>2
  <2> QED
    BY <1>3, <2>1, <2>2, <2>3
<1> HIDE DEF text
<1>5. \A k \in 1..limit : k \in DOMAIN copy' /\ copy'[k] = text[k]
  <2>1. Altered(text, Filled(text)) = {} /\ Len(Filled(text)) > Len(text)
        /\ Filled(text) \in Seq(Byte)
    BY <1>4, FilledType
  <2>2. /\ DOMAIN text = 1..limit /\ DOMAIN Filled(text) = 1..Len(Filled(text))
        /\ Len(Filled(text)) \in Nat
    BY <1>4, <2>1, LenProperties
  <2>3. \A k \in 1..limit : k \in DOMAIN Filled(text) /\ Filled(text)[k] = text[k]
    BY <1>4, <2>1, <2>2 DEF Altered
  <2> QED
    BY <1>1, <2>2, <2>3
<1>6. DoneSites' = DoneSites
  BY <1>1, LoopDone
<1>7. Built(file, elf, file.size, DoneSites)
  BY <1>1 DEF LoadInv, BuiltInv, InFile
<1>8. \A t \in DoneSites : IsInside(file, t) => t.at + t.len <= file.size
  <2>1. \A t \in DoneSites : t.by[1] # "mcounts"
    BY <1>1 DEF DoneSites, SiteDone
  <2> QED
    BY <1>2, <2>1, InsideBounds, DoneAreSites
<1> HIDE DEF limit
<1>9. Built(file, copy', limit, DoneSites)
  <2>1. \A k \in 1..file.size : copy'[k] = elf[k]
    <3>1. \A k \in 1..file.size : k \in 1..limit /\ k <= file.size
      BY <1>2, <1>4
    <3> QED
      BY <1>4, <1>5, <3>1
  <2>2. \A k \in (file.size + 1)..limit : copy'[k] = Image(file)[k]
    <3>1. \A k \in (file.size + 1)..limit : k \in 1..limit /\ ~(k <= file.size)
      BY <1>2, <1>4
    <3> QED
      BY <1>4, <1>5, <3>1
  <2>3. limit <= Len(Image(file))
    BY <1>4 DEF limit
  <2> QED
    BY <1>2, <1>4, <1>5, <1>7, <1>8, <2>1, <2>2, <2>3, LongerBuilt, DoneAreSites
<1>10. BuiltInv'
  BY <1>1, <1>6, <1>9 DEF BuiltInv, InFile, limit
<1>11. MapsInv'
  BY <1>1, <1>6, MapsKept DEF LoadInv
<1> QED
  BY <1>10, <1>11

LEMMA McountLoads == ASSUME LoadInv, ApplyMcount PROVE (BuiltInv /\ MapsInv)'
<1> DEFINE s == McountSite(next)
           limit == Len(Image(file))
<1>1. /\ Entry("mcount") /\ Inv
      /\ UNCHANGED <<file, stage, elf, smpOffsets, jumpEntries>>
      /\ copy' = Write(copy, file.mcounts[next], Nops(5))
  BY DEF ApplyMcount, LoadInv
<1>2. file \in Files /\ stage = "mcount" /\ next \in DOMAIN file.mcounts
  BY <1>1, AtEntry DEF Entries
<1>3. /\ s \in SitesOf(file) /\ s.by[1] = "mcounts" /\ s.by[2] = next
      /\ s.at = file.mcounts[next] /\ s.len = 5
  BY <1>2, SiteKinds, SiteFields
<1>4. DOMAIN Nops(5) = 1..5
  BY FiveNops, LenProperties
<1>5. limit \in Nat /\ limit <= Len(Image(file))
  BY <1>2, ImageFacts
<1> HIDE DEF s
<1>6. Nops(5) \in LoaderForms(file, s)
  BY <1>3 DEF LoaderForms
<1>7. s \notin DoneSites /\ DoneSites' = DoneSites \cup {s}
  BY <1>1, <1>3, EntryDone
<1>8. Built(file, copy, limit, DoneSites)
  BY <1>2 DEF LoadInv, BuiltInv, InCopy
<1>9. IsInside(file, s) => s.at + s.len <= limit
  BY <1>2, <1>3, InsideBounds
<1> HIDE DEF limit
<1>10. Built(file, copy', limit, DoneSites \cup {s})
  BY <1>1, <1>2, <1>3, <1>4, <1>5, <1>6, <1>8, <1>9, WriteBuilt, DoneAreSites
<1>11. BuiltInv'
  BY <1>1, <1>2, <1>7, <1>10, BuiltStep DEF InFile, limit
<1>12. MapsInv'
  BY <1>1, <1>2, <1>3, <1>7, MapsKept DEF LoadInv
<1> QED
  BY <1>11, <1>12

\* sites that are somewhere else
LEMMA ElsewhereBuilt ==
  ASSUME NEW text, NEW limit, NEW done, NEW more, Built(file, text, limit, done),
         \A s \in more : ~IsInside(file, s)
  PROVE  Built(file, text, limit, done \cup more)
BY DEF Built

\* one label at most has a code address
LEMMA LabelUnique ==
  ASSUME file \in Files, NEW e \in file.jumpTable, NEW e0 \in file.jumpTable,
         e.code = e0.code
  PROVE  e = e0
<1>1. /\ LabelSite(e) \in SitesOf(file) /\ LabelSite(e0) \in SitesOf(file)
      /\ LabelSite(e).at = e.code /\ LabelSite(e0).at = e.code
      /\ LabelSite(e).len = 5 /\ LabelSite(e0).len = 5
  BY SiteKinds, SiteFields
<1>2. e.code \in Nat
  BY TableTypes
<1>3. e.code + 1 \in Place(LabelSite(e)) \cap Place(LabelSite(e0))
  BY <1>1, <1>2 DEF Place
<1>4. LabelSite(e) = LabelSite(e0)
  BY <1>1, <1>3, GuestFacts
<1> QED
  BY <1>4, SiteFields

LEMMA JumpEntryLoads == ASSUME LoadInv, ApplyJumpEntry PROVE (BuiltInv /\ MapsInv)'
<1> DEFINE entry == file.guestTable[next]
           found == FoundEntries(entry)
           destination(e) == e.target - (e.code + 5)
           e0 == CHOOSE e \in found : TRUE
           bytes == IF entry.key \in enabled THEN Jump("e9", destination(e0)) ELSE Nops(5)
           limit == Len(Image(file))
           labels == {s \in SitesOf(file) :
                        s.by[1] = "jumpTable" /\ s.by[2].code = entry.code}
<1>1. /\ Entry("jumps") /\ Inv
      /\ UNCHANGED <<file, stage, elf, smpOffsets>>
      /\ copy' = IF found = {} THEN copy ELSE Write(copy, e0.code, bytes)
      /\ DOMAIN jumpEntries' = DOMAIN jumpEntries \cup {e.code : e \in found}
      /\ \A c \in DOMAIN jumpEntries' :
           jumpEntries'[c] = IF c \in DOMAIN jumpEntries THEN jumpEntries[c]
                             ELSE destination(CHOOSE e \in found : e.code = c)
  BY DEF ApplyJumpEntry, LoadInv
<1>2. file \in Files /\ stage = "jumps" /\ file.isKernel
  BY <1>1, AtEntry DEF LoadInv, MapsInv
<1>3. /\ found \subseteq file.jumpTable
      /\ entry.code > file.size \/ found = {e \in file.jumpTable : e.code = entry.code}
      /\ entry.code > file.size => found = {}
  BY DEF FoundEntries, NewEntries
<1>4. DoneSites' = DoneSites \cup labels
  BY <1>1, <1>2, LabelsDone
<1>5. /\ Built(file, copy, limit, DoneSites)
      /\ limit \in Nat /\ limit <= Len(Image(file))
      /\ file.size \in Nat
  BY <1>2, ImageFacts, TableTypes DEF LoadInv, BuiltInv, InCopy
<1>6. \A s \in labels : /\ s \in SitesOf(file) /\ s.by[2] \in file.jumpTable
                        /\ s = LabelSite(s.by[2]) /\ s.by[2].code = entry.code
                        /\ s.at = entry.code
  BY <1>2, SiteBy, SiteFields
<1> HIDE DEF found, limit
<1>7. CASE found = {}
  <2>1. ASSUME NEW s \in labels PROVE ~IsInside(file, s)
    <3>1. entry.code > file.size
      BY <1>3, <1>6, <1>7, <2>1
    <3>2. s.at \in Int /\ s.len = 5 /\ s.by[1] = "jumpTable" /\ s.at = entry.code
      BY <1>2, <1>6, <2>1, SiteTypes, SiteFields
    <3> QED
      BY <1>2, <1>5, <1>6, <2>1, <3>1, <3>2, InsideBounds
  <2>2. copy' = copy
    BY <1>1, <1>7
  <2>3. DOMAIN jumpEntries' = DOMAIN jumpEntries
    BY <1>1, <1>7
  <2> HIDE DEF labels
  <2>4. Built(file, copy', limit, DoneSites')
    BY <1>4, <1>5, <2>1, <2>2, ElsewhereBuilt
  <2>5. BuiltInv'
    BY <1>1, <1>2, <2>4, BuiltStep DEF InFile, limit
  <2>6. \A c \in DOMAIN jumpEntries' : jumpEntries'[c] = jumpEntries[c]
    BY <1>1, <2>3
  <2>7. MapsInv'
    BY <1>1, <1>2, <1>4, <2>1, <2>3, <2>6 DEF LoadInv, MapsInv
  <2> QED
    BY <2>5, <2>7
<1>8. CASE found # {}
  <2>1. /\ e0 \in found /\ e0 \in file.jumpTable /\ e0.code = entry.code
        /\ found = {e \in file.jumpTable : e.code = entry.code}
    BY <1>3, <1>8
  <2>2. \A e \in found : e = e0
    BY <1>2, <2>1, LabelUnique
  <2> DEFINE s == LabelSite(e0)
  <2>3. /\ s \in SitesOf(file) /\ s.by[1] = "jumpTable" /\ s.by[2] = e0
        /\ s.at = e0.code /\ s.len = 5
    BY <2>1, SiteKinds, SiteFields
  <2>4. labels = {s}
    <3>1. \A t \in labels : t = s
      BY <1>2, <1>6, <2>1, LabelUnique
    <3> QED
      BY <2>1, <2>3, <3>1
  <2>5. e0.code \in Nat /\ e0.target \in Nat
    BY <1>2, <2>1, TableTypes
  <2> HIDE DEF e0, s, labels
  <2>6. bytes \in LoaderForms(file, s)
    BY <2>3 DEF LoaderForms
  <2>7. DOMAIN bytes = 1..s.len
    <3>1. destination(e0) \in Int
      BY <2>5
    <3> HIDE DEF destination
    <3>2. bytes \in Seq(Byte) /\ Len(bytes) = 5
      BY <3>1, JumpType, FiveNops
    <3> HIDE DEF bytes
    <3> QED
      BY <2>3, <3>2, LenProperties
  <2>8. copy' = Write(copy, s.at, bytes)
    BY <1>1, <1>8, <2>3
  <2> HIDE DEF bytes
  <2>9. IsInside(file, s) => s.at + s.len <= limit
    BY <1>2, <2>3, InsideBounds DEF limit
  <2>10. Built(file, copy', limit, DoneSites')
    <3>1. Built(file, copy', limit, DoneSites \cup {s})
      BY <1>2, <1>5, <2>3, <2>6, <2>7, <2>8, <2>9, WriteBuilt, DoneAreSites
    <3> QED
      BY <1>4, <2>4, <3>1
  <2>11. BuiltInv'
    BY <1>1, <1>2, <2>10, BuiltStep DEF InFile, limit
  <2>12. DOMAIN jumpEntries' = DOMAIN jumpEntries \cup {e0.code}
    BY <1>1, <2>1, <2>2
  <2>13. ASSUME NEW c \in DOMAIN jumpEntries'
         PROVE  \E e \in file.jumpTable :
                  c = e.code /\ jumpEntries'[c] = e.target - (e.code + 5)
    <3>1. CASE c \in DOMAIN jumpEntries
      BY <1>1, <3>1 DEF LoadInv, MapsInv
    <3>2. CASE c \notin DOMAIN jumpEntries
      <4>1. c = e0.code
        BY <2>12, <2>13, <3>2
      <4>2. (CHOOSE e \in found : e.code = c) = e0
        BY <2>1, <2>2, <4>1
      <4>3. jumpEntries'[c] = destination(e0)
        BY <1>1, <2>13, <3>2, <4>2
      <4> QED
        BY <2>1, <4>1, <4>3
    <3> QED
      BY <3>1, <3>2
  <2>14. ASSUME NEW t \in DoneSites', IsInside(file, t)
         PROVE  /\ t.by[1] = "locks" => t.at \in smpOffsets
                /\ t.by[1] = "jumpTable" => t.at \in DOMAIN jumpEntries'
    <3>1. t \in DoneSites \/ t = s
      BY <1>4, <2>4
    <3> QED
      BY <2>3, <2>12, <2>14, <3>1 DEF LoadInv, MapsInv
  <2>15. MapsInv'
    BY <1>1, <1>2, <2>13, <2>14 DEF MapsInv
  <2> QED
    BY <2>11, <2>15
<1> QED
  BY <1>7, <1>8

LEMMA FillLoads == ASSUME LoadInv, Fill PROVE (BuiltInv /\ MapsInv)'
<1> DEFINE limit == Len(Image(file))
<1>1. /\ Inv /\ stage = "fill" /\ stage' = "done" /\ copy' = Filled(copy)
      /\ UNCHANGED <<file, smpOffsets, jumpEntries>> /\ copy \in Seq(Byte)
  BY DEF Fill, LoadInv, Inv, TypeOK
<1>2. file \in Files /\ limit \in Nat /\ limit <= Len(Image(file))
  BY <1>1, ImageFacts DEF Inv
<1>3. DoneSites' = DoneSites
  BY <1>1, LoopDone
<1>4. Built(file, copy, limit, DoneSites)
  BY <1>1 DEF LoadInv, BuiltInv, InCopy
<1>5. \A k \in 1..limit : k \in DOMAIN copy' /\ copy'[k] = copy[k]
  <2>1. /\ copy' \in Seq(Byte) /\ Len(copy') > Len(copy)
        /\ Altered(copy, copy') = {}
    BY <1>1, FilledType
  <2>2. /\ DOMAIN copy = 1..Len(copy) /\ DOMAIN copy' = 1..Len(copy')
        /\ Len(copy) \in Nat /\ Len(copy') \in Nat
    BY <1>1, <2>1, LenProperties
  <2>3. \A k \in DOMAIN copy : k \in DOMAIN copy' /\ copy'[k] = copy[k]
    BY <2>1, <2>2 DEF Altered
  <2> QED
    BY <1>4, <2>3 DEF Built
<1>6. \A t \in DoneSites : IsInside(file, t) => t.at + t.len <= limit
  BY <1>2, InsideBounds, DoneAreSites
<1> HIDE DEF limit
<1>7. \A k \in (limit + 1)..limit : copy'[k] = Image(file)[k]
  BY <1>2
<1>8. Built(file, copy', limit, DoneSites)
  BY <1>2, <1>4, <1>5, <1>6, <1>7, LongerBuilt, DoneAreSites
<1>9. BuiltInv'
  BY <1>1, <1>3, <1>8 DEF BuiltInv, InFile, limit
<1>10. MapsInv'
  BY <1>1, <1>3, MapsKept DEF LoadInv
<1> QED
  BY <1>9, <1>10

LEMMA LoopEndsLoads == ASSUME LoadInv, LoopEnds PROVE (BuiltInv /\ MapsInv)'
<1>1. /\ Inv /\ UNCHANGED <<file, elf, copy, smpOffsets, jumpEntries>>
      /\ stage = "jumps" => file.isKernel
      /\ \/ stage \in InFile /\ stage' \in InFile
         \/ stage \in InCopy /\ stage' \in InCopy
      /\ stage' = "jumps" => stage = "mcount" /\ file.isKernel
      /\ stage' = "fill" => stage = "jumps"
  BY DEF LoopEnds, LoadInv, MapsInv, InFile, InCopy
<1>2. DoneSites' = DoneSites
  BY <1>1, LoopDone
<1>3. InFile \cap InCopy = {}
  BY DEF InFile, InCopy
<1>4. BuiltInv'
  BY <1>1, <1>2, <1>3 DEF LoadInv, BuiltInv
<1>5. MapsInv'
  BY <1>1, <1>2, MapsKept DEF LoadInv
<1> QED
  BY <1>4, <1>5

\* nothing is said of what is undefined
LEMMA BehindCopyLoads == ASSUME LoadInv, PatchBehindCopy PROVE (BuiltInv /\ MapsInv)'
<1>1. /\ UNCHANGED <<file, smpOffsets, jumpEntries>>
      /\ stage' = "undefined" /\ stage \in {"mcount", "jumps"}
  BY DEF PatchBehindCopy
<1>2. BuiltInv'
  BY <1>1 DEF BuiltInv, InFile, InCopy
<1>3. ASSUME NEW s \in DoneSites', s.by[1] \in {"locks", "jumpTable"} PROVE s \in DoneSites
  BY <1>1, <1>3 DEF DoneSites, SiteDone
<1>4. MapsInv'
  BY <1>1, <1>3, MapsKept DEF LoadInv
<1> QED
  BY <1>2, <1>4

LEMMA KeyLoads ==
  ASSUME LoadInv, GuestTogglesKey \/ UNCHANGED vars
  PROVE  (BuiltInv /\ MapsInv)'
<1>1. UNCHANGED <<file, stage, next, elf, copy, smpOffsets, jumpEntries>>
  BY DEF GuestTogglesKey, vars
<1>2. DoneSites' = DoneSites
  BY <1>1, SameDone
<1>3. BuiltInv'
  BY <1>1, <1>2 DEF LoadInv, BuiltInv
<1>4. MapsInv'
  BY <1>1, <1>2 DEF LoadInv, MapsInv
<1> QED
  BY <1>3, <1>4

LEMMA InitLoads == Init => LoadInv
<1> SUFFICES ASSUME Init PROVE LoadInv
  OBVIOUS
<1>1. /\ Inv /\ file \in Files /\ stage = "altinstr" /\ next = 1 /\ elf = file.text
      /\ jumpEntries = <<>>
  BY InitInv DEF Init, Inv
<1>2. DoneSites = {}
  <2>1. ASSUME NEW s \in SitesOf(file) PROVE ~SiteDone(s)
    <3>1. s.by[1] = "alternatives" => s.by[2] \in Nat \ {0}
      BY <1>1, SiteBy
    <3> QED
      BY <1>1, <3>1 DEF SiteDone
  <2> QED
    BY <2>1 DEF DoneSites
<1>3. /\ file.text \in Seq(Byte) /\ Len(file.text) = file.size + 1 /\ file.size \in Nat
  BY <1>1, FileAssumption
<1>4. 1..file.size \subseteq DOMAIN elf
  BY <1>1, <1>3, LenProperties
<1>5. \A k \in 1..file.size : elf[k] = Image(file)[k]
  BY <1>1, ImageFacts
<1>6. BuiltInv
  BY <1>1, <1>2, <1>4, <1>5 DEF BuiltInv, InCopy, Built
<1>7. DOMAIN jumpEntries = {}
  BY <1>1
<1>8. MapsInv
  BY <1>1, <1>2, <1>7 DEF MapsInv
<1> QED
  BY <1>1, <1>6, <1>8 DEF LoadInv

LEMMA LoadStep == LoadInv /\ [Next]_vars => LoadInv'
<1> SUFFICES ASSUME LoadInv, [Next]_vars PROVE LoadInv'
  OBVIOUS
<1>1. Inv'
  BY Step DEF LoadInv
<1>2. (BuiltInv /\ MapsInv)'
  BY AltinstrLoads, ParainstrLoads, SmpLocksLoads, CopyLoads, McountLoads,
     JumpEntryLoads, BehindCopyLoads, FillLoads, LoopEndsLoads, KeyLoads DEF Next, InitText
<1> QED
  BY <1>1, <1>2 DEF LoadInv

-----------------------------------------------------------------------------
(* What is built in the end.                                               *)

LEMMA LoadedExplained ==
  ASSUME LoadInv, stage = "done", NEW k \in DOMAIN file.mem
  PROVE  k \in DOMAIN copy /\ (copy[k] = file.mem[k] \/ Explained(k))
<1> DEFINE limit == Len(Image(file))
<1>1. /\ file \in Files /\ Built(file, copy, limit, DoneSites)
      /\ limit \in Nat /\ k \in 1..limit
  BY ImageFacts, GuestFacts DEF LoadInv, Inv, BuiltInv, InCopy
<1>2. k \in DOMAIN copy /\ k \in Int
  BY <1>1 DEF Built
<1>3. CASE \A s \in SitesOf(file) : k \notin Place(s)
  BY <1>1, <1>3, GuestFacts, DoneAreSites DEF Built
<1>4. CASE \E s \in SitesOf(file) : k \in Place(s)
  <2>1. PICK s \in SitesOf(file) : k \in Place(s)
    BY <1>4
  <2>2. IsInside(file, s) /\ \E form \in GuestForms(file, s) : HasAt(file.mem, s.at, form)
    BY <1>1, <2>1, GuestFacts
  <2>3. PICK guest \in GuestForms(file, s) : HasAt(file.mem, s.at, guest)
    BY <2>2
  <2> DEFINE at == s.at
             j == k - s.at
  <2>4. /\ at \in Int /\ s.len \in Nat /\ j \in 1..s.len /\ at + j = k
        /\ k \in (at + 1)..(at + s.len)
    BY <1>1, <1>2, <2>1, SiteTypes DEF Place
  <2> HIDE DEF j
  <2>5. ASSUME s \in DoneSites
        PROVE  \E form \in LoaderForms(file, s) :
                 DOMAIN form = 1..s.len /\ HasAt(copy, at, form) /\ copy[k] = form[j]
    <3>1. PICK form \in LoaderForms(file, s) :
            DOMAIN form = 1..s.len /\ HasAt(copy, at, form)
      BY <1>1, <2>2, <2>5 DEF Built, HasForm
    <3> QED
      BY <2>4, <3>1 DEF HasAt
  <2>6. j \in DOMAIN guest => file.mem[k] = guest[j]
    BY <2>3, <2>4 DEF HasAt
  <2>7. s.by[1] \in {"alternatives", "patchSites", "locks", "mcounts"} => s \in DoneSites
    BY DEF DoneSites, SiteDone
  <2>8. CASE s.by[1] \in {"alternatives", "patchSites"}
    <3>1. LoaderForms(file, s) = {guest}
      <4>1. LoaderForms(file, s) = GuestForms(file, s)
        BY <2>8 DEF LoaderForms
      <4>2. \E form : GuestForms(file, s) = {form}
        BY <2>8 DEF GuestForms
      <4> QED
        BY <2>3, <4>1, <4>2
    <3>2. DOMAIN guest = 1..s.len /\ copy[k] = guest[j]
      BY <2>5, <2>7, <2>8, <3>1
    <3> QED
      BY <1>2, <2>4, <2>6, <3>2
  <2>9. CASE s.by[1] = "locks"
    <3>1. s.len = 1 /\ j = 1 /\ k - 1 = at
      <4>1. s.len = 1
        BY <1>1, <2>9, SiteBy, SiteFields
      <4> QED
        BY <2>4, <4>1
    <3>2. /\ LoaderForms(file, s) = {<<Op("3e")>>, <<Op("f0")>>}
          /\ GuestForms(file, s) = {<<Op("3e")>>, <<Op("f0")>>}
      BY <2>9 DEF LoaderForms, GuestForms
    <3>3. file.mem[k] \in {Op("3e"), Op("f0")}
      BY <2>3, <2>6, <3>1, <3>2
    <3>4. copy[k] \in {Op("3e"), Op("f0")}
      BY <2>5, <2>7, <2>9, <3>1, <3>2
    <3>5. at \in smpOffsets
      BY <2>2, <2>7, <2>9 DEF LoadInv, MapsInv
    <3> QED
      BY <1>2, <3>1, <3>3, <3>4, <3>5 DEF Explained
  <2>10. CASE s.by[1] = "mcounts"
    <3>1. s.len = 5
      BY <1>1, <2>10, SiteBy, SiteFields
    <3>2. LoaderForms(file, s) = {Nops(5)} /\ GuestForms(file, s) = {Nops(5), AtomicNop}
      BY <2>10 DEF LoaderForms, GuestForms
    <3>3. DOMAIN Nops(5) = 1..5 /\ HasAt(copy, at, Nops(5)) /\ copy[k] = Nops(5)[j]
      BY <2>5, <2>7, <2>10, <3>1, <3>2
    <3>4. CASE guest = Nops(5)
      BY <1>2, <2>4, <2>6, <3>1, <3>3, <3>4
    <3>5. CASE guest = AtomicNop
      <4>1. at \in (k - 5)..(k - 1)
        BY <1>2, <2>4, <3>1
      <4> QED
        BY <1>2, <2>3, <3>3, <3>5, <4>1 DEF Explained
    <3> QED
      BY <2>3, <3>2, <3>4, <3>5
  <2>11. CASE s.by[1] = "jumpTable"
    <3> DEFINE e == s.by[2]
               jump == Jump("e9", e.target - (e.code + 5))
    <3>1. e \in file.jumpTable /\ s = LabelSite(e) /\ s.len = 5 /\ at = e.code
      BY <1>1, <2>11, SiteBy, SiteFields
    <3>2. CASE IsPatchedLabel(file, e)
      <4>1. s \in DoneSites
        BY <2>11, <3>2 DEF IsPatchedLabel, DoneSites, SiteDone
      <4>2. at \in DOMAIN jumpEntries /\ jumpEntries[at] = e.target - (e.code + 5)
        <5>1. at \in DOMAIN jumpEntries
          BY <2>2, <2>11, <4>1 DEF LoadInv, MapsInv
        <5>2. PICK e2 \in file.jumpTable :
                at = e2.code /\ jumpEntries[at] = e2.target - (e2.code + 5)
          BY <5>1 DEF LoadInv, MapsInv
        <5>3. e2 = e
          BY <1>1, <3>1, <5>2, LabelUnique
        <5> QED
          BY <5>1, <5>2, <5>3
      <4> HIDE DEF e
      <4>3. LabelForms(at) = {Nops(5), AtomicNop, jump}
        BY <4>2 DEF LabelForms
      <4>4. /\ LoaderForms(file, s) = {Nops(5), jump}
            /\ GuestForms(file, s) = {Nops(5), AtomicNop, jump}
        BY <2>11, <3>2 DEF LoaderForms, GuestForms, e
      <4> HIDE DEF jump, at
      <4>5. \E form \in LabelForms(at) : HasAt(copy, at, form)
        BY <2>5, <4>1, <4>3, <4>4
      <4>6. \E form \in LabelForms(at) : HasAt(file.mem, at, form)
        BY <2>3, <4>3, <4>4 DEF at
      <4>7. k \in (at + 1)..(at + 5)
        BY <2>4, <3>1
      <4> QED
        BY <1>2, <4>2, <4>5, <4>6, <4>7 DEF Explained
    <3>3. CASE ~IsPatchedLabel(file, e)
      <4>1. guest = Unpatched(file, s)
        BY <2>3, <2>11, <3>3 DEF GuestForms
      <4>2. j \in DOMAIN guest /\ guest[j] = Image(file)[k]
        BY <1>1, <2>2, <2>4, <4>1, UnpatchedBytes
      <4>3. s \notin DoneSites
        BY <2>11, <3>3 DEF IsPatchedLabel, DoneSites, SiteDone
      <4>4. \A t \in DoneSites : k \notin Place(t)
        BY <1>1, <2>1, <4>3, GuestFacts, DoneAreSites
      <4>5. copy[k] = Image(file)[k]
        BY <1>1, <4>4 DEF Built
      <4> QED
        BY <1>2, <2>6, <4>2, <4>5
    <3> QED
      BY <3>2, <3>3
  <2> QED
    BY <1>1, <2>8, <2>9, <2>10, <2>11, SiteBy
<1> QED
  BY <1>3, <1>4

(***************************************************************************)
(* When initText is done, the text of an unmodified guest differs from the *)
(* copy only in lock prefixes, jump labels and atomic nops that the page   *)
(* scan can explain with the maps that the loader has filled: whatever the *)
(* file's tables are, and however the guest toggles its keys meanwhile.    *)
(***************************************************************************)
THEOREM LoadedTextIsRight == Spec => []LoadedTextExplained
<1>1. LoadInv => LoadedTextExplained
  BY LoadedExplained DEF LoadedTextExplained
<1> QED
  BY InitLoads, LoadStep, <1>1, PTL DEF Spec

-----------------------------------------------------------------------------
(***************************************************************************)
(* Relocation.  In one round each relocation that is applied has its field *)
(* written, with the address that its symbol has for the owner; a symbol's *)
(* value has become an address at most once, in whatever round.            *)
(***************************************************************************)
\* what happens to the file, in each round
RoundInv ==
  /\ label # "begin" => (elfFile.etype = "REL" <=> owner = Kernel)
  /\ label = "begin" => owner = Kernel
  /\ label = "exported" => elfFile.etype = "REL"
  /\ label # "exported" => exported = KnownSymbols[Kernel] /\ functions = KnownFunctions
  /\ label = "relas" =>
       /\ Applied(elfFile, section)
       /\ target = IF elfFile.etype = "REL" \/ rel = 1 THEN Headers[section].info
                   ELSE ClosestSection(Headers[section].rels[rel - 1].offset)
       /\ symSection.id # -1 => symSection.mem = MemOf(elfFile, symSection.id)

\* relocation j of section s was applied in this round
Done(s, j) ==
  \/ label \in {"relocated", "exported"}
  \/ label \in {"sections", "relas"} /\ s < section
  \/ label = "relas" /\ s = section /\ j < rel

OwnSym(y) == elfFile.syms[y].shndx \in (1..NrOfSections) \ {Undef}

\* what becomes of a symbol's value: its address, if nothing is to be added
FileAddress(y) ==
  LET sym == elfFile.syms[y] IN
  IF sym.shndx = Undef THEN Lookup(owner, sym.name)
  ELSE IF elfFile.etype = "DYN" THEN sym.value
  ELSE MemOf(elfFile, sym.shndx) + sym.value

\* a symbol's value has become an address at most once
SymInv ==
  \A y \in DOMAIN elfFile.syms :
     OwnSym(y) => symValue[y] = elfFile.syms[y].value \/ symValue[y] = FileAddress(y)

ReferencedInv ==
  \A s \in 1..NrOfSections : Applied(elfFile, s) =>
    \A j \in DOMAIN Headers[s].rels :
      Done(s, j) =>
        LET y == Headers[s].rels[j].sym IN
        OwnSym(y) => symValue[y] = FileAddress(y)

ResolvedInv ==
  AllPlaced =>
    \A s \in 1..NrOfSections : Applied(elfFile, s) =>
      \A j \in DOMAIN Headers[s].rels : Done(s, j) => Resolved(s, j)

RelocInv == RelocTypeOK /\ RoundInv /\ SymInv /\ ReferencedInv /\ ResolvedInv /\ ExportedAddresses

-----------------------------------------------------------------------------
(* What is in a file.                                                      *)

LEMMA HeaderFacts ==
  ASSUME elfFile \in ElfFiles
  PROVE  /\ WellFormed(elfFile)
         /\ elfFile.etype \in {"REL", "DYN"} /\ elfFile.percpu \in Nat
         /\ DOMAIN Headers = 1..NrOfSections /\ NrOfSections \in Nat \ {0}
         /\ \A k \in 1..NrOfSections : Headers[k] \in SectionHeader
         /\ \A y \in DOMAIN elfFile.syms : elfFile.syms[y] \in Sym
<1>1. elfFile \in File /\ WellFormed(elfFile)
  BY RelocationAssumption
<1>2. /\ elfFile.etype \in {"REL", "DYN"} /\ elfFile.percpu \in Nat
      /\ Headers \in Seq(SectionHeader) /\ elfFile.syms \in Seq(Sym)
  BY <1>1 DEF File, Headers
<1>3. /\ DOMAIN Headers = 1..NrOfSections /\ NrOfSections \in Nat
      /\ \A k \in 1..NrOfSections : Headers[k] \in SectionHeader
  BY <1>2, LenProperties, ElementOfSeq DEF NrOfSections
<1>4. \A y \in DOMAIN elfFile.syms : elfFile.syms[y] \in Sym
  BY <1>2, LenProperties, ElementOfSeq
<1>5. NrOfSections # 0
  <2>1. DOMAIN Headers # {}
    BY <1>1 DEF WellFormed, Headers
  <2> QED
    BY <1>3, <2>1
<1> QED
  BY <1>1, <1>2, <1>3, <1>4, <1>5

LEMMA HeaderTypes ==
  ASSUME elfFile \in ElfFiles, NEW k \in 1..NrOfSections
  PROVE  /\ Headers[k].offset \in Nat /\ Headers[k].mem \in Nat /\ Headers[k].size \in Nat
         /\ Headers[k].info \in Nat \ {0}
         /\ Headers[k].rels \in Seq(Rela)
         /\ MemOf(elfFile, k) \in Nat
<1>1. Headers[k] \in SectionHeader /\ elfFile.percpu \in Nat
  BY HeaderFacts
<1> QED
  BY <1>1 DEF SectionHeader, MemOf, Headers

LEMMA SymTypes ==
  ASSUME elfFile \in ElfFiles, NEW y \in DOMAIN elfFile.syms
  PROVE  /\ y \in Nat
         /\ elfFile.syms[y].value \in Nat /\ elfFile.syms[y].shndx \in Nat
         /\ \A p \in Owners : Lookup(p, elfFile.syms[y].name) \in Nat
<1>1. elfFile.syms[y] \in Sym
  BY HeaderFacts
<1>2. \A p \in Owners : Lookup(p, elfFile.syms[y].name) \in Nat
  BY RelocationAssumption DEF Lookup
<1>3. y \in Nat
  BY RelocationAssumption, LenProperties DEF File
<1> QED
  BY <1>1, <1>2, <1>3 DEF Sym

LEMMA RelaTypes ==
  ASSUME elfFile \in ElfFiles, NEW s \in 1..NrOfSections, NEW j \in DOMAIN Headers[s].rels
  PROVE  /\ Headers[s].rels[j] \in Rela
         /\ Headers[s].rels[j].offset \in Nat /\ Headers[s].rels[j].addend \in Nat
         /\ Headers[s].rels[j].type \in Types
         /\ j \in Nat \ {0}
<1>1. Headers[s].rels \in Seq(Rela)
  BY HeaderTypes
<1>2. Headers[s].rels[j] \in Rela /\ j \in Nat \ {0}
  BY <1>1, LenProperties, ElementOfSeq
<1> QED
  BY <1>2 DEF Rela

LEMMA RelocFacts ==
  ASSUME elfFile \in ElfFiles, NEW s \in 1..NrOfSections, Applied(elfFile, s),
         NEW j \in DOMAIN Headers[s].rels
  PROVE  LET r == Headers[s].rels[j]
             info == Headers[s].info
         IN /\ info \in 1..NrOfSections /\ Headers[info].alloc
            /\ r.sym \in DOMAIN elfFile.syms
            /\ elfFile.etype = "REL" => r.offset + FieldWidth(r.type) <= Headers[info].size
            /\ elfFile.etype = "DYN" => r.type # "32"
            /\ elfFile.etype = "DYN" /\ r.type # "unknown" /\ OwnSym(r.sym) =>
                 Headers[elfFile.syms[r.sym].shndx].mem <= elfFile.syms[r.sym].value
            /\ Headers[info].special = "altinstructions" =>
                 elfFile.etype = "REL" /\ elfFile.syms[r.sym].shndx # Undef
<1>1. WellFormed(elfFile) /\ DOMAIN elfFile.sections = 1..NrOfSections
  BY HeaderFacts DEF Headers
<1>2. Headers[s].info \in 1..NrOfSections /\ Headers[Headers[s].info].alloc
  BY HeaderTypes, HeaderFacts DEF Applied, Considered, Headers, NrOfSections
<1> QED
  BY <1>1, <1>2 DEF WellFormed, Headers, OwnSym

\* the section that has a field is one only, and no other field overlaps
LEMMA FieldsApart ==
  ASSUME elfFile \in ElfFiles,
         NEW s \in 1..NrOfSections, Applied(elfFile, s), NEW j \in DOMAIN Headers[s].rels,
         NEW t \in 1..NrOfSections, Applied(elfFile, t), NEW n \in DOMAIN Headers[t].rels,
         NEW k \in 1..NrOfSections, Holds(elfFile, s, j, k),
         NEW m \in 1..NrOfSections, Holds(elfFile, t, n, m)
  PROVE  LET r == Headers[s].rels[j]
             q == Headers[t].rels[n]
         IN IF s = t /\ j = n THEN k = m
            ELSE \/ FieldIn(elfFile, k, r) + FieldWidth(r.type) <= FieldIn(elfFile, m, q)
                 \/ FieldIn(elfFile, m, q) + FieldWidth(q.type) <= FieldIn(elfFile, k, r)
<1>1. WellFormed(elfFile) /\ DOMAIN elfFile.sections = 1..NrOfSections
  BY HeaderFacts DEF Headers
<1> QED
  BY <1>1 DEF WellFormed, Headers

LEMMA Smallest ==
  ASSUME NEW T, T \subseteq Nat, T # {}
  PROVE  \E k \in T : \A j \in T : k <= j
<1> DEFINE R == {p \in Nat \X Nat : p[1] < p[2]}
<1>1. IsWellFoundedOn(R, Nat)
  BY NatLessThanWellFounded DEF OpToRel
<1>2. PICK k \in T : \A j \in T : <<j, k>> \notin R
  <2> HIDE DEF R
  <2> QED
    BY <1>1, WFMin
<1>3. \A j \in T : ~(j < k)
  BY <1>2
<1> QED
  BY <1>2, <1>3

LEMMA ClosestIn ==
  ASSUME elfFile \in ElfFiles, NEW a, Closest(a) # {}
  PROVE  ClosestSection(a) \in Closest(a) /\ ClosestSection(a) \in 1..NrOfSections
<1>1. Closest(a) \subseteq 1..NrOfSections /\ Closest(a) \subseteq Nat
  BY HeaderFacts DEF Closest
<1>2. \E k \in Closest(a) : \A j \in Closest(a) : k <= j
  BY <1>1, Smallest
<1> QED
  BY <1>1, <1>2 DEF ClosestSection

LEMMA WidthTypes ==
  ASSUME NEW type
  PROVE  /\ Written(type) \in {0, 4, 8} /\ FieldWidth(type) \in {0, 4, 8}
         /\ type # "32" => FieldWidth(type) = Written(type)
         /\ FieldWidth("32") = 4 /\ Written("32") = 8
<1>1. Written(type) \in {0, 4, 8}
  BY DEF Written
<1>2. Written("32") = 8
  BY DEF Written
<1> QED
  BY <1>1, <1>2 DEF FieldWidth

LEMMA FieldInType ==
  ASSUME elfFile \in ElfFiles, NEW k \in 1..NrOfSections,
         NEW s \in 1..NrOfSections, NEW j \in DOMAIN Headers[s].rels
  PROVE  /\ FieldIn(elfFile, k, Headers[s].rels[j]) \in Int
         /\ elfFile.etype = "REL" =>
              FieldIn(elfFile, k, Headers[s].rels[j])
                = Headers[k].offset + Headers[s].rels[j].offset
<1>1. Headers[k].offset \in Nat /\ Headers[k].mem \in Nat /\ Headers[s].rels[j].offset \in Nat
  BY HeaderTypes, RelaTypes
<1> QED
  BY <1>1 DEF FieldIn, Headers

LEMMA FileAddressType ==
  ASSUME elfFile \in ElfFiles, owner \in Owners, NEW y \in DOMAIN elfFile.syms,
         elfFile.syms[y].shndx \in 1..NrOfSections
  PROVE  /\ FileAddress(y) \in Nat
         /\ OwnSym(y) /\ elfFile.etype = "DYN" => FileAddress(y) = elfFile.syms[y].value
         /\ OwnSym(y) /\ elfFile.etype = "REL" =>
              LET mem == MemOf(elfFile, elfFile.syms[y].shndx) IN
              /\ FileAddress(y) = mem + elfFile.syms[y].value
              /\ mem = 0 \/ elfFile.syms[y].value < mem
<1>1. /\ elfFile.syms[y].value \in Nat /\ Lookup(owner, elfFile.syms[y].name) \in Nat
      /\ MemOf(elfFile, elfFile.syms[y].shndx) \in Nat
  BY SymTypes, HeaderTypes
<1>2. /\ WellFormed(elfFile) /\ DOMAIN elfFile.sections = 1..NrOfSections
      /\ elfFile.etype \in {"REL", "DYN"}
  BY HeaderFacts DEF Headers
<1>3. FileAddress(y) \in Nat
  BY <1>1 DEF FileAddress
<1>4. OwnSym(y) => elfFile.syms[y].shndx # Undef
  BY DEF OwnSym
<1>5. OwnSym(y) /\ elfFile.etype = "REL" =>
        \/ MemOf(elfFile, elfFile.syms[y].shndx) = 0
        \/ elfFile.syms[y].value < MemOf(elfFile, elfFile.syms[y].shndx)
  BY <1>2 DEF WellFormed, OwnSym, Headers
<1> QED
  BY <1>2, <1>3, <1>4, <1>5 DEF FileAddress

-----------------------------------------------------------------------------
(* One relocation.                                                         *)

AtRela == label = "relas" /\ rel <= Len(Relas)

LEMMA AtRelaFacts ==
  ASSUME RelocInv, AtRela
  PROVE  /\ elfFile \in ElfFiles /\ owner \in Owners
         /\ section \in 1..NrOfSections /\ Applied(elfFile, section)
         /\ rel \in DOMAIN Relas /\ Relas = Headers[section].rels
         /\ target \in 1..NrOfSections
         /\ Userspace <=> elfFile.etype = "DYN"
         /\ symValue \in [DOMAIN elfFile.syms -> Nat]
<1>1. /\ RelocTypeOK /\ RoundInv
      /\ label = "relas" /\ rel <= Len(Relas)
  BY DEF RelocInv, AtRela
<1>2. /\ elfFile \in ElfFiles /\ owner \in Owners
      /\ section \in 1..(NrOfSections + 1) /\ section <= NrOfSections
      /\ rel \in 1..(Len(Relas) + 1)
      /\ target \in 1..NrOfSections
      /\ symValue \in [DOMAIN elfFile.syms -> Nat]
  BY <1>1 DEF RelocTypeOK
<1>3. section \in 1..NrOfSections
  BY <1>2, HeaderFacts
<1>4. Relas = Headers[section].rels
  BY DEF Relas
<1>5. rel \in DOMAIN Relas
  <2>1. DOMAIN Relas = 1..Len(Relas) /\ Len(Relas) \in Nat
    BY <1>2, <1>3, <1>4, HeaderTypes, LenProperties
  <2> QED
    BY <2>1, <1>1, <1>2
<1>6. Userspace <=> elfFile.etype = "DYN"
  BY <1>1, <1>2, HeaderFacts DEF RoundInv, Userspace
<1> QED
  BY <1>1, <1>2, <1>3, <1>4, <1>5, <1>6 DEF RoundInv

\* the value that is written is made of the symbol's address
LEMMA SymbolFacts ==
  ASSUME RelocInv, AtRela, ~Fails(Relas[rel])
  PROVE  LET r == Relas[rel]
             s == elfFile.syms[r.sym].shndx
         IN /\ r.sym \in DOMAIN elfFile.syms /\ s \in 1..NrOfSections
            /\ NewSymSection(s) = [id |-> s, mem |-> MemOf(elfFile, s)]
            /\ NewSymValue(r) \in Nat
            /\ r.type # "RELATIVE" \/ OwnSym(r.sym) => NewSymValue(r) = FileAddress(r.sym)
<1> DEFINE r == Relas[rel]
           y == r.sym
           s == elfFile.syms[y].shndx
<1>1. /\ elfFile \in ElfFiles /\ owner \in Owners
      /\ section \in 1..NrOfSections /\ Applied(elfFile, section)
      /\ rel \in DOMAIN Relas /\ Relas = Headers[section].rels
      /\ Userspace <=> elfFile.etype = "DYN"
      /\ symValue \in [DOMAIN elfFile.syms -> Nat]
  BY AtRelaFacts
<1>2. y \in DOMAIN elfFile.syms
  BY <1>1, RelocFacts
<1>3. s \in 1..NrOfSections
  BY DEF Fails
<1>4. NewSymSection(s) = [id |-> s, mem |-> MemOf(elfFile, s)]
  <2>1. elfFile.etype \in {"REL", "DYN"}
    BY <1>1, HeaderFacts
  <2>2. s # -1
    BY <1>3, <1>1, HeaderFacts
  <2>3. symSection.id = s => symSection.mem = MemOf(elfFile, s)
    BY <2>2 DEF RelocInv, RoundInv, AtRela
  <2> QED
    BY <1>1, <2>1, <2>3 DEF NewSymSection, MemOf, Headers
<1>5. /\ elfFile.syms[y].value \in Nat /\ Lookup(owner, elfFile.syms[y].name) \in Nat
      /\ symValue[y] \in Nat /\ MemOf(elfFile, s) \in Nat
  BY <1>1, <1>2, <1>3, SymTypes, HeaderTypes
<1>6. OwnSym(y) <=> s # Undef
  BY <1>3 DEF OwnSym
<1>7. NewSymSection(s).mem = MemOf(elfFile, s)
  BY <1>4
<1>8. CASE OwnSym(y)
  <2>1. NewSymValue(r) = IF symValue[y] < MemOf(elfFile, s)
                           THEN symValue[y] + MemOf(elfFile, s) ELSE symValue[y]
    BY <1>6, <1>7, <1>8 DEF NewSymValue
  <2>2. symValue[y] = elfFile.syms[y].value \/ symValue[y] = FileAddress(y)
    BY <1>2, <1>8 DEF RelocInv, SymInv
  <2>3. CASE elfFile.etype = "DYN"
    <3>1. FileAddress(y) = elfFile.syms[y].value
      BY <1>1, <1>2, <1>3, <1>8, <2>3, FileAddressType
    <3>3. Headers[s].mem <= FileAddress(y)
      <4>1. r.type # "unknown"
        BY DEF Fails
      <4> QED
        BY <1>1, <1>8, <2>3, <3>1, <4>1, RelocFacts
    <3>2. MemOf(elfFile, s) = Headers[s].mem
      BY <2>3 DEF MemOf, Headers
    <3>4. symValue[y] = FileAddress(y) /\ ~(symValue[y] < MemOf(elfFile, s))
      BY <1>5, <2>2, <3>1, <3>2, <3>3
    <3>5. NewSymValue(r) = symValue[y] /\ NewSymValue(r) = FileAddress(y)
      BY <2>1, <3>4
    <3>6. NewSymValue(r) \in Nat
      BY <1>5, <3>5
    <3> QED
      BY <1>2, <1>3, <1>4, <3>5, <3>6
  <2>4. CASE elfFile.etype = "REL"
    <3>1. /\ FileAddress(y) = MemOf(elfFile, s) + elfFile.syms[y].value
          /\ MemOf(elfFile, s) = 0 \/ elfFile.syms[y].value < MemOf(elfFile, s)
      BY <1>1, <1>2, <1>3, <1>8, <2>4, FileAddressType
    <3>2. NewSymValue(r) = FileAddress(y) /\ NewSymValue(r) \in Nat
      BY <1>5, <2>1, <2>2, <3>1
    <3> QED
      BY <1>2, <1>3, <1>4, <3>2
  <2> QED
    BY <1>1, <2>3, <2>4, HeaderFacts
<1>9. CASE ~OwnSym(y)
  <2>1. s = Undef
    BY <1>6, <1>9
  <2>2. NewSymValue(r) = IF Userspace /\ r.type # "SLOT" THEN symValue[y]
                         ELSE Lookup(owner, elfFile.syms[y].name)
    BY <2>1 DEF NewSymValue
  <2>3. Userspace /\ r.type # "SLOT" => r.type = "RELATIVE"
    BY <2>1 DEF Fails
  <2>4. FileAddress(y) = Lookup(owner, elfFile.syms[y].name)
    BY <2>1 DEF FileAddress
  <2> QED
    BY <1>2, <1>3, <1>4, <1>5, <1>9, <2>2, <2>3, <2>4
<1> QED
  BY <1>8, <1>9

LEMMA PlaceTypes ==
  ASSUME RelocInv, AtRela, ~Fails(Relas[rel])
  PROVE  LET r == Relas[rel] IN
         /\ Target(r) \in 1..NrOfSections
         /\ LocInElf(r) \in Int
         /\ Value(r) \in Int
         /\ elfFile.etype = "REL" =>
              LocInElf(r) = Headers[Headers[section].info].offset + r.offset
<1> DEFINE r == Relas[rel]
<1>1. /\ elfFile \in ElfFiles
      /\ section \in 1..NrOfSections /\ Applied(elfFile, section)
      /\ rel \in DOMAIN Relas /\ Relas = Headers[section].rels
      /\ target \in 1..NrOfSections
  BY AtRelaFacts
<1>2. elfFile.etype = "DYN" => Closest(r.offset) # {}
  BY DEF Fails
<1>3. elfFile.etype = "DYN" => ClosestSection(r.offset) \in 1..NrOfSections
  BY <1>1, <1>2, ClosestIn
<1>4. elfFile.etype \in {"REL", "DYN"}
  BY <1>1, HeaderFacts
<1>5. /\ Headers[target].offset \in Nat /\ Headers[target].mem \in Nat
      /\ r.offset \in Nat /\ r.addend \in Nat
  BY <1>1, HeaderTypes, RelaTypes
<1>6. LocInElf(r) \in Int
  <2>1. elfFile.etype = "DYN" => Headers[ClosestSection(r.offset)].mem \in Nat
    BY <1>1, <1>3, HeaderTypes
  <2> QED
    BY <1>4, <1>5, <2>1 DEF LocInElf
<1>7. Target(r) \in 1..NrOfSections
  BY <1>1, <1>3, <1>4 DEF Target
<1>8. Value(r) \in Int
  <2> DEFINE s == elfFile.syms[r.sym].shndx
  <2>1. s \in 1..NrOfSections /\ NewSymValue(r) \in Nat /\ NewSymSection(s).mem = MemOf(elfFile, s)
    BY SymbolFacts
  <2>2. Headers[s].offset \in Nat /\ MemOf(elfFile, s) \in Nat
    BY <1>1, <2>1, HeaderTypes
  <2> HIDE DEF r
  <2> QED
    BY <1>5, <1>6, <2>1, <2>2 DEF Value, s
<1>9. elfFile.etype = "REL" => LocInElf(r) = Headers[Headers[section].info].offset + r.offset
  BY DEF LocInElf, RelocInv, RoundInv, AtRela
<1> QED
  BY <1>6, <1>7, <1>8, <1>9

\* where nothing is out of place, the field is written
LEMMA RightPlace ==
  ASSUME RelocInv, AtRela, ~Fails(Relas[rel]), SameTarget(section, rel)
  PROVE  LET r == Relas[rel] IN
         /\ Holds(elfFile, section, rel, target)
         /\ LocInElf(r) = FieldIn(elfFile, target, r)
         /\ elfFile.etype = "REL" => target = Headers[section].info
<1> DEFINE r == Relas[rel]
           info == Headers[section].info
<1>1. /\ elfFile \in ElfFiles /\ owner \in Owners
      /\ section \in 1..NrOfSections /\ Applied(elfFile, section)
      /\ rel \in DOMAIN Relas /\ Relas = Headers[section].rels
      /\ target \in 1..NrOfSections
  BY AtRelaFacts
<1>2. /\ elfFile.etype \in {"REL", "DYN"}
      /\ target = IF elfFile.etype = "REL" \/ rel = 1 THEN info
                  ELSE ClosestSection(Relas[rel - 1].offset)
  BY <1>1, HeaderFacts DEF RelocInv, RoundInv, AtRela
<1>3. elfFile.etype = "DYN" =>
        /\ target = ClosestSection(r.offset)
        /\ Holds(elfFile, section, rel, target)
  BY <1>1, <1>2 DEF SameTarget
<1>4. elfFile.etype = "REL" => target = info /\ Holds(elfFile, section, rel, target)
  BY <1>2 DEF Holds, Headers
<1>5. /\ Headers[target].offset \in Nat /\ Headers[target].mem \in Nat
      /\ r.offset \in Nat /\ r.addend \in Nat
  BY <1>1, HeaderTypes, RelaTypes
<1>6. LocInElf(r) = FieldIn(elfFile, target, r)
  <2>1. CASE elfFile.etype = "REL"
    BY <1>5, <2>1 DEF LocInElf, FieldIn, Headers
  <2>2. CASE elfFile.etype = "DYN"
    BY <1>3, <1>5, <2>2 DEF LocInElf, FieldIn, Headers
  <2> QED
    BY <1>2, <2>1, <2>2
<1> QED
  BY <1>2, <1>3, <1>4, <1>6

\* and if the base has no part in it, the right value is written
LEMMA RightField ==
  ASSUME RelocInv, AtRela, ~Fails(Relas[rel]), SameTarget(section, rel),
         ~BaseLeftOut(Relas[rel])
  PROVE  Value(Relas[rel]) = RightValue(section, target, Relas[rel])
<1> DEFINE r == Relas[rel]
           y == r.sym
           s == elfFile.syms[y].shndx
           info == Headers[section].info
<1>1. /\ elfFile \in ElfFiles /\ owner \in Owners
      /\ section \in 1..NrOfSections /\ Applied(elfFile, section)
      /\ rel \in DOMAIN Relas /\ Relas = Headers[section].rels
      /\ target \in 1..NrOfSections
  BY AtRelaFacts
<1>2. elfFile.etype \in {"REL", "DYN"}
  BY <1>1, HeaderFacts
<1>3. /\ LocInElf(r) = FieldIn(elfFile, target, r)
      /\ elfFile.etype = "REL" => target = info
  BY RightPlace
<1>5. /\ Headers[target].offset \in Nat /\ Headers[target].mem \in Nat
      /\ r.offset \in Nat /\ r.addend \in Nat
  BY <1>1, HeaderTypes, RelaTypes
<1>7. /\ y \in DOMAIN elfFile.syms /\ s \in 1..NrOfSections
      /\ NewSymSection(s).mem = MemOf(elfFile, s)
      /\ NewSymValue(r) \in Nat
      /\ r.type # "RELATIVE" => NewSymValue(r) = FileAddress(y)
  BY SymbolFacts
<1>8. CASE r.type = "RELATIVE"
  <2>1. Value(r) = NewSymValue(r) + r.addend - NewSymValue(r)
    BY <1>5, <1>7, <1>8 DEF Value
  <2>2. RightValue(section, target, r) = r.addend
    BY <1>5, <1>8 DEF RightValue, BaseLeftOut
  <2> QED
    BY <1>5, <1>7, <2>1, <2>2
<1>9. CASE r.type = "PC32" /\ Headers[info].special = "altinstructions"
  <2>1. elfFile.etype = "REL" /\ s # Undef
    BY <1>1, <1>9, RelocFacts
  <2>2. OwnSym(y) /\ FileAddress(y) = MemOf(elfFile, s) + elfFile.syms[y].value
    BY <1>1, <1>7, <2>1, FileAddressType DEF OwnSym
  <2>3. Value(r) = NewSymValue(r) + r.addend - NewSymSection(s).mem
                     + Headers[s].offset - LocInElf(r)
    <3>1. Headers[s].offset \in Nat /\ MemOf(elfFile, s) \in Nat /\ LocInElf(r) \in Int
      BY <1>1, <1>7, HeaderTypes, PlaceTypes
    <3> QED
      BY <3>1, <1>5, <1>7, <1>9 DEF Value
  <2>4. RightValue(section, target, r)
          = Headers[s].offset + elfFile.syms[y].value + r.addend - FieldIn(elfFile, target, r)
    BY <1>9 DEF RightValue
  <2>5. /\ elfFile.syms[y].value \in Nat /\ Headers[s].offset \in Nat /\ MemOf(elfFile, s) \in Nat
        /\ FieldIn(elfFile, target, r) \in Int
    BY <1>1, <1>7, HeaderTypes, SymTypes, FieldInType
  <2>6. Value(r) = RightValue(section, target, r)
    <3> HIDE DEF r, y, s, info
    <3> QED
      BY <1>3, <1>5, <1>7, <1>9, <2>2, <2>3, <2>4, <2>5
  <2> QED
    BY <2>6
<1>10. CASE r.type # "RELATIVE" /\ ~(r.type = "PC32" /\ Headers[info].special = "altinstructions")
  <2>1. SymAddress(y) = FileAddress(y)
    <3>1. s # Undef /\ elfFile.etype = "DYN" => Base = 0
      BY DEF BaseLeftOut
    <3>2. elfFile.syms[y].value \in Nat
      BY <1>1, <1>7, SymTypes
    <3> QED
      BY <3>1, <3>2 DEF SymAddress, FileAddress
  <2>2. r.type = "PC32" => FieldAddress(target, r) = Headers[target].mem + r.offset
    BY <1>2 DEF BaseLeftOut, FieldAddress
  <2>3. Value(r) = RightValue(section, target, r)
    BY <1>7, <1>10, <2>1, <2>2 DEF Value, RightValue
  <2> QED
    BY <2>3
<1> QED
  BY <1>8, <1>9, <1>10

LEMMA FieldSection ==
  ASSUME elfFile \in ElfFiles, NEW s \in 1..NrOfSections, Applied(elfFile, s),
         NEW j \in DOMAIN Headers[s].rels, SameTarget(s, j)
  PROVE  LET k == CHOOSE n \in 1..NrOfSections : Holds(elfFile, s, j, n) IN
         k \in 1..NrOfSections /\ Holds(elfFile, s, j, k)
<1>1. CASE elfFile.etype = "REL"
  <2>1. Headers[s].info \in 1..NrOfSections
    BY RelocFacts
  <2> QED
    BY <1>1, <2>1 DEF Holds, Headers
<1>2. CASE elfFile.etype = "DYN"
  <2> DEFINE closest == ClosestSection(Headers[s].rels[j].offset)
  <2>1. Closest(Headers[s].rels[j].offset) # {} /\ Holds(elfFile, s, j, closest)
    BY <1>2 DEF SameTarget
  <2>2. closest \in 1..NrOfSections
    BY <2>1, ClosestIn
  <2> HIDE DEF closest
  <2> QED
    BY <2>1, <2>2
<1> QED
  BY <1>1, <1>2, HeaderFacts

-----------------------------------------------------------------------------
(* The steps.                                                              *)

LEMMA SameFile ==
  ASSUME elfFile' = elfFile
  PROVE  /\ Headers' = Headers /\ NrOfSections' = NrOfSections
         /\ Named' = Named /\ TextMem' = TextMem
         /\ \A y : StoredName(y)' = StoredName(y)
         /\ AllPlaced' = AllPlaced
         /\ \A y : OwnSym(y)' = OwnSym(y)
         /\ \A y : elfFile.syms[y].shndx # Undef => FileAddress(y)' = FileAddress(y)
         /\ owner' = owner => \A y : FileAddress(y)' = FileAddress(y)
<1>1. Headers' = Headers /\ NrOfSections' = NrOfSections
  BY DEF Headers, NrOfSections
<1>2. \A a : Closest(a)' = Closest(a)
  BY <1>1 DEF Closest
<1>3. \A a : ClosestSection(a)' = ClosestSection(a)
  BY <1>2 DEF ClosestSection
<1>4. \A s, j : SameTarget(s, j)' = SameTarget(s, j)
  BY <1>1, <1>2, <1>3 DEF SameTarget
<1>5. AllPlaced' = AllPlaced
  BY <1>1, <1>4 DEF AllPlaced
<1>6. Named' = Named /\ TextMem' = TextMem
  BY <1>1 DEF Named, TextMem
<1>10. \A y : StoredName(y)' = StoredName(y)
  BY DEF StoredName
<1>7. \A y : elfFile.syms[y].shndx # Undef => FileAddress(y)' = FileAddress(y)
  BY DEF FileAddress
<1>8. owner' = owner => \A y : FileAddress(y)' = FileAddress(y)
  BY DEF FileAddress
<1>9. \A y : OwnSym(y)' = OwnSym(y)
  BY <1>1 DEF OwnSym
<1> QED
  BY <1>1, <1>5, <1>6, <1>7, <1>8, <1>9, <1>10

LEMMA SameRightValue ==
  ASSUME elfFile' = elfFile, owner' = owner, NEW s, NEW k, NEW r
  PROVE  /\ RightValue(s, k, r)' = RightValue(s, k, r)
         /\ BaseLeftOut(r)' = BaseLeftOut(r)
<1>1. Headers' = Headers
  BY SameFile
<1>2. Base' = Base
  BY DEF Base
<1>3. \A y : SymAddress(y)' = SymAddress(y)
  BY <1>2 DEF SymAddress
<1>4. FieldAddress(k, r)' = FieldAddress(k, r)
  BY <1>1, <1>2 DEF FieldAddress
<1> QED
  BY <1>1, <1>2, <1>3, <1>4 DEF RightValue, BaseLeftOut

LEMMA SameOverwritten ==
  ASSUME elfFile' = elfFile, NEW s, NEW j, NEW at
  PROVE  Overwritten(s, j, at)' = Overwritten(s, j, at)
BY SameFile DEF Overwritten

LEMMA SameResolved ==
  ASSUME elfFile' = elfFile, owner' = owner, image' = image, NEW s, NEW j
  PROVE  Resolved(s, j)' = Resolved(s, j)
BY SameFile, SameRightValue, SameOverwritten DEF Resolved

\* a step that relocates nothing
LEMMA NothingRelocated ==
  ASSUME RelocInv, elfFile' = elfFile, owner' = owner, symValue' = symValue, image' = image,
         \A s \in 1..NrOfSections : Applied(elfFile, s) =>
           \A j \in DOMAIN Headers[s].rels : Done(s, j)' => Done(s, j)
  PROVE  SymInv' /\ ReferencedInv' /\ ResolvedInv'
<1>1. /\ Headers' = Headers /\ NrOfSections' = NrOfSections /\ AllPlaced' = AllPlaced
      /\ \A y : OwnSym(y)' = OwnSym(y) /\ FileAddress(y)' = FileAddress(y)
  BY SameFile
<1>2. SymInv'
  BY <1>1 DEF RelocInv, SymInv
<1>3. ReferencedInv'
  BY <1>1 DEF RelocInv, ReferencedInv
<1>4. ResolvedInv'
  BY <1>1, SameResolved DEF RelocInv, ResolvedInv
<1> QED
  BY <1>2, <1>3, <1>4

LEMMA RelocInvInit == RelocInit => RelocInv
<1> SUFFICES ASSUME RelocInit PROVE RelocInv
  OBVIOUS
<1>1. /\ elfFile \in ElfFiles /\ owner = Kernel /\ label = "begin"
      /\ section = 1 /\ rel = 1 /\ target = Undef /\ symSection = NoSection
      /\ symValue = [y \in DOMAIN elfFile.syms |-> elfFile.syms[y].value]
      /\ image = <<>> /\ rounds = 0
      /\ exported = KnownSymbols[Kernel] /\ functions = KnownFunctions
  BY DEF RelocInit
<1>2. RelocTypeOK
  <2>1. NrOfSections \in Nat \ {0}
    BY <1>1, HeaderFacts
  <2>2. symValue \in [DOMAIN elfFile.syms -> Nat]
    BY <1>1, SymTypes
  <2>3. Kernel \in Owners /\ MaxRounds \in Nat
    BY RelocationAssumption
  <2>4. section \in 1..(NrOfSections + 1) /\ target \in 1..NrOfSections
    BY <1>1, <2>1 DEF Undef
  <2>5. symSection.id = -1 /\ symSection.mem = 0
    BY <1>1 DEF NoSection
  <2>6. DOMAIN image = {}
    BY <1>1
  <2> QED
    BY <1>1, <2>2, <2>3, <2>4, <2>5, <2>6 DEF RelocTypeOK
<1>3. RoundInv
  BY <1>1 DEF RoundInv
<1>4. SymInv
  BY <1>1 DEF SymInv
<1>5. ReferencedInv /\ ResolvedInv
  BY <1>1 DEF ReferencedInv, ResolvedInv, Done
<1>6. ExportedAddresses
  BY <1>1 DEF ExportedAddresses
<1> QED
  BY <1>2, <1>3, <1>4, <1>5, <1>6 DEF RelocInv

LEMMA BeginStep == RelocInv /\ Begin => RelocInv'
<1> SUFFICES ASSUME RelocInv, Begin PROVE RelocInv'
  OBVIOUS
<1>1. /\ label = "begin" \/ (label = "relocated" /\ Userspace)
      /\ rounds < MaxRounds
      /\ owner' \in Owners /\ (elfFile.etype = "REL" <=> owner' = Kernel)
      /\ label' = "sections"
      /\ section' = 1 /\ rel' = 1 /\ target' = Undef /\ symSection' = NoSection
      /\ rounds' = rounds + 1
      /\ UNCHANGED <<elfFile, symValue, image, exported, functions>>
  BY DEF Begin, store
<1>2. RelocTypeOK /\ RoundInv /\ SymInv
  BY DEF RelocInv
<1>3. elfFile \in ElfFiles
  BY <1>2 DEF RelocTypeOK
<1>4. /\ Headers' = Headers /\ NrOfSections' = NrOfSections /\ Named' = Named
      /\ \A y : OwnSym(y)' = OwnSym(y)
      /\ \A y : elfFile.syms[y].shndx # Undef => FileAddress(y)' = FileAddress(y)
  BY <1>1, SameFile
<1>5. RelocTypeOK'
  <2>1. NrOfSections \in Nat \ {0} /\ MaxRounds \in Nat
    BY <1>3, HeaderFacts, RelocationAssumption
  <2>2. section' \in 1..(NrOfSections + 1) /\ target' \in 1..NrOfSections
    BY <1>1, <2>1 DEF Undef
  <2>3. symSection'.id = -1 /\ symSection'.mem = 0
    BY <1>1 DEF NoSection
  <2>4. rounds' \in 0..MaxRounds
    BY <1>1, <1>2, <2>1 DEF RelocTypeOK
  <2>5. \A o : InSection(o, 4)' = InSection(o, 4)
    BY <1>4 DEF InSection
  <2>6. \A y : StoredName(y)' = StoredName(y)
    BY <1>1, SameFile
  <2> QED
    BY <2>6, <1>1, <1>2, <1>4, <2>2, <2>3, <2>4, <2>5 DEF RelocTypeOK
<1>6. RoundInv'
  BY <1>1, <1>2 DEF RoundInv
<1>7. SymInv'
  BY <1>1, <1>2, <1>4 DEF SymInv, OwnSym
<1>8. ReferencedInv' /\ ResolvedInv'
  <2>1. \A s \in 1..NrOfSections : \A j : ~Done(s, j)'
    BY <1>1, <1>3, HeaderFacts DEF Done
  <2> QED
    BY <1>4, <2>1 DEF ReferencedInv, ResolvedInv
<1>9. ExportedAddresses'
  BY <1>1 DEF ExportedAddresses
<1> QED
  BY <1>5, <1>6, <1>7, <1>8, <1>9 DEF RelocInv

\* the types that such a step does not change
LEMMA SameTypes ==
  ASSUME RelocTypeOK,
         UNCHANGED <<elfFile, owner, symValue, image, rounds, exported, functions>>,
         label' \in {"sections", "relas", "relocated", "exported", "error"},
         section' \in 1..(NrOfSections + 1),
         label' = "relas" => section' <= NrOfSections /\ rel' \in 1..(Len(Relas') + 1),
         target' \in 1..NrOfSections,
         symSection' = symSection \/ symSection' = NoSection
  PROVE  RelocTypeOK'
<1>1. /\ Headers' = Headers /\ NrOfSections' = NrOfSections /\ Named' = Named
      /\ \A y : StoredName(y)' = StoredName(y)
  BY SameFile
<1>2. symSection'.id \in {-1} \cup (1..NrOfSections) /\ symSection'.mem \in Nat
  BY DEF RelocTypeOK, NoSection
<1>3. \A o : InSection(o, 4)' = InSection(o, 4)
  BY <1>1 DEF InSection
<1> QED
  BY <1>1, <1>2, <1>3 DEF RelocTypeOK

LEMMA PassSectionStep == RelocInv /\ PassSection => RelocInv'
<1> SUFFICES ASSUME RelocInv, PassSection PROVE RelocInv'
  OBVIOUS
<1>1. /\ label = "sections" /\ section <= NrOfSections
      /\ ~Applied(elfFile, section)
      /\ section' = section + 1
      /\ UNCHANGED <<elfFile, owner, label, rel, target, symSection, symValue, image, rounds,
                     exported, functions>>
  BY DEF PassSection, store
<1>2. RelocTypeOK /\ RoundInv
  BY DEF RelocInv
<1>3. elfFile \in ElfFiles /\ section \in 1..(NrOfSections + 1) /\ NrOfSections \in Nat
  BY <1>2, HeaderFacts DEF RelocTypeOK
<1>4. RelocTypeOK'
  <2>1. section' \in 1..(NrOfSections + 1)
    BY <1>1, <1>3
  <2>2. target' \in 1..NrOfSections
    BY <1>1, <1>2 DEF RelocTypeOK
  <2> QED
    BY <1>1, <1>2, <2>1, <2>2, SameTypes
<1>5. RoundInv'
  BY <1>1, <1>2 DEF RoundInv
<1>6. \A s \in 1..NrOfSections : Applied(elfFile, s) => \A j : Done(s, j)' => Done(s, j)
  BY <1>1, <1>3 DEF Done
<1>7. SymInv' /\ ReferencedInv' /\ ResolvedInv'
  BY <1>1, <1>6, NothingRelocated
<1>8. ExportedAddresses'
  BY <1>1 DEF ExportedAddresses
<1> QED
  BY <1>4, <1>5, <1>7, <1>8 DEF RelocInv

LEMMA BeginRelaStep == RelocInv /\ BeginRela => RelocInv'
<1> SUFFICES ASSUME RelocInv, BeginRela PROVE RelocInv'
  OBVIOUS
<1>1. /\ label = "sections" /\ section <= NrOfSections
      /\ Applied(elfFile, section)
      /\ label' = "relas"
      /\ rel' = 1
      /\ target' = Headers[section].info
      /\ symSection' = NoSection
      /\ UNCHANGED <<elfFile, owner, section, symValue, image, rounds, exported, functions>>
  BY DEF BeginRela, store
<1>2. RelocTypeOK /\ RoundInv
  BY DEF RelocInv
<1>3. elfFile \in ElfFiles /\ section \in 1..(NrOfSections + 1) /\ NrOfSections \in Nat
  BY <1>2, HeaderFacts DEF RelocTypeOK
<1>4. section \in 1..NrOfSections
  BY <1>1, <1>3
<1>5. Headers' = Headers /\ NrOfSections' = NrOfSections
  BY <1>1, SameFile
<1>6. RelocTypeOK'
  <2>1. target' \in 1..NrOfSections
    BY <1>1, <1>3, <1>4, HeaderTypes DEF Applied, Considered, Headers, NrOfSections
  <2>2. rel' \in 1..(Len(Relas') + 1)
    <3>1. Len(Headers[section].rels) \in Nat
      BY <1>3, <1>4, HeaderTypes, LenProperties
    <3>2. Relas' = Headers[section].rels
      BY <1>1, <1>5 DEF Relas
    <3> QED
      BY <1>1, <3>1, <3>2
  <2> QED
    BY <1>1, <1>2, <1>3, <2>1, <2>2, SameTypes
<1>7. RoundInv'
  <2>1. Applied(elfFile', section')
    BY <1>1
  <2> QED
    BY <1>1, <1>2, <1>5, <2>1 DEF RoundInv, NoSection
<1>8. \A s \in 1..NrOfSections : Applied(elfFile, s) =>
        \A j \in DOMAIN Headers[s].rels : Done(s, j)' => Done(s, j)
  <2> SUFFICES ASSUME NEW s \in 1..NrOfSections, NEW j \in DOMAIN Headers[s].rels, Done(s, j)'
               PROVE  Done(s, j)
    OBVIOUS
  <2>1. j \in Nat \ {0}
    BY <1>3, RelaTypes
  <2> QED
    BY <1>1, <2>1 DEF Done
<1>9. SymInv' /\ ReferencedInv' /\ ResolvedInv'
  BY <1>1, <1>8, NothingRelocated
<1>10. ExportedAddresses'
  BY <1>1 DEF ExportedAddresses
<1> QED
  BY <1>6, <1>7, <1>9, <1>10 DEF RelocInv

LEMMA SectionsDoneStep == RelocInv /\ SectionsDone => RelocInv'
<1> SUFFICES ASSUME RelocInv, SectionsDone PROVE RelocInv'
  OBVIOUS
<1>1. /\ label = "sections" /\ section > NrOfSections
      /\ label' = "relocated"
      /\ UNCHANGED <<elfFile, owner, section, rel, target, symSection, symValue, image, rounds,
                     exported, functions>>
  BY DEF SectionsDone, work, store
<1>2. RelocTypeOK /\ RoundInv
  BY DEF RelocInv
<1>3. elfFile \in ElfFiles /\ section \in 1..(NrOfSections + 1) /\ target \in 1..NrOfSections
      /\ NrOfSections \in Nat
  BY <1>2, HeaderFacts DEF RelocTypeOK
<1>4. RelocTypeOK'
  BY <1>1, <1>2, <1>3, SameTypes
<1>5. RoundInv'
  BY <1>1, <1>2 DEF RoundInv
<1>6. \A s \in 1..NrOfSections : \A j : Done(s, j)
  BY <1>1, <1>3 DEF Done
<1>7. SymInv' /\ ReferencedInv' /\ ResolvedInv'
  BY <1>1, <1>6, NothingRelocated
<1>8. ExportedAddresses'
  BY <1>1 DEF ExportedAddresses
<1> QED
  BY <1>4, <1>5, <1>7, <1>8 DEF RelocInv

LEMMA FailSectionStep == RelocInv /\ FailSection => RelocInv'
<1> SUFFICES ASSUME RelocInv, FailSection PROVE RelocInv'
  OBVIOUS
<1>1. /\ label' = "error"
      /\ UNCHANGED <<elfFile, owner, section, rel, target, symSection, symValue, image, rounds,
                     exported, functions>>
  BY DEF FailSection, work, store
<1>2. RelocTypeOK /\ RoundInv /\ label = "sections"
  BY DEF RelocInv, FailSection
<1>3. section \in 1..(NrOfSections + 1) /\ target \in 1..NrOfSections
  BY <1>2 DEF RelocTypeOK
<1>4. RelocTypeOK'
  BY <1>1, <1>2, <1>3, SameTypes
<1>5. RoundInv'
  BY <1>1, <1>2 DEF RoundInv
<1>6. \A s, j : ~Done(s, j)'
  BY <1>1 DEF Done
<1>7. SymInv' /\ ReferencedInv' /\ ResolvedInv'
  BY <1>1, <1>6, NothingRelocated
<1>8. ExportedAddresses'
  BY <1>1 DEF ExportedAddresses
<1> QED
  BY <1>4, <1>5, <1>7, <1>8 DEF RelocInv

LEMMA FailRelaStep == RelocInv /\ FailRela => RelocInv'
<1> SUFFICES ASSUME RelocInv, FailRela PROVE RelocInv'
  OBVIOUS
<1>1. /\ label = "relas"
      /\ label' = "error"
      /\ UNCHANGED <<elfFile, owner, section, rel, target, symSection, symValue, image, rounds,
                     exported, functions>>
  BY DEF FailRela, work, store
<1>2. RelocTypeOK /\ RoundInv
  BY DEF RelocInv
<1>3. section \in 1..(NrOfSections + 1) /\ target \in 1..NrOfSections
  BY <1>2 DEF RelocTypeOK
<1>4. RelocTypeOK'
  BY <1>1, <1>2, <1>3, SameTypes
<1>5. RoundInv'
  BY <1>1, <1>2 DEF RoundInv
<1>6. \A s, j : ~Done(s, j)'
  BY <1>1 DEF Done
<1>7. SymInv' /\ ReferencedInv' /\ ResolvedInv'
  BY <1>1, <1>6, NothingRelocated
<1>8. ExportedAddresses'
  BY <1>1 DEF ExportedAddresses
<1> QED
  BY <1>4, <1>5, <1>7, <1>8 DEF RelocInv

LEMMA RelasDoneStep == RelocInv /\ RelasDone => RelocInv'
<1> SUFFICES ASSUME RelocInv, RelasDone PROVE RelocInv'
  OBVIOUS
<1>1. /\ label = "relas" /\ rel > Len(Relas)
      /\ label' = "sections"
      /\ section' = section + 1
      /\ UNCHANGED <<elfFile, owner, rel, target, symSection, symValue, image, rounds,
                     exported, functions>>
  BY DEF RelasDone, store
<1>2. RelocTypeOK /\ RoundInv
  BY DEF RelocInv
<1>3. /\ elfFile \in ElfFiles /\ section \in 1..(NrOfSections + 1) /\ section <= NrOfSections
      /\ rel \in 1..(Len(Relas) + 1) /\ target \in 1..NrOfSections
  BY <1>1, <1>2 DEF RelocTypeOK
<1>4. NrOfSections \in Nat /\ section \in 1..NrOfSections
  BY <1>3, HeaderFacts
<1>5. RelocTypeOK'
  <2>1. section' \in 1..(NrOfSections + 1)
    BY <1>1, <1>4
  <2> QED
    BY <1>1, <1>2, <1>3, <2>1, SameTypes
<1>6. RoundInv'
  BY <1>1, <1>2 DEF RoundInv
<1>7. \A s \in 1..NrOfSections : Applied(elfFile, s) =>
        \A j \in DOMAIN Headers[s].rels : Done(s, j)' => Done(s, j)
  <2> SUFFICES ASSUME NEW s \in 1..NrOfSections, NEW j \in DOMAIN Headers[s].rels, Done(s, j)'
               PROVE  Done(s, j)
    OBVIOUS
  <2>1. s < section \/ s = section
    BY <1>1, <1>4 DEF Done
  <2>2. s = section => j < rel
    <3>1. DOMAIN Headers[s].rels = 1..Len(Headers[s].rels) /\ Len(Headers[s].rels) \in Nat
      BY <1>3, HeaderTypes, LenProperties
    <3> QED
      BY <3>1, <1>1, <1>3 DEF Relas
  <2> QED
    BY <1>1, <2>1, <2>2 DEF Done
<1>8. SymInv' /\ ReferencedInv' /\ ResolvedInv'
  BY <1>1, <1>7, NothingRelocated
<1>9. ExportedAddresses'
  BY <1>1 DEF ExportedAddresses
<1> QED
  BY <1>5, <1>6, <1>8, <1>9 DEF RelocInv

LEMMA OneText ==
  ASSUME elfFile \in ElfFiles
  PROVE  \A j, k \in 1..NrOfSections :
           Headers[j].special = "text" /\ Headers[k].special = "text" => j = k
<1>1. WellFormed(elfFile) /\ DOMAIN elfFile.sections = 1..NrOfSections
  BY HeaderFacts DEF Headers
<1> QED
  BY <1>1 DEF WellFormed, Headers

\* what a store has after new symbols
LEMMA PutDomain ==
  ASSUME NEW old, NEW new, NEW replaces \in BOOLEAN
  PROVE  DOMAIN Put(old, new, replaces) = DOMAIN old \cup {StoredName(y) : y \in DOMAIN new}
BY DEF Put

LEMMA PutOnly ==
  ASSUME NEW old, NEW new, NEW replaces \in BOOLEAN, NEW y \in DOMAIN new, y \in Nat,
         StoredName(y) \notin DOMAIN old,
         \A z \in DOMAIN new : StoredName(z) = StoredName(y) => z = y
  PROVE  Put(old, new, replaces)[StoredName(y)] = new[y]
<1> DEFINE same == {z \in DOMAIN new : StoredName(z) = StoredName(y)}
           kept == CHOOSE x \in same : \A z \in same : IF replaces THEN z <= x ELSE x <= z
<1>1. same = {y}
  OBVIOUS
<1>2. kept = y
  <2> HIDE DEF same
  <2> QED
    BY <1>1
<1>3. Put(old, new, replaces)[StoredName(y)]
        = IF same = {} \/ (~replaces /\ StoredName(y) \in DOMAIN old)
            THEN old[StoredName(y)] ELSE new[kept]
  BY DEF Put
<1> HIDE DEF same, kept
<1> QED
  BY <1>1, <1>2, <1>3

LEMMA ExportStep == RelocInv /\ Export => RelocInv'
<1> SUFFICES ASSUME RelocInv, Export PROVE RelocInv'
  OBVIOUS
<1> DEFINE values == [y \in Named |-> symValue[y]]
           Functions == {z \in Named : elfFile.syms[z].func}
           addresses == [y \in Functions |->
                          IF symValue[y] < TextMem THEN symValue[y] + TextMem ELSE symValue[y]]
<1>1. /\ label = "relocated" /\ ~Userspace
      /\ label' = "exported"
      /\ UNCHANGED <<elfFile, owner, section, rel, target, symSection, symValue, image, rounds>>
  BY DEF Export, work
<1>0. PICK replaces \in BOOLEAN :
        /\ exported' = Put(exported, values, replaces)
        /\ functions' = Put(functions, addresses, replaces)
  BY DEF Export
<1>11. /\ DOMAIN exported' = DOMAIN exported \cup {StoredName(y) : y \in Named}
       /\ DOMAIN functions' = DOMAIN functions \cup {StoredName(y) : y \in Functions}
  <2>1. DOMAIN values = Named /\ DOMAIN addresses = Functions
    OBVIOUS
  <2> HIDE DEF values, addresses, Functions
  <2> QED
    BY <1>0, <2>1, PutDomain
<1>2. RelocTypeOK /\ RoundInv /\ SymInv /\ ReferencedInv
  BY DEF RelocInv
<1>3. elfFile \in ElfFiles /\ owner \in Owners /\ symValue \in [DOMAIN elfFile.syms -> Nat]
  BY <1>2 DEF RelocTypeOK
<1>4. elfFile.etype = "REL"
  BY <1>1, <1>2 DEF RoundInv, Userspace
<1>5. /\ Headers' = Headers /\ NrOfSections' = NrOfSections /\ Named' = Named
      /\ \A y : StoredName(y)' = StoredName(y)
  BY <1>1, SameFile
<1>6. RelocTypeOK'
  <2>1. \A o : InSection(o, 4)' = InSection(o, 4)
    BY <1>5 DEF InSection
  <2>2. /\ DOMAIN exported' \subseteq
             DOMAIN KnownSymbols[Kernel] \cup {StoredName(y) : y \in Named}
        /\ DOMAIN functions' \subseteq DOMAIN KnownFunctions \cup {StoredName(y) : y \in Named}
    BY <1>2, <1>11 DEF RelocTypeOK
  <2>3. {StoredName(y) : y \in Named}' = {StoredName(y) : y \in Named}
    BY <1>5
  <2> HIDE DEF values, addresses, Functions
  <2> QED
    BY <1>1, <1>2, <1>5, <2>1, <2>2, <2>3 DEF RelocTypeOK
<1>7. RoundInv'
  BY <1>1, <1>2, <1>4 DEF RoundInv
<1>8. \A s, j : Done(s, j)
  BY <1>1 DEF Done
<1>9. SymInv' /\ ReferencedInv' /\ ResolvedInv'
  BY <1>1, <1>8, NothingRelocated
<1>10. ExportedAddresses'
  <2>0. \A y : (Referenced(y)' <=> Referenced(y)) /\ (OnlyNamesake(y)' <=> OnlyNamesake(y))
    BY <1>1, <1>5 DEF Referenced, OnlyNamesake
  <2> SUFFICES ASSUME NEW y \in Named, elfFile.syms[y].shndx \in 1..NrOfSections \ {Undef},
                      OnlyNamesake(y)
               PROVE  LET s == elfFile.syms[y].shndx IN
                      /\ Referenced(y) =>
                           exported'[StoredName(y)] = MemOf(elfFile, s) + elfFile.syms[y].value
                      /\ elfFile.syms[y].func /\ Headers[s].special = "text" =>
                           functions'[StoredName(y)] = MemOf(elfFile, s) + elfFile.syms[y].value
    BY <1>1, <1>5, <2>0 DEF ExportedAddresses
  <2> DEFINE s == elfFile.syms[y].shndx
  <2>1. y \in DOMAIN elfFile.syms /\ OwnSym(y) /\ s \in 1..NrOfSections
    BY DEF Named, OwnSym
  <2>2. /\ FileAddress(y) = MemOf(elfFile, s) + elfFile.syms[y].value
        /\ MemOf(elfFile, s) = 0 \/ elfFile.syms[y].value < MemOf(elfFile, s)
    BY <1>3, <1>4, <2>1, FileAddressType
  <2>3. Referenced(y) => symValue[y] = FileAddress(y)
    BY <1>2, <1>8, <2>1 DEF ReferencedInv, Referenced
  <2>6. /\ StoredName(y) \notin DOMAIN exported /\ StoredName(y) \notin DOMAIN functions
        /\ \A z \in Named : StoredName(z) = StoredName(y) => z = y
        /\ y \in Nat
    <3>1. /\ exported = KnownSymbols[Kernel] /\ functions = KnownFunctions
      BY <1>1 DEF RelocInv, RoundInv
    <3>2. y \in Nat
      BY <1>3, <2>1, SymTypes
    <3> QED
      BY <3>1, <3>2 DEF OnlyNamesake
  <2>4. exported'[StoredName(y)] = symValue[y]
    <3>1. DOMAIN values = Named /\ values[y] = symValue[y]
      OBVIOUS
    <3> HIDE DEF values, addresses, Functions
    <3> QED
      BY <1>0, <2>6, <3>1, PutOnly
  <2>5. ASSUME elfFile.syms[y].func, Headers[s].special = "text"
        PROVE  functions'[StoredName(y)] = MemOf(elfFile, s) + elfFile.syms[y].value
    <3>1. TextMem = Headers[s].mem
      <4> DEFINE text == {k \in 1..NrOfSections : Headers[k].special = "text"}
      <4>0. \A j, k \in 1..NrOfSections :
              Headers[j].special = "text" /\ Headers[k].special = "text" => j = k
        BY <1>3, OneText
      <4>1. text = {s}
        BY <2>1, <2>5, <4>0
      <4>2. s \in Nat
        BY <1>3, <2>1, HeaderFacts
      <4>3. s = CHOOSE k \in text : \A j \in text : k <= j
        <5> HIDE DEF text, s
        <5> QED
          BY <4>1, <4>2
      <4> QED
        BY <4>3 DEF TextMem
    <3>2. MemOf(elfFile, s) = Headers[s].mem
      BY <2>5 DEF MemOf, Headers
    <3>3. functions'[StoredName(y)]
            = IF symValue[y] < TextMem THEN symValue[y] + TextMem ELSE symValue[y]
      <4>1. /\ y \in DOMAIN addresses /\ DOMAIN addresses \subseteq Named
            /\ addresses[y] = IF symValue[y] < TextMem THEN symValue[y] + TextMem ELSE symValue[y]
        BY <2>5
      <4>2. \A z \in DOMAIN addresses : StoredName(z) = StoredName(y) => z = y
        BY <2>6, <4>1
      <4> HIDE DEF values, addresses, Functions
      <4>3. Put(functions, addresses, replaces)[StoredName(y)] = addresses[y]
        BY <2>6, <4>1, <4>2, PutOnly
      <4> QED
        BY <1>0, <4>1, <4>3
    <3>4. symValue[y] = elfFile.syms[y].value \/ symValue[y] = FileAddress(y)
      BY <1>2, <2>1 DEF SymInv
    <3>5. /\ elfFile.syms[y].value \in Nat /\ Headers[s].mem \in Nat /\ symValue[y] \in Nat
      BY <1>3, <2>1, SymTypes, HeaderTypes
    <3> QED
      BY <2>2, <3>1, <3>2, <3>3, <3>4, <3>5
  <2> QED
    BY <2>2, <2>3, <2>4, <2>5
<1> QED
  BY <1>6, <1>7, <1>9, <1>10 DEF RelocInv

\* ApplyRela writes the bytes of one value
LEMMA ApplyRelaFacts ==
  ASSUME RelocInv, ApplyRela
  PROVE  LET r == Relas[rel]
             at == LocInElf(r)
             field == at..(at + Written(r.type) - 1)
         IN /\ AtRela /\ ~Fails(r)
            /\ target' = Target(r)
            /\ symSection' = NewSymSection(elfFile.syms[r.sym].shndx)
            /\ symValue' = [symValue EXCEPT ![r.sym] = NewSymValue(r)]
            /\ DOMAIN image' = DOMAIN image \cup field
            /\ \A o \in DOMAIN image' :
                 image'[o] = IF o \in field THEN <<Value(r), o - at>> ELSE image[o]
            /\ rel' = rel + 1
            /\ UNCHANGED <<elfFile, owner, label, section, rounds, exported, functions>>
BY DEF ApplyRela, AtRela, store

LEMMA ApplyRelaTypes == RelocInv /\ ApplyRela => RelocTypeOK'
<1> SUFFICES ASSUME RelocInv, ApplyRela PROVE RelocTypeOK'
  OBVIOUS
<1> DEFINE r == Relas[rel]
           at == LocInElf(r)
           field == at..(at + Written(r.type) - 1)
<1>1. /\ AtRela /\ ~Fails(r)
      /\ target' = Target(r)
      /\ symSection' = NewSymSection(elfFile.syms[r.sym].shndx)
      /\ symValue' = [symValue EXCEPT ![r.sym] = NewSymValue(r)]
      /\ DOMAIN image' = DOMAIN image \cup field
      /\ \A o \in DOMAIN image' :
           image'[o] = IF o \in field THEN <<Value(r), o - at>> ELSE image[o]
      /\ rel' = rel + 1
      /\ UNCHANGED <<elfFile, owner, label, section, rounds, exported, functions>>
  BY ApplyRelaFacts
<1>2. /\ elfFile \in ElfFiles
      /\ section \in 1..NrOfSections /\ Applied(elfFile, section)
      /\ rel \in DOMAIN Relas /\ Relas = Headers[section].rels
      /\ symValue \in [DOMAIN elfFile.syms -> Nat]
  BY <1>1, AtRelaFacts
<1>3. /\ Headers' = Headers /\ NrOfSections' = NrOfSections /\ Named' = Named
      /\ Relas' = Relas /\ \A y : StoredName(y)' = StoredName(y)
  BY <1>1, SameFile DEF Relas
<1>4. /\ elfFile.syms[r.sym].shndx \in 1..NrOfSections
      /\ NewSymSection(elfFile.syms[r.sym].shndx)
           = [id |-> elfFile.syms[r.sym].shndx, mem |-> MemOf(elfFile, elfFile.syms[r.sym].shndx)]
      /\ NewSymValue(r) \in Nat
  BY <1>1, SymbolFacts
<1>5. /\ Target(r) \in 1..NrOfSections /\ at \in Int /\ Value(r) \in Int
      /\ elfFile.etype = "REL" => at = Headers[Headers[section].info].offset + r.offset
  BY <1>1, PlaceTypes
<1>6. symSection'.id \in 1..NrOfSections /\ symSection'.mem \in Nat
  <2>1. MemOf(elfFile, elfFile.syms[r.sym].shndx) \in Nat
    BY <1>2, <1>4, HeaderTypes
  <2> QED
    BY <1>1, <1>4, <2>1
<1>7. symValue' \in [DOMAIN elfFile.syms -> Nat]
  BY <1>1, <1>2, <1>4
<1>8. rel' \in 1..(Len(Relas) + 1)
  <2> DEFINE n == Len(Relas)
  <2>1. DOMAIN Relas = 1..n /\ n \in Nat
    BY <1>2, HeaderTypes, LenProperties
  <2>2. rel \in 1..n /\ rel' = rel + 1
    BY <1>1, <1>2, <2>1
  <2> HIDE DEF n
  <2>3. rel' \in 1..(n + 1)
    BY <2>1, <2>2
  <2> QED
    BY <2>3 DEF n
<1>9. ASSUME NEW o \in DOMAIN image'
      PROVE  /\ image'[o][1] \in Int /\ image'[o][2] \in 0..7
             /\ elfFile.etype = "REL" => InSection(o, 4)
  <2>1. CASE o \in field
    <3>1. Written(r.type) \in {0, 4, 8} /\ Written(r.type) <= FieldWidth(r.type) + 4
      BY WidthTypes
    <3>2. image'[o] = <<Value(r), o - at>>
      BY <1>1, <2>1
    <3>3. o \in Int /\ at <= o /\ o < at + Written(r.type)
      <4> HIDE DEF at, r
      <4> QED
        BY <1>5, <2>1, <3>1
    <3>4. o - at \in 0..7
      <4> HIDE DEF at, r
      <4> QED
        BY <1>5, <3>1, <3>3
    <3>5. elfFile.etype = "REL" => InSection(o, 4)
      <4> DEFINE info == Headers[section].info
      <4>1. /\ info \in 1..NrOfSections /\ Headers[info].alloc
            /\ elfFile.etype = "REL" => r.offset + FieldWidth(r.type) <= Headers[info].size
        BY <1>2, RelocFacts
      <4>2. Headers[info].offset \in Nat /\ Headers[info].size \in Nat /\ r.offset \in Nat
        BY <1>2, <4>1, HeaderTypes, RelaTypes
      <4>3. FieldWidth(r.type) \in {0, 4, 8}
        BY WidthTypes
      <4>4. elfFile.etype = "REL" =>
              /\ Headers[info].offset <= o
              /\ o < Headers[info].offset + Headers[info].size + 4
        <5> HIDE DEF at, r, info
        <5> QED
          BY <1>5, <3>1, <3>3, <4>1, <4>2, <4>3 DEF info
      <4> QED
        BY <4>1, <4>4 DEF InSection
    <3> QED
      BY <1>5, <3>2, <3>4, <3>5
  <2>2. CASE o \notin field
    <3>1. o \in DOMAIN image /\ image'[o] = image[o]
      BY <1>1, <2>2
    <3> QED
      BY <3>1 DEF RelocInv, RelocTypeOK
  <2> QED
    BY <2>1, <2>2
<1>10. \A o : InSection(o, 4)' = InSection(o, 4)
  BY <1>3 DEF InSection
<1>11. {StoredName(y) : y \in Named}' = {StoredName(y) : y \in Named}
  BY <1>3
<1>12. RelocTypeOK
  BY DEF RelocInv
<1> HIDE DEF r, at, field
<1> QED
  BY <1>1, <1>3, <1>5, <1>6, <1>7, <1>8, <1>9, <1>10, <1>11, <1>12 DEF RelocTypeOK, AtRela

LEMMA ApplyRelaSymbols == RelocInv /\ ApplyRela => RoundInv' /\ SymInv' /\ ReferencedInv'
<1> SUFFICES ASSUME RelocInv, ApplyRela PROVE RoundInv' /\ SymInv' /\ ReferencedInv'
  OBVIOUS
<1> DEFINE r == Relas[rel]
<1>1. /\ AtRela /\ ~Fails(r)
      /\ target' = Target(r)
      /\ symSection' = NewSymSection(elfFile.syms[r.sym].shndx)
      /\ symValue' = [symValue EXCEPT ![r.sym] = NewSymValue(r)]
      /\ rel' = rel + 1
      /\ UNCHANGED <<elfFile, owner, label, section, exported, functions>>
  BY ApplyRelaFacts
<1>2. /\ elfFile \in ElfFiles
      /\ section \in 1..NrOfSections /\ Applied(elfFile, section)
      /\ rel \in DOMAIN Relas /\ Relas = Headers[section].rels
      /\ symValue \in [DOMAIN elfFile.syms -> Nat]
  BY <1>1, AtRelaFacts
<1>3. /\ Headers' = Headers /\ NrOfSections' = NrOfSections
      /\ \A y : OwnSym(y)' = OwnSym(y) /\ FileAddress(y)' = FileAddress(y)
      /\ \A a : ClosestSection(a)' = ClosestSection(a)
  BY <1>1, SameFile DEF ClosestSection, Closest
<1>4. /\ r.sym \in DOMAIN elfFile.syms
      /\ NewSymSection(elfFile.syms[r.sym].shndx)
           = [id |-> elfFile.syms[r.sym].shndx, mem |-> MemOf(elfFile, elfFile.syms[r.sym].shndx)]
      /\ OwnSym(r.sym) => NewSymValue(r) = FileAddress(r.sym)
  BY <1>1, SymbolFacts
<1>5. RoundInv /\ SymInv /\ ReferencedInv /\ label = "relas"
  BY <1>1 DEF RelocInv, AtRela
<1>6. RoundInv'
  <2>1. target' = IF elfFile.etype = "REL" \/ rel' = 1 THEN Headers[section].info
                  ELSE ClosestSection(Headers[section].rels[rel' - 1].offset)
    <3>1. rel \in Nat \ {0}
      BY <1>2, RelaTypes
    <3>2. rel' # 1 /\ rel' - 1 = rel
      BY <1>1, <3>1
    <3>3. elfFile.etype = "REL" => target = Headers[section].info
      BY <1>5 DEF RoundInv
    <3> QED
      BY <1>1, <1>2, <3>2, <3>3 DEF Target
  <2>2. symSection'.mem = MemOf(elfFile, symSection'.id)
    BY <1>1, <1>4
  <2> QED
    BY <1>1, <1>2, <1>3, <1>5, <2>1, <2>2 DEF RoundInv
<1>7. \A y \in DOMAIN elfFile.syms :
        symValue'[y] = IF y = r.sym THEN NewSymValue(r) ELSE symValue[y]
  BY <1>1, <1>2
<1>8. SymInv'
  BY <1>1, <1>3, <1>4, <1>5, <1>7 DEF SymInv
<1>9. ReferencedInv'
  <2> SUFFICES ASSUME NEW s \in 1..NrOfSections, Applied(elfFile, s),
                      NEW j \in DOMAIN Headers[s].rels, Done(s, j)', OwnSym(Headers[s].rels[j].sym)
               PROVE  symValue'[Headers[s].rels[j].sym] = FileAddress(Headers[s].rels[j].sym)
    BY <1>1, <1>3 DEF ReferencedInv
  <2>1. Headers[s].rels[j].sym \in DOMAIN elfFile.syms
    BY <1>2, RelocFacts
  <2>2. Done(s, j) \/ (s = section /\ j = rel)
    <3>1. j \in Nat /\ rel \in Nat
      BY <1>2, RelaTypes
    <3> QED
      BY <1>1, <1>5, <3>1 DEF Done
  <2> QED
    BY <1>2, <1>4, <1>5, <1>7, <2>1, <2>2 DEF ReferencedInv
<1> QED
  BY <1>6, <1>8, <1>9

\* the bytes of a field that was resolved before are written again only by a
\* relocation that is too wide
LEMMA OtherField ==
  ASSUME RelocInv, ApplyRela, AllPlaced,
         NEW s \in 1..NrOfSections, Applied(elfFile, s), NEW j \in DOMAIN Headers[s].rels,
         Done(s, j), s # section \/ j # rel,
         NEW k \in 1..NrOfSections, Holds(elfFile, s, j, k),
         ~Overwritten(s, j, FieldIn(elfFile, k, Headers[s].rels[j])),
         NEW b \in 0..(FieldWidth(Headers[s].rels[j].type) - 1)
  PROVE  LET r == Relas[rel]
             at == LocInElf(r)
         IN FieldIn(elfFile, k, Headers[s].rels[j]) + b \notin at..(at + Written(r.type) - 1)
<1> DEFINE r == Relas[rel]
           at == LocInElf(r)
           q == Headers[s].rels[j]
           atq == FieldIn(elfFile, k, q)
<1>1. AtRela /\ ~Fails(r)
  BY ApplyRelaFacts
<1>2. /\ elfFile \in ElfFiles
      /\ section \in 1..NrOfSections /\ Applied(elfFile, section)
      /\ rel \in DOMAIN Relas /\ Relas = Headers[section].rels
      /\ target \in 1..NrOfSections
  BY <1>1, AtRelaFacts
<1>3. Holds(elfFile, section, rel, target) /\ at = FieldIn(elfFile, target, r)
  <2>1. SameTarget(section, rel)
    BY <1>2 DEF AllPlaced
  <2> QED
    BY <1>1, <2>1, RightPlace
<1>4. \/ atq + FieldWidth(q.type) <= at
      \/ at + FieldWidth(r.type) <= atq
  BY <1>2, <1>3, FieldsApart
<1>5. at \in Int /\ atq \in Int
  BY <1>1, <1>2, PlaceTypes, FieldInType
<1>6. /\ Written(r.type) \in {0, 4, 8} /\ FieldWidth(r.type) \in {0, 4, 8}
      /\ FieldWidth(q.type) \in {0, 4, 8}
      /\ r.type # "32" => FieldWidth(r.type) = Written(r.type)
      /\ r.type = "32" => FieldWidth(r.type) = 4 /\ Written(r.type) = 8
  BY WidthTypes
<1>7. ~(r.type = "32" /\ at < atq /\ atq < at + 8)
  <2> SUFFICES ASSUME r.type = "32", at < atq, atq < at + 8
               PROVE  FALSE
    OBVIOUS
  <2>1. elfFile.etype = "REL"
    BY <1>2, RelocFacts, HeaderFacts
  <2>2. at = Headers[Headers[section].info].offset + r.offset
    BY <1>1, <2>1, PlaceTypes
  <2>3. section \in s..NrOfSections /\ (section = s => rel > j)
    <3>1. s < section \/ (s = section /\ j < rel)
      BY <1>1 DEF Done, AtRela
    <3>2. s \in Nat /\ section \in Nat /\ NrOfSections \in Nat /\ section <= NrOfSections
      BY <1>2, HeaderFacts
    <3>3. j \in Nat /\ rel \in Nat
      BY <1>2, RelaTypes
    <3> QED
      BY <3>1, <3>2, <3>3
  <2>4. Overwritten(s, j, atq)
    <3> HIDE DEF atq
    <3> QED
      BY <1>2, <2>1, <2>2, <2>3 DEF Overwritten
  <2> QED
    BY <2>4
<1> HIDE DEF r, at, q, atq
<1>8. b \in Nat /\ b < FieldWidth(q.type)
  BY <1>6 DEF q
<1>9. atq + b < at \/ at + Written(r.type) <= atq + b
  BY <1>4, <1>5, <1>6, <1>7, <1>8
<1>10. atq + b \notin at..(at + Written(r.type) - 1)
  BY <1>5, <1>6, <1>8, <1>9
<1> QED
  BY <1>10 DEF r, at, q, atq

LEMMA ApplyRelaResolved == RelocInv /\ ApplyRela => ResolvedInv'
<1> SUFFICES ASSUME RelocInv, ApplyRela PROVE ResolvedInv'
  OBVIOUS
<1> DEFINE r == Relas[rel]
           at == LocInElf(r)
           field == at..(at + Written(r.type) - 1)
<1>1. /\ AtRela /\ ~Fails(r)
      /\ DOMAIN image' = DOMAIN image \cup field
      /\ \A o \in DOMAIN image' :
           image'[o] = IF o \in field THEN <<Value(r), o - at>> ELSE image[o]
      /\ rel' = rel + 1
      /\ UNCHANGED <<elfFile, owner, label, section>>
  BY ApplyRelaFacts
<1>2. /\ elfFile \in ElfFiles
      /\ section \in 1..NrOfSections /\ Applied(elfFile, section)
      /\ rel \in DOMAIN Relas /\ Relas = Headers[section].rels
      /\ target \in 1..NrOfSections
  BY <1>1, AtRelaFacts
<1>3. Headers' = Headers /\ NrOfSections' = NrOfSections /\ AllPlaced' = AllPlaced
  BY <1>1, SameFile
<1>4. /\ \A s, k, q : RightValue(s, k, q)' = RightValue(s, k, q)
      /\ \A q : BaseLeftOut(q)' = BaseLeftOut(q)
      /\ \A s, j, a : Overwritten(s, j, a)' = Overwritten(s, j, a)
  BY <1>1, SameRightValue, SameOverwritten
<1> SUFFICES ASSUME AllPlaced, NEW s \in 1..NrOfSections, Applied(elfFile, s),
                    NEW j \in DOMAIN Headers[s].rels, Done(s, j)'
             PROVE  Resolved(s, j)'
  BY <1>1, <1>3 DEF ResolvedInv
<1> DEFINE q == Headers[s].rels[j]
           k == CHOOSE n \in 1..NrOfSections : Holds(elfFile, s, j, n)
           atq == FieldIn(elfFile, k, q)
<1>5. k \in 1..NrOfSections /\ Holds(elfFile, s, j, k)
  <2>1. SameTarget(s, j)
    BY DEF AllPlaced
  <2> QED
    BY <1>2, <2>1, FieldSection
<1>6. ASSUME \/ BaseLeftOut(q)
             \/ Overwritten(s, j, atq)
             \/ \A b \in 0..(FieldWidth(q.type) - 1) :
                  atq + b \in DOMAIN image' /\ image'[atq + b] = <<RightValue(s, k, q), b>>
      PROVE  Resolved(s, j)'
  BY <1>1, <1>3, <1>4, <1>6 DEF Resolved
<1>7. SameTarget(section, rel)
  BY <1>2 DEF AllPlaced
<1>8. CASE s = section /\ j = rel
  <2>1. /\ Holds(elfFile, section, rel, target)
        /\ at = FieldIn(elfFile, target, r)
        /\ ~BaseLeftOut(r) => Value(r) = RightValue(section, target, r)
    BY <1>1, <1>7, RightPlace, RightField
  <2>2. q = r /\ k = target
    <3>1. q = r
      BY <1>2, <1>8
    <3>2. Holds(elfFile, s, j, target)
      BY <1>8, <2>1
    <3> HIDE DEF k, r, q
    <3>3. k = target
      BY <1>2, <1>5, <1>8, <3>2, FieldsApart
    <3> QED
      BY <3>1, <3>3
  <2>3. ASSUME NEW b \in 0..(FieldWidth(r.type) - 1)
        PROVE  at + b \in DOMAIN image' /\ image'[at + b] = <<Value(r), b>>
    <3>1. at \in Int
      BY <1>1, PlaceTypes
    <3>2. /\ Written(r.type) \in {0, 4, 8} /\ FieldWidth(r.type) \in {0, 4, 8}
          /\ FieldWidth(r.type) <= Written(r.type)
      BY WidthTypes
    <3>3. b \in Nat /\ b < Written(r.type)
      BY <3>2
    <3>4. at + b \in field /\ (at + b) - at = b
      <4> HIDE DEF at, r
      <4> QED
        BY <3>1, <3>2, <3>3
    <3> HIDE DEF at, field, r
    <3> QED
      BY <1>1, <3>4
  <2>4. atq = at
    BY <2>1, <2>2
  <2> HIDE DEF atq, k, q, at, r
  <2> QED
    BY <1>6, <1>8, <2>1, <2>2, <2>3, <2>4
<1>9. CASE ~(s = section /\ j = rel)
  <2>1. Done(s, j)
    <3>1. j \in Nat /\ rel \in Nat
      BY <1>2, RelaTypes
    <3> QED
      BY <1>1, <1>9, <3>1 DEF Done, AtRela
  <2>2. Resolved(s, j)
    BY <2>1 DEF RelocInv, ResolvedInv
  <2>3. \/ BaseLeftOut(q)
        \/ Overwritten(s, j, atq)
        \/ \A b \in 0..(FieldWidth(q.type) - 1) :
             atq + b \in DOMAIN image /\ image[atq + b] = <<RightValue(s, k, q), b>>
    BY <2>2 DEF Resolved
  <2>4. ASSUME ~Overwritten(s, j, atq), NEW b \in 0..(FieldWidth(q.type) - 1)
        PROVE  atq + b \notin field
    <3> HIDE DEF k
    <3> QED
      BY <1>5, <1>9, <2>1, <2>4, OtherField
  <2> HIDE DEF atq, k, q, field, r
  <2> QED
    BY <1>1, <1>6, <2>3, <2>4
<1> QED
  BY <1>8, <1>9

LEMMA ApplyRelaStep == RelocInv /\ ApplyRela => RelocInv'
<1> SUFFICES ASSUME RelocInv, ApplyRela PROVE RelocInv'
  OBVIOUS
<1>1. ExportedAddresses'
  BY ApplyRelaFacts DEF ExportedAddresses, AtRela
<1> QED
  BY <1>1, ApplyRelaTypes, ApplyRelaSymbols, ApplyRelaResolved DEF RelocInv

LEMMA RelocStutter == RelocInv /\ UNCHANGED relocVars => RelocInv'
<1> SUFFICES ASSUME RelocInv, UNCHANGED relocVars PROVE RelocInv'
  OBVIOUS
<1>1. UNCHANGED <<elfFile, owner, label, section, rel, target, symSection, symValue, image,
                  rounds, exported, functions>>
  BY DEF relocVars, work, store
<1>2. /\ Headers' = Headers /\ NrOfSections' = NrOfSections /\ Named' = Named
      /\ \A s, j : Done(s, j)' = Done(s, j)
  BY <1>1, SameFile DEF Done
<1>3. SymInv' /\ ReferencedInv' /\ ResolvedInv'
  BY <1>1, <1>2, NothingRelocated
<1>4. RelocTypeOK'
  BY <1>1, <1>2, SameFile DEF RelocInv, RelocTypeOK, InSection, Relas
<1>5. RoundInv'
  BY <1>1, <1>2 DEF RelocInv, RoundInv, ClosestSection, Closest
<1>6. ExportedAddresses'
  BY <1>1, <1>2, SameFile DEF RelocInv, ExportedAddresses, Referenced, OnlyNamesake
<1> QED
  BY <1>3, <1>4, <1>5, <1>6 DEF RelocInv

LEMMA RelocInvStep == RelocInv /\ [RelocNext]_relocVars => RelocInv'
BY BeginStep, PassSectionStep, FailSectionStep, BeginRelaStep, SectionsDoneStep, ApplyRelaStep, FailRelaStep,
   RelasDoneStep, ExportStep, RelocStutter DEF RelocNext

LEMMA RelocInvariant == RelocSpec => []RelocInv
BY RelocInvInit, RelocInvStep, PTL DEF RelocSpec

-----------------------------------------------------------------------------
(***************************************************************************)
(* applyRelaOnSection keeps every variable in its type, and writes a       *)
(* module's relocations only into the allocated sections that they are for,*)
(* or into the four bytes behind one.                                      *)
(***************************************************************************)
THEOREM RelocTypesCorrect == RelocSpec => []RelocTypeOK
<1>1. RelocInv => RelocTypeOK
  BY DEF RelocInv
<1> QED
  BY <1>1, RelocInvariant, PTL

(***************************************************************************)
(* However often applyRelocations was run on a file, for whatever process, *)
(* each field has the value that its relocation means for the owner, unless*)
(* the base of a library is left out of it.                                *)
(***************************************************************************)
THEOREM FieldsAreResolved == RelocSpec => []FieldsResolved
<1>1. RelocInv => FieldsResolved
  BY DEF RelocInv, ResolvedInv, FieldsResolved, Done
<1> QED
  BY <1>1, RelocInvariant, PTL

(***************************************************************************)
(* addSymbolsToStore gives the kernel, whether it replaces what it finds or*)
(* not, the guest's addresses of a module's functions and of every symbol  *)
(* that a relocation refers to, under each name that only one of them has. *)
(***************************************************************************)
THEOREM ExportsAreRight == RelocSpec => []ExportedAddresses
<1>1. RelocInv => ExportedAddresses
  BY DEF RelocInv
<1> QED
  BY <1>1, RelocInvariant, PTL
=============================================================================
