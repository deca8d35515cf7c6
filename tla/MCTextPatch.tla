---------------------------- MODULE MCTextPatch ----------------------------
(***************************************************************************)
(* Text of 80 bytes with every kind of patch site.  The bytes that the     *)
(* guest has there are written out: calls and jmps with the distance to    *)
(* their target in memory, and the nops that fill a gap from a table.      *)
(*                                                                         *)
(* Files: the kernel and a module on every set of CPU features, the kernel *)
(* with its jump labels in every state, and with a paravirt call of every  *)
(* kind and length; and two kernels that patch behind the copy.            *)
(***************************************************************************)
EXTENDS TextPatch, SequencesExt

CONSTANTS key1, key2

MCKeys == {key1, key2}
MCAnyClobbers == {"rax", "rdx"}

Code(k) == [op |-> "code", k |-> k]
Nop(n) == [k \in 1..n |-> [op |-> "nop", length |-> n, k |-> k]]

\* the nops for a gap of 0 to 10 bytes, with a longest nop of 8 bytes
Gap == [n \in 0..10 |-> CASE n <= 8 -> Nop(n)
                          [] n = 9 -> Nop(8) \o Nop(1)
                          [] n = 10 -> Nop(8) \o Nop(2)]

MCInsns == [t \in NativeSites \cup {"mov32", "mov64"} |->
  CASE t = "swapgs" -> <<Code(201), Code(202), Code(203)>>
    [] t = "mov32" -> <<Code(211), Code(212)>>
    [] t = "mov64" -> <<Code(221), Code(222), Code(223)>>
    [] OTHER -> <<Code(230)>>]

(***************************************************************************)
(* .text is at 100 in the file and at 1000 in memory.  The replacements in *)
(* .altinstr_replacement are at 300 and 1900, so that the one at 304 in the*)
(* file is at 1904: its call of 1200 has the operand -709.  One replacement*)
(* is in .text itself, at 150 and 1050, with the operand 145.              *)
(***************************************************************************)
MCAlternatives ==
  <<[at |-> 2,  len |-> 7,  feature |-> "fa", repl |-> Jump("e8", -709), pointer |-> 304],
    [at |-> 11, len |-> 5,  feature |-> "fa", repl |-> Jump("e8", 145),  pointer |-> 150],
    [at |-> 18, len |-> 4,  feature |-> "fb", repl |-> <<Code(240)>>,    pointer |-> 310],
    [at |-> 24, len |-> 11, feature |-> "fb", repl |-> <<Code(241)>>,    pointer |-> 311]>>

GuestAlternatives ==
  <<Jump("e8", 193) \o Gap[2], Jump("e8", 184), <<Code(240)>> \o Gap[3],
    <<Code(241)>> \o Gap[10]>>

\* what the guest's kernel wants at a paravirt call at 37 in .text, if it fits
MCOps ==
  [t \in {"swapgs", "iret", "load_sp0", "leave", "pgd_val", "set_pte"} |->
     CASE t = "leave"   -> [is |-> "nop", address |-> 0]
       [] t = "pgd_val" -> [is |-> "ident64", address |-> 0]
       [] t = "set_pte" -> [is |-> "ident32", address |-> 0]
       [] t = "iret"    -> [is |-> "function", address |-> 1400]
       [] OTHER         -> [is |-> "function", address |-> 1500]]

Wanted == [t \in DOMAIN MCOps \cup {"banner"} |->
  CASE t = "swapgs"   -> MCInsns["swapgs"]
    [] t = "pgd_val"  -> MCInsns["mov64"]
    [] t = "set_pte"  -> MCInsns["mov32"]
    [] t = "iret"     -> Jump("e9", 358)
    [] t = "load_sp0" -> Jump("e8", 458)
    [] OTHER          -> <<>>]

Original(at, len) == [k \in 1..len |-> Code(at + k)]

GuestPatchSite(p) ==
  IF \/ Len(Wanted[p.type]) > p.len
     \/ p.type = "load_sp0" /\ p.clobbers # MCAnyClobbers
  THEN Original(p.at, p.len)
  ELSE Wanted[p.type] \o Gap[p.len - Len(Wanted[p.type])]

\* labels at 57 and 64, of one key, and at 71; one behind .text
MCLabels == <<[code |-> 71, target |-> 20, key |-> key2],
              [code |-> 64, target |-> 70, key |-> key1],
              [code |-> 57, target |-> 63, key |-> key1],
              [code |-> 95, target |-> 99, key |-> key2]>>
LabelOperand == [at \in {57, 64, 71} |->
                   CASE at = 57 -> 1 [] at = 64 -> 1 [] at = 71 -> -56]

\* .text as code, with what is at some offsets
With(places, size) ==
  [k \in 1..size |->
     IF \E at \in DOMAIN places : k - at \in DOMAIN places[at]
     THEN LET at == CHOOSE at \in DOMAIN places : k - at \in DOMAIN places[at]
          IN places[at][k - at]
     ELSE Code(k)]

FileOf(isKernel, features, p, on) ==
  LET a == MCAlternatives
      lock == IF "up" \in features THEN Op("3e") ELSE Op("f0")
      lockAt == [at \in {46, 48} |-> <<lock>>]
      patched == [n \in {n \in DOMAIN a : a[n].feature \in features} |->
                    GuestAlternatives[n]]
      guestAlt == [at \in {a[n].at : n \in DOMAIN patched} |->
                     patched[CHOOSE n \in DOMAIN patched : a[n].at = at]]
      labels == IF isKernel THEN {57, 64, 71} ELSE {}
      guestLabel == [at \in labels |->
                       IF at \in on THEN Jump("e9", LabelOperand[at]) ELSE AtomicNop]
      guest == guestAlt @@ lockAt @@ guestLabel @@ (37 :> GuestPatchSite(p))
                 @@ (50 :> AtomicNop)
      tail == <<Op("zero")>> \o [k \in 1..6 |-> Code(300 + k)]
  IN [isKernel |-> isKernel, size |-> 80,
      text |-> With([at \in {46, 48} |-> <<Op("f0")>>], 81), tail |-> tail,
      index |-> 100, memindex |-> 1000,
      replIndex |-> 300, replMemindex |-> 1900, replSize |-> 20,
      alternatives |-> a, features |-> features, patchSites |-> <<p>>,
      ops |-> MCOps, locks |-> <<46, -3, 48, 200>>, mcounts |-> <<50, 81>>,
      jumpTable |-> IF isKernel THEN ToSet(MCLabels) ELSE {},
      guestTable |-> IF isKernel THEN MCLabels ELSE <<>>,
      mem |-> With(guest, 80) \o <<tail[1]>> \o AtomicNop \o <<tail[7]>>]

Site(type, len, clobbers) ==
  [at |-> 37, len |-> len, type |-> type, clobbers |-> clobbers]

\* a call of mcount behind the copy, and a label at the end of .text, with
\* nothing copied behind it
CallBehind(f) == [f EXCEPT !.mcounts = <<50, 81, 210>>]

LabelBehind(f) ==
  LET label == [code |-> 80, target |-> 20, key |-> key1]
  IN [f EXCEPT !.tail = <<>>, !.mem = SubSeq(f.mem, 1, 80), !.mcounts = <<50>>,
               !.jumpTable = f.jumpTable \cup {label},
               !.guestTable = Append(f.guestTable, label)]

MCFiles ==
  {FileOf(isKernel, features, Site("swapgs", 7, {}), {}) :
     isKernel \in BOOLEAN, features \in SUBSET {"fa", "fb", "up"}}
  \cup {FileOf(TRUE, {"fa"}, Site("leave", 6, {}), on) : on \in SUBSET {57, 64, 71}}
  \cup {FileOf(FALSE, {}, Site(type, len, clobbers), {}) :
          type \in DOMAIN Wanted, len \in 0..7,
          clobbers \in {MCAnyClobbers, {"rax"}}}
  \cup {CallBehind(FileOf(TRUE, {}, Site("leave", 6, {}), {})),
        LabelBehind(FileOf(TRUE, {}, Site("leave", 6, {}), {}))}
=============================================================================
