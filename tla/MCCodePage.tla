---------------------------- MODULE MCCodePage ----------------------------
(***************************************************************************)
(* Pages of 16 bytes on a K8.  A patch site is a jump label or a lock      *)
(* prefix, in either state in the image and in the guest, or one of the    *)
(* other changes that the scan knows.  A page has two sites with at most   *)
(* four bytes between them, or one site (a jump label may cross the end of *)
(* the page) and at most one byte that something else has changed, or no   *)
(* site and the end of the kernel's text, or a text that does not reach the*)
(* page.  Pages with a part of the hypercall page have one site, or a run  *)
(* of changed bytes.                                                       *)
(***************************************************************************)
EXTENDS CodePage

MCSize == 16
MCBytes == {"66", "90", "0f", "1f", "44", "00", "e9", "e8", "3e", "f0", "d0",
            "xx", "yy"}
MCNop5 == <<"66", "66", "90", "66", "90">>
MCNopAtomic == <<"66", "66", "66", "66", "90">>

\* the operand of a jump label's jmp, with bytes that the nop has too
Operand == <<"d0", "66", "00", "00">>
Jump == <<"e9">> \o Operand

\* the contents that a patch site may have: in the image, in the guest
Contents(kind) ==
  CASE kind = "label" -> [loaded : {MCNop5, Jump}, mem : {MCNopAtomic, Jump}]
    [] kind = "lock" -> [loaded : {<<"3e">>, <<"f0">>}, mem : {<<"3e">>, <<"f0">>}]
    [] kind = "short" -> [loaded : {<<"0f", "1f", "44", "00", "00">>},
                          mem : {<<"66", "66", "66", "66", "90">>}]
    [] kind = "empty" -> [loaded : {<<"e9", "00", "00", "00", "00">>},
                          mem : {MCNopAtomic}]
    [] kind = "split" -> [loaded : {<<"90", "66", "90">>},
                          mem : {<<"66", "66", "90">>}]
    [] kind = "unrolled" -> [loaded : {<<"e8", "00", "d0", "00", "00">>},
                             mem : {<<"e8", "d0", "00", "d0", "00">>}]

Site == UNION {[at : 0..(MCSize - 1), kind : {kind}, is : Contents(kind)] :
                 kind \in {"label", "lock", "short", "empty", "split", "unrolled"}}

End(s) == s.at + Len(s.is.loaded)

Sites == {s \in Site : /\ End(s) <= MCSize \/ s.kind = "label"
                       /\ s.kind = "split" => s.at = 0}

Pairs == {S \in {{s1, s2} : s1 \in {s \in Sites : s.at <= 3}, s2 \in Sites} :
            \E s1, s2 \in S : s2.at - End(s1) \in 0..4}

Content(S, image, foreign) ==
  [k \in 0..(MCSize + 3) |->
     IF k \in foreign THEN "yy"
     ELSE IF \E s \in S : k \in s.at..(End(s) - 1)
     THEN LET s == CHOOSE s \in S : k \in s.at..(End(s) - 1)
          IN s.is[image][k - s.at + 1]
     ELSE "xx"]

PageOf(S, foreign, initialised) ==
  [loaded      |-> Content(S, "loaded", {}),
   mem         |-> Content(S, "mem", foreign),
   isKernel    |-> TRUE,
   hypercall   |-> {},
   initialised |-> initialised,
   labels      |-> {s.at : s \in {s \in S : s.kind = "label"}},
   target      |-> [k \in 0..(MCSize - 1) |-> Operand],
   unrolled    |-> {s.at + 1 : s \in {s \in S : s.kind = "unrolled"}},
   locks       |-> {s.at : s \in {s \in S : s.kind = "lock"}},
   sites       |-> {[first |-> s.at, last |-> End(s) - 1] : s \in S},
   foreign     |-> foreign]

NoneOrOne == {{}} \cup {{k} : k \in 0..(MCSize - 1)}

WithHypercall(p) == [p EXCEPT !.hypercall = 4..7]

MCPages ==
  {PageOf(S, {}, MCSize) : S \in Pairs}
    \cup {PageOf({s}, foreign, MCSize) : s \in Sites, foreign \in NoneOrOne}
    \cup {PageOf({}, foreign, 10) : foreign \in NoneOrOne}
    \cup {[PageOf({}, foreign, 10) EXCEPT !.isKernel = FALSE] : foreign \in NoneOrOne}
    \cup {PageOf({}, {}, -1)}
    \cup {WithHypercall(PageOf({s}, {}, MCSize)) : s \in Sites}
    \cup {WithHypercall(PageOf({}, j..k, MCSize)) : j, k \in 0..(MCSize - 1)}
=============================================================================
