--------------------------- MODULE MCKernelPtrs ---------------------------
(***************************************************************************)
(* Pages and stacks of 32 bytes: four quadwords, aligned or not, each of   *)
(* them zero, ones or a pointer.  The lower half of a pointer begins with  *)
(* the name of its kind.  Pages of read-only data differ from a file of    *)
(* zeros in a pointer, at any place, and in one more byte; those of a      *)
(* module are compared with yet other bytes.                               *)
(***************************************************************************)
EXTENDS KernelPtrs, Sequences

MCSize == 32
MCFunctions == {"f", "g", "h"}
MCNamed == {<<"f", "h">>}

Kinds == {"fn", "sy", "by", "lk", "ud", "tb", "db", "rf", "rg", "rh"}
MCBytes == {"ff", "00"} \cup Kinds

Other == [function |-> FALSE, symbol |-> FALSE, code |-> FALSE, beyond |-> FALSE,
          lock |-> FALSE, jump |-> FALSE, afterTable |-> FALSE, debug |-> FALSE,
          called |-> "none", inside |-> "none", targets |-> {}]
Code == [Other EXCEPT !.code = TRUE]

OfKind(kind) ==
  CASE kind = "fn" -> [Code EXCEPT !.function = TRUE, !.inside = "f"]
    [] kind = "sy" -> [Other EXCEPT !.symbol = TRUE]
    [] kind = "by" -> [Code EXCEPT !.beyond = TRUE]
    [] kind = "lk" -> [Code EXCEPT !.lock = TRUE, !.inside = "g"]
    [] kind = "ud" -> Code
    [] kind = "tb" -> [Code EXCEPT !.afterTable = TRUE, !.inside = "g"]
    [] kind = "db" -> [Code EXCEPT !.debug = TRUE]
    [] kind = "rf" -> [Code EXCEPT !.called = "g", !.inside = "f"]
    [] kind = "rg" -> [Code EXCEPT !.called = "indirect", !.inside = "g",
                                   !.targets = {"h"}]
    [] kind = "rh" -> [Code EXCEPT !.called = "indirect", !.inside = "h"]
    [] OTHER -> Other

MCAbout == [low \in Halves |->
              IF \A k \in 2..4 : low[k] = "00" THEN OfKind(low[1]) ELSE Other]

Half(b) == <<b, b, b, b>>
PointerOf(kind) == <<kind, "00", "00", "00">> \o Half("ff")
MCKvmWrite == PointerOf("fn")

Word(w) ==
  CASE w = "zero" -> Half("00") \o Half("00")
    [] w = "ones" -> Half("ff") \o Half("ff")
    [] OTHER -> PointerOf(w)

Memory(words, offset) ==
  [k \in Positions |->
     LET n == (k - offset) \div 8 IN
       IF k < offset \/ n > 3 THEN "00" ELSE Word(words[n + 1])[((k - offset) % 8) + 1]]

Zeros == Memory([n \in 1..4 |-> "zero"], 0)
Empty == [kind |-> "data", module |-> FALSE,
          mem |-> Zeros, file |-> Zeros, loaded |-> Zeros, sp |-> 4,
          ofStack |-> FALSE, breakpoint |-> -1, zero |-> -1]

Data(words, offset, breakpoint) ==
  [Empty EXCEPT !.mem = Memory(words, offset), !.breakpoint = breakpoint]

Stack(words, offset, sp) ==
  [Empty EXCEPT !.kind = "stack", !.mem = Memory(words, offset), !.sp = sp]

RoData(pointerAt, byteAt, zero) ==
  [Empty EXCEPT !.kind = "rodata", !.zero = zero,
                !.mem = [k \in Positions |->
                           IF k \in pointerAt..(pointerAt + 7)
                             THEN MCKvmWrite[k - pointerAt + 1]
                           ELSE IF k = byteAt THEN "ud" ELSE "00"]]

\* a module's page, compared with other bytes than those of its file
OfModule(a, other) == [a EXCEPT !.module = TRUE, !.loaded = other]

MCAreas ==
  {Data(w, o, b) : w \in [1..4 -> {"zero", "ones", "ud", "by", "rf"}],
                   o \in {0, 3}, b \in {-1, 0, 8}}
    \cup {Data(<<"ud", w, "db", "ud">>, 0, -1) : w \in {"fn", "sy", "lk", "tb"}}
    \cup {[Data(w, 0, -1) EXCEPT !.ofStack = TRUE] : w \in [1..4 -> {"ones", "ud"}]}
    \cup {Stack(w, o, s) : w \in [1..4 -> {"zero", "ones", "ud", "rf", "rg", "rh"}],
                           o \in {0, 3}, s \in {4, 12}}
    \cup {Stack(<<"rf", w, "by", "rg">>, 0, 4) : w \in {"fn", "sy", "lk", "tb"}}
    \cup {RoData(p, b, z) : p \in 0..31 \cup {40}, b \in 0..39, z \in {-1, 0}}
    \cup {OfModule(RoData(p, b, -1), RoData(q, b, -1).mem) :
             p \in {0, 40}, q \in {8, 40}, b \in {1, 39}}
=============================================================================
