---------------------------- MODULE MCPtrClass ----------------------------
(***************************************************************************)
(* A program, a library whose text ends where the vdso begins, and a file  *)
(* that is mapped but no library: their texts are the executable mappings, *)
(* the data of the program and the library and the stack are searched.     *)
(***************************************************************************)
EXTENDS PtrClass

Mapping(name, exec, start, end) ==
  [name |-> name, special |-> name \in {"[vdso]", "[stack]"}, used |-> name = "[stack]",
   exec |-> exec, write |-> ~exec, start |-> start, end |-> end]

MCVMAs ==
  << Mapping("prog", TRUE, 10, 20),
     Mapping("prog", FALSE, 20, 30),
     Mapping("libc", TRUE, 200, 220),
     Mapping("[vdso]", TRUE, 220, 230),
     Mapping("libc", FALSE, 230, 240),
     Mapping("data", TRUE, 240, 250),
     Mapping("[stack]", FALSE, 300, 310) >>

None == [len |-> 0, op |-> "other"]
I(n) == [len |-> n, op |-> "other"]
Call(n) == [len |-> n, op |-> "call"]
Ret == [len |-> 1, op |-> "ret"]

\* from 8: an instruction, a call, an instruction and the return; 11 and 12
\* begin calls in the middle of instructions, 16 nothing
LibcText ==
  << None, None, None, None, None, None, None, None,
     I(2), I(4), Call(3), Call(2), Call(2), I(2), I(1), Ret, None, I(3), I(11), I(1) >>

ProgText == << None, None, None, None, None, I(1), Ret, None, None, None >>

Section(offset, size, kind) == [offset |-> offset, size |-> size, kind |-> kind]

MCLibraries ==
  [name \in {"prog", "libc", "[vdso]"} |->
     CASE name = "prog" ->
            [sections |-> <<Section(3, 7, "code")>>, entry |-> 6, text |-> ProgText]
       [] name = "libc" ->
            [sections |-> <<Section(4, 4, "allowed"), Section(7, 12, "code")>>,
             entry |-> 0, text |-> LibcText]
       [] name = "[vdso]" ->
            [sections |-> <<Section(0, 10, "code")>>, entry |-> 1, text |-> ProgText]]

MCSymbols == {15, 208, 220}

\* three quadwords with others between them, the last of which is not read
Content(a, b, c) ==
  [k \in 1..17 |-> CASE k = 1 -> a [] k = 9 -> b [] k = 17 -> c [] OTHER -> 0]

StackPtrs == {0, 14, 16, 206, 208, 209, 210, 213, 214, 216, 217, 218, 219, 220, 225, 245}

MCMemories ==
  {[s \in Sections |->
      CASE s = 2 -> Content(p, p, 0) [] s = 5 -> IF d = 0 THEN <<0>> ELSE Content(d, e, 0)
        [] s = 7 -> Content(x, y, z)
        [] OTHER -> <<>>] :
   p \in {16}, d \in {0, 16, 213}, e \in {16, 220},
   x \in StackPtrs, y \in StackPtrs, z \in {213}}
=============================================================================
