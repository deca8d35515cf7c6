--------------------------- MODULE UserCodePage ---------------------------
(***************************************************************************)
(* The loop of ProcessValidator::validateCodePage, which compares a code   *)
(* mapping of a process with the text segment of its file.  It reads the   *)
(* mapping from the guest up to the first page that is not present,        *)
(* compares what it got, skips a page and reads on behind it.  The guest   *)
(* pages its text in and out all the while.                                *)
(*                                                                         *)
(* The mapping begins and ends on a page boundary, so that bytesChecked and*)
(* the size of every vector are multiples of PAGESIZE: they are counted in *)
(* pages.  The last page of the text may be partly filled; of it, only the *)
(* bytes of the text are compared.                                         *)
(*                                                                         *)
(* The names of the specification's parts differ from CodePage's: the      *)
(* proofs about the two comparisons are in one module.                     *)
(***************************************************************************)
EXTENDS Integers

CONSTANTS
  TextPages,  \* pages of textSegmentContent, the last one rounded up
  VmaSizes,   \* the pages that a mapping may have
  SpacePages, \* pages of address space from the mapping's start on
  WordPages   \* 2^64 / PAGESIZE

(***************************************************************************)
(* A mapping may have less pages than the text: nothing in the code rules  *)
(* it out.                                                                 *)
(***************************************************************************)
ASSUME SizeAssumption ==
  /\ TextPages \in Nat \ {0}
  /\ SpacePages \in Nat
  /\ VmaSizes \subseteq 0..SpacePages
  /\ WordPages \in Nat
  /\ TextPages + SpacePages <= WordPages

TextRange == 0..(TextPages - 1)
SpaceRange == 0..(SpacePages - 1)

VARIABLES
  vmaPages,     \* guest: pages of the mapping
  present,      \* guest: the pages that are in memory, in the mapping or behind
  differs,      \* guest: where it has something else than the file's text
  bytesChecked, \* in pages
  codevma,      \* pages in the vector that is being read
  label,        \* "while", "read", "compare", "intact", "mismatch" or "thrown"
  compared,     \* history: the pages of text that were compared
  absent        \* history: the pages that a read did not find

guest == <<vmaPages, present, differs>>
history == <<compared, absent>>
userVars == <<guest, bytesChecked, codevma, label, history>>

UserInit ==
  /\ vmaPages \in VmaSizes
  /\ present \in SUBSET SpaceRange
  /\ differs \in SUBSET TextRange
  /\ bytesChecked = 0
  /\ codevma = 0
  /\ label = "while"
  /\ compared = {}
  /\ absent = {}

\* the guest reads a page in, or takes it out of memory
PageInOrOut ==
  /\ \E p \in SpaceRange :
        present' = IF p \in present THEN present \ {p} ELSE present \cup {p}
  /\ UNCHANGED <<vmaPages, differs, bytesChecked, codevma, label, history>>

While ==
  /\ label = "while"
  /\ label' = IF bytesChecked < TextPages THEN "read" ELSE "intact"
  /\ codevma' = 0
  /\ UNCHANGED <<guest, bytesChecked, history>>

\* the length of the read counted from the start of the mapping
ToReadFromStart == vmaPages

\* vma->end - vma->start - bytesChecked, which is unsigned
ToRead ==
  IF bytesChecked <= vmaPages
  THEN vmaPages - bytesChecked
  ELSE WordPages + vmaPages - bytesChecked

\* readVectorFromVA, page by page
ReadPage ==
  /\ label = "read"
  /\ codevma < ToRead
  /\ bytesChecked + codevma \in present
  /\ codevma' = codevma + 1
  /\ UNCHANGED <<guest, bytesChecked, label, history>>

\* there may be no vector of the length that is asked for
ReadThrows ==
  /\ label = "read"
  /\ bytesChecked > vmaPages
  /\ label' = "thrown"
  /\ UNCHANGED <<guest, bytesChecked, codevma, history>>

ReadEnds ==
  /\ label = "read"
  /\ codevma = ToRead \/ bytesChecked + codevma \notin present
  /\ label' = "compare"
  /\ absent' = absent \cup {p \in {bytesChecked + codevma} : codevma < ToRead}
  /\ UNCHANGED <<guest, bytesChecked, codevma, compared>>

\* the comparison starts over at the beginning of the file
ChunkFromStart == {p \in TextRange : p < codevma}

\* the pages of text in the vector: up to min(textsize - bytesChecked, size)
Chunk == {p \in TextRange : bytesChecked <= p /\ p < bytesChecked + codevma}

Mismatch ==
  /\ label = "compare"
  /\ Chunk \cap differs # {}
  /\ label' = "mismatch"
  /\ UNCHANGED <<guest, bytesChecked, codevma, history>>

\* one page too many
SkipTwo(checked) == IF checked < TextPages THEN checked + 2 ELSE checked

\* the page is read again until it is there
SkipNone(checked) == checked

\* the page behind the vector is skipped, if there is text in it
Skip(checked) == IF checked < TextPages THEN checked + 1 ELSE checked

ChunkIntact ==
  /\ label = "compare"
  /\ Chunk \cap differs = {}
  /\ compared' = compared \cup Chunk
  /\ bytesChecked' = Skip(bytesChecked + codevma)
  /\ label' = "while"
  /\ UNCHANGED <<guest, codevma, absent>>

Validate ==
  While \/ ReadPage \/ ReadThrows \/ ReadEnds \/ Mismatch \/ ChunkIntact

Ended == label \in {"intact", "mismatch", "thrown"}

UserNext ==
  \/ ~Ended /\ (PageInOrOut \/ Validate)
  \/ Ended /\ UNCHANGED userVars

\* the validation goes on, whatever the guest does
UserSpec == UserInit /\ [][UserNext]_userVars /\ WF_userVars(Validate)

-----------------------------------------------------------------------------
(* Properties.                                                             *)

(***************************************************************************)
(* Every variable has its type.  Nothing is read from behind a mapping that*)
(* has all of the text; of a smaller one, the length of the read wraps     *)
(* around, and the read goes on behind the mapping, in what the process has*)
(* there.                                                                  *)
(***************************************************************************)
UserTypeOK ==
  /\ vmaPages \in VmaSizes
  /\ present \subseteq SpaceRange /\ differs \subseteq TextRange
  /\ bytesChecked \in 0..(TextPages + SpacePages)
  /\ codevma \in 0..SpacePages
  /\ TextPages <= vmaPages =>
       /\ bytesChecked <= vmaPages
       /\ label = "read" => bytesChecked + codevma <= vmaPages
       /\ label # "thrown"
  /\ label \in {"while", "read", "compare", "intact", "mismatch", "thrown"}
  /\ compared \subseteq TextRange
  /\ absent \subseteq 0..(TextPages + SpacePages)

(***************************************************************************)
(* "An unmapped page can not be modified": a page of text goes unchecked   *)
(* only if the guest did not have it in memory at the moment it was to be  *)
(* read, whatever comes and goes before and after, or if it is the one     *)
(* directly behind a mapping that is smaller than the text.  If the mapping*)
(* is taken to be intact, every page that differs is one of those.         *)
(***************************************************************************)
OnlyAbsentUnchecked ==
  /\ \A p \in TextRange :
       p < bytesChecked => p \in compared \cup absent \cup {vmaPages}
  /\ compared \cap differs = {}
  /\ label = "intact" => differs \subseteq absent \cup {vmaPages}

(***************************************************************************)
(* No page of text is both compared and given up as absent, though it comes*)
(* and goes between the reads: each read begins behind the page that ended *)
(* the one before, in the mapping and behind it.                           *)
(***************************************************************************)
LookedAtOnce ==
  /\ compared \cap absent = {}
  /\ label = "while" =>
       \A p \in TextRange : p \in compared \cup absent => p < bytesChecked

(***************************************************************************)
(* The loop ends, even if the guest pages faster than it reads, and if the *)
(* length of a read has wrapped around.                                    *)
(***************************************************************************)
ValidationEnds == <>Ended
=============================================================================
