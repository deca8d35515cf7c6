-------------------------- MODULE MCUserCodePage --------------------------
(***************************************************************************)
(* Text of four pages.  In a mapping of five: an absent page at the        *)
(* beginning or the end of the text, two of them next to each other, and a *)
(* read that runs to the end of the mapping.  In a mapping of two: the page*)
(* behind it is skipped, and the length of the next read wraps around.     *)
(***************************************************************************)
EXTENDS UserCodePage
=============================================================================
