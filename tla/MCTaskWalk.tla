---------------------------- MODULE MCTaskWalk ----------------------------
(***************************************************************************)
(* Memory for six tasks and pids up to 6: up to three tasks besides pids 0,*)
(* 1 and 2, and one more whose memory is used again.                       *)
(***************************************************************************)
EXTENDS TaskWalk

CONSTANTS init, child, kthreadd, a, b, c

MCSlots == {init, child, kthreadd, a, b, c}
=============================================================================
