--------------------------- MODULE MCKernelScan ---------------------------
(***************************************************************************)
(* Three pages: one of kernel text, one that both segments of a module     *)
(* claim, and an executable one at 0xffffc9..., in the vmalloc area, that  *)
(* belongs to no module.  Two tasks.                                       *)
(***************************************************************************)
EXTENDS KernelScan, TLC

CONSTANTS text, edge, vmalloc, t1, t2

MCPages == {text, edge, vmalloc}
MCTasks == {t1, t2}

MCInfo ==
  (text :> [bits48up |-> 0, bits40to47 |-> 255,
            code |-> TRUE, data |-> FALSE, exec |-> TRUE])
  @@ (edge :> [bits48up |-> 0, bits40to47 |-> 255,
               code |-> TRUE, data |-> TRUE, exec |-> TRUE])
  @@ (vmalloc :> [bits48up |-> 0, bits40to47 |-> 201,
                  code |-> FALSE, data |-> FALSE, exec |-> TRUE])

=============================================================================
