-------------------------- MODULE ModuleLoadingAbs --------------------------
(***************************************************************************)
(* What Kernel::loadAllModules promises its caller, threads and locks left *)
(* out: modules become available one at a time, each only after all those  *)
(* it depends on, none is ever taken back, and when the call returns every *)
(* module of the guest's list is available.  It may instead end the        *)
(* process.                                                                *)
(***************************************************************************)
EXTENDS Naturals

CONSTANTS
  AbsModules,  \* all modules
  AbsDeps      \* AbsDeps[m]: the modules that m depends on

VARIABLES
  wanted,   \* the guest's module list
  loaded,   \* the modules whose loader can be had
  outcome   \* of the call: "running", "returned" or "aborted"

absVars == <<wanted, loaded, outcome>>

AbsInit ==
  /\ wanted \in SUBSET AbsModules
  /\ loaded = {}
  /\ outcome = "running"

Load(m) ==
  /\ outcome = "running"
  /\ m \notin loaded
  /\ AbsDeps[m] \subseteq loaded
  /\ loaded' = loaded \cup {m}
  /\ UNCHANGED <<wanted, outcome>>

Return ==
  /\ outcome = "running"
  /\ wanted \subseteq loaded
  /\ outcome' = "returned"
  /\ UNCHANGED <<wanted, loaded>>

AbortLoading ==
  /\ outcome = "running"
  /\ outcome' = "aborted"
  /\ UNCHANGED <<wanted, loaded>>

AbsNext == (\E m \in AbsModules : Load(m)) \/ Return \/ AbortLoading

AbsSpec == AbsInit /\ [][AbsNext]_absVars
=============================================================================
