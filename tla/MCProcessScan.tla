--------------------------- MODULE MCProcessScan ---------------------------
(***************************************************************************)
(* Two user tasks, which may exec and exit, and a kernel task.             *)
(*                                                                         *)
(* sh needs libc, and has ed's file mapped as data.  ed needs libm, which  *)
(* needs libc too; it has a plugin mapped that only the search path finds  *)
(* (the version on disk needs libz) and a second copy of libc, in a        *)
(* directory outside of the search path.  old needs a library that is not  *)
(* on disk, tmp is itself not on disk.                                     *)
(***************************************************************************)
EXTENDS ProcessScan

CONSTANTS t1, t2, kt, sh, ed, old, tmp, libc, libm, libz, plugin,
          copy

MCTasks == {t1, t2, kt}
MCKernelTasks == {kt}
MCPrograms == {sh, ed, old, tmp}
MCElf == {sh, ed, old, libc, libm, libz, plugin, copy}
MCFiles == MCElf \cup {tmp, Vdso}

MCNeeded == [f \in MCFiles |->
  CASE f = sh -> <<libc>>
    [] f = ed -> <<libm, libc>>
    [] f = old -> <<libm, None>>
    [] f = libm -> <<libc>>
    [] f = plugin -> <<libm, libz>>
    [] OTHER -> <<>>]

MCRank == [f \in MCFiles |->
  IF MCNeeded[f] = <<>> THEN 0 ELSE IF f = libm THEN 1 ELSE 2]

MCLocated == [f \in MCFiles |->
  CASE f \in {libc, libm, libz, plugin} -> f
    [] f = copy -> libc
    [] OTHER -> None]

Segments(f) == [file |-> f, as |-> "segments"]
Plain(f) == [file |-> f, as |-> "plain"]

MCVmas == [p \in MCPrograms |->
  CASE p = sh -> <<Segments(sh), Plain(ed), Segments(libc), Segments(Vdso)>>
    [] p = ed -> <<Segments(ed), Segments(copy), Segments(plugin),
                   Segments(libm), Segments(libc), Segments(Vdso)>>
    [] OTHER -> <<Segments(p), Segments(libc), Segments(Vdso)>>]

\* copy is /lib/libc.so, of a container, and ed lies in /var/c/lib/libc.so
MCTails == [p \in MCPrograms |-> IF p = ed THEN {ed, copy} ELSE {p}]
=============================================================================
