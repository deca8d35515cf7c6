SPECIFICATION FairSpec
CONSTANTS
  t1 = t1
  t2 = t2
  kt = kt
  sh = sh
  ed = ed
  libc = libc
  libm = libm
  libz = libz
  plugin = plugin
  old = old
  tmp = tmp
  copy = copy
  Vdso = vdso
  NoMm = NoMm
  Gone = Gone
  None = None
  Tasks <- MCTasks
  KernelTasks <- MCKernelTasks
  Files <- MCFiles
  Programs <- MCPrograms
  Elf <- MCElf
  Needed <- MCNeeded
  Rank <- MCRank
  Located <- MCLocated
  Vmas <- MCVmas
  Tails <- MCTails
  MaxExecs = 1
INVARIANTS
  TypeOK
  LibraryMapClosed
  ParsedOnce
  RelocatedForThisProcess
  ComparedWithOwnFile
PROPERTIES
  ScanEnds
