SPECIFICATION Spec
CONSTANTS
  VMAs <- MCVMAs
  Libraries <- MCLibraries
  Symbols <- MCSymbols
  Printable = {210, 217}
  PieBase = 100
  Phdr = 4
  Far = 8
  Memories <- MCMemories
INVARIANTS
  TypeOK
  StatsAgree
  PointersCounted
  UnknownUnlessExplained
