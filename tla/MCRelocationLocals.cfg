SPECIFICATION RelocSpec
CONSTANTS
  Kernel = kernel
  Process1 = p1
  Process2 = p2
  ElfFiles <- MCElfFiles
  Owners <- MCOwners
  KnownSymbols <- MCKnownSymbols
  KnownFunctions <- MCKnownFunctions
  MaxRounds = 3
INVARIANTS
  LocalNamesUnique
