SPECIFICATION Spec
CONSTANTS
  key1 = key1
  key2 = key2
  NopMax = 8
  PageSize = 16
  Keys <- MCKeys
  AnyClobbers <- MCAnyClobbers
  Insns <- MCInsns
  Files <- MCFiles
INVARIANTS
  TypeOK
  LoadedTextExplained
PROPERTY PatchStaysInSite
