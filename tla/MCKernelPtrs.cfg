SPECIFICATION Spec
CONSTANTS
  Size <- MCSize
  Bytes <- MCBytes
  Functions <- MCFunctions
  None = "none"
  Indirect = "indirect"
  LongMax = "longmax"
  Named <- MCNamed
  KvmWrite <- MCKvmWrite
  About <- MCAbout
  Areas <- MCAreas
INVARIANTS
  TypeOK
  PointersAccountedFor
  ReturnsLinked
  RoDataReported
