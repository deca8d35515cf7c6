SPECIFICATION Spec
CONSTANTS
  Size <- MCSize
  Bytes <- MCBytes
  Nop5 <- MCNop5
  NopAtomic <- MCNopAtomic
  Pages <- MCPages
INVARIANTS
  TypeOK
  NoFalseAlarm
  ChangesAccountedFor
