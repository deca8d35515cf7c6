SPECIFICATION Spec
CONSTANTS
  init = init
  child = child
  kthreadd = kthreadd
  a = a
  b = b
  c = c
  Null = Null
  Slots <- MCSlots
  InitTask = init
  Child = child
  Kthreadd = kthreadd
  MaxPid = 6
INVARIANTS
  TypeOK
  SurvivorsFound
PROPERTIES
  WalkEnds
