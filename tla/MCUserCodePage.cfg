SPECIFICATION UserSpec
CONSTANTS
  TextPages = 4
  VmaSizes = {2, 5}
  SpacePages = 6
  WordPages = 16
INVARIANTS
  UserTypeOK
  OnlyAbsentUnchecked
  LookedAtOnce
PROPERTIES
  ValidationEnds
