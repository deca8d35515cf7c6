SPECIFICATION FairSpec
CONSTANTS
  Modules <- MCModules
  Names <- MCNames
  Canon <- MCCanon
  Deps <- MCDeps
  Rank <- MCRank
  Threads = {t1, t2, t3}
  None = None
INVARIANTS
  TypeOK
  OneLoaderPerModule
  DependencySymbolsResolved
  WaitersDescend
PROPERTIES
  LoadsInOrder
  LoadingEnds
