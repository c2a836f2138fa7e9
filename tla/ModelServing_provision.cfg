SPECIFICATION Spec
CONSTANTS
  Conns = {c1, c2}
  HttpThreads = 2
  OutputCount = 2
SYMMETRY ConnSymmetry
INVARIANTS
  TypeOK
  ModelNotLost
  AnnouncedIsLoaded
  OwnKeyDecrypts
  FaultsOnlyIfMisused
  AnswersAreComplete
PROPERTIES
  LoadedForGood
