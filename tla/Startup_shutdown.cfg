SPECIFICATION StartSpec
CONSTANTS
  HttpThreads = 1
  CommandLines <- MCCommandLines
  Environments <- MCEnvironments
INVARIANTS
  NoRefreshDuringDestroy
  NoLostWakeup
  RefreshHasServer
  ServesItsModel
  VaultIfAsked
  OneKindOfVault
PROPERTIES
  DestructorReturns
  RefreshKeepsRunning
\* The process ends.
CHECK_DEADLOCK FALSE
