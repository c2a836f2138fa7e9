\* The refresh thread and an HTTP thread share one client.
SPECIFICATION Spec
CONSTANTS
  Threads = {refresh, request}
  MaxTokens = 3
SYMMETRY ThreadSymmetry
INVARIANTS
  TypeOK
  RefusedOnlyIfDisturbed
PROPERTIES
  AtMostOnce
