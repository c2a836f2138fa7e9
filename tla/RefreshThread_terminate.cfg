SPECIFICATION Spec
CONSTANT HttpThreads = 1
INVARIANTS
  ErrorHandlerSurvives
\* The process ends.
CHECK_DEADLOCK FALSE
