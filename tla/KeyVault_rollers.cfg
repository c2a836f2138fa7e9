SPECIFICATION Spec
CONSTANTS
  s1 = s1
  s2 = s2
  Servers = {s1, s2}
  Rollers = {s1, s2}
  Threads <- RefreshThreads
  Refusals = {"NOT_FOUND", "DENIED"}
  MaxPuts = 3
  MaxCrashes = 1
INVARIANTS HeldKeysComeFromVault PreviousKeyKept
PROPERTIES VersionsGrow RefreshIsAtomic
