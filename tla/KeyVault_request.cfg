SPECIFICATION ExistingKeySpec
CONSTANTS
  s1 = s1
  s2 = s2
  Servers = {s1, s2}
  Rollers = {s2}
  Threads <- AndRequestThread
  Refusals = {}
  MaxPuts = 3
  MaxCrashes = 0
INVARIANT PreviousKeyKept
