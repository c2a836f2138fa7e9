SPECIFICATION ServerSpec
CONSTANTS
  Keys = {k1, k2, k3, k4, k5, k6}
  ZeroKey = ZeroKey
  Torn = Torn
  NoQuote = NoQuote
  VersionSpan = 3
INVARIANTS
  RetryCompletesRefresh
