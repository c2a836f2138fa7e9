SPECIFICATION Spec
CONSTANTS
  Keys = {k1, k2, k3, k4}
  ZeroKey = ZeroKey
  Torn = Torn
  NoQuote = NoQuote
  VersionSpan = 3
  Clients = {c1}
  HostVerify = {c1}
  ExpectIdentity = {}
SYMMETRY KeySymmetry
INVARIANTS
  TypeOK
  QuietPredictSucceeds
  QuietPredictConverges
  RepeatedOnlyIfDisturbed
PROPERTY
  CallsAreBounded
