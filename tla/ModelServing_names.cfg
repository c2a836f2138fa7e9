SPECIFICATION Spec
CONSTANTS
  Conns = {c1, c2}
  HttpThreads = 2
  OutputCount = 2
SYMMETRY ConnSymmetry
INVARIANT AllOutputsIncluded
