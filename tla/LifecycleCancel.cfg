SPECIFICATION Spec
CONSTANTS
  Conns = {c1}
  MaxReruns = 0
INVARIANT CancellationIsNormal
