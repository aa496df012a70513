SPECIFICATION Spec
CONSTANTS
  Requests = {r1, r2, r3}
  Rate = 1
  Burst = 2
  Ticks = 2
  MaxTime = 4
SYMMETRY Perms
INVARIANT AggregateBound
