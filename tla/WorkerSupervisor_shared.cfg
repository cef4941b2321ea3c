SPECIFICATION Spec
CONSTANTS
  Jobs = {j1, j2}
  Generations = {g1, g2}
  Cap = 2
  MaxAttempts = 2
  Lease = 1
  Grace = 1
  Interval = 1
  StallLimit = 1
  MaxErrors = 0
  MaxRestarts = 0
SYMMETRY MCSymmetry
INVARIANTS
  CapacityRespected
CHECK_DEADLOCK FALSE
