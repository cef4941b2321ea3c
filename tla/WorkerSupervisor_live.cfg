SPECIFICATION MCSpec
CONSTANTS
  Jobs = {j1}
  Generations = {g1, g2}
  Cap = 2
  MaxAttempts = 2
  Lease = 1
  Grace = 1
  Interval = 1
  StallLimit = 1
  MaxErrors = 3
  MaxRestarts = 1
INVARIANTS
  NoFalseAlarm
  LiveTaskRegistered
  CleanDrain
PROPERTIES
  SlotsComeBack
  ClaimLoopRecovers
  HungTaskCleared
CHECK_DEADLOCK FALSE
