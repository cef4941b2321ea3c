SPECIFICATION Spec
CONSTANTS
  Runs = {r1, r2}
  Sessions = {s1, s2}
  NoSession = NoSession
  NoRun = NoRun
SYMMETRY MCSymmetry
INVARIANTS
  StatementsConsistent
  OnlyBackfilledWorkStrands
  NoWaitCycle
PROPERTIES
  CommitsImplementLifecycle
