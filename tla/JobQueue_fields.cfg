SPECIFICATION Spec
CONSTANTS
  Docs = {d1}
  Runs = {r1}
  RunDoc <- MCOneDoc
  Workers = {w1}
  Generations = {1}
  NoWorker = NoWorker
  NoRun = NoRun
  MaxReviews = 2
  MaxAttempts = 2
  InfraCeiling = 2
  MaxInterventions = 0
INVARIANTS
  ReviewCreationKeepsLease
CHECK_DEADLOCK FALSE
