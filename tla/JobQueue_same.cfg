SPECIFICATION FairSpec
CONSTANTS
  Docs = {d1}
  Runs = {r1}
  RunDoc <- MCOneDoc
  Workers = {w1}
  Generations = {1, 2}
  NoWorker = NoWorker
  NoRun = NoRun
  MaxReviews = 1
  MaxAttempts = 2
  InfraCeiling = 2
  MaxInterventions = 0
INVARIANTS
  Consistent
PROPERTIES
  RunsSettle
CHECK_DEADLOCK FALSE
