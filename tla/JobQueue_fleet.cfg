SPECIFICATION Spec
CONSTANTS
  Docs = {d1}
  Runs = {r1, r2}
  RunDoc <- MCOneDoc
  Workers = {w1, w2}
  Generations = {1}
  NoWorker = NoWorker
  NoRun = NoRun
  MaxReviews = 2
  MaxAttempts = 2
  InfraCeiling = 2
  MaxInterventions = 1
SYMMETRY MCSymmetry
ACTION_CONSTRAINT MCFleet
INVARIANTS
  OwnedJobsAreLive
  StageOrder
  InventoryMirrorsRun
  RunActiveIffWorkLeft
  RunOutcomeMatchesJobs
PROPERTIES
  JobTableRespected
  ImplementsLifecycle
CHECK_DEADLOCK FALSE
