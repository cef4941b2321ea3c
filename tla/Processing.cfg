SPECIFICATION MCSpec
CONSTANTS
  Workers = {c1, c2}
  remote = remote
  local = local
  page = page
  fields = fields
  Jobs = {page, fields}
  StageOf <- MCStageOf
  RetryWith <- MCRetryWith
  Providers = {remote, local}
  Kind <- MCKind
  AutoSchema = {remote}
  Timeout <- MCTimeout
  BaseLease = 2
  Margin = 1
  RetryAfters = {3}
  MinCool = 1
  DefaultCool = 2
  MaxCool = 3
  Backoff = 1
  MaxAttempts = 2
  MaxActs = 1
  MaxElapsed = 5
  None = None
  askOcr = askOcr
  askFields = askFields
  process = process
  ocrDone = ocrDone
  fieldsDone = fieldsDone
  processed = processed
  failed = failed
  old = old
  pick = pick
  fresh = fresh
  rule = rule
  Tags = {askOcr, askFields, process, ocrDone, fieldsDone, processed, failed, old, pick, fresh, rule}
  Catalog = {askOcr, askFields, process, ocrDone, fieldsDone, processed, failed, old, pick, rule}
  Named = {pick, askFields, fresh}
  TriggersOf <- MCTriggersOf
  ProcessTag = process
  DoneTag <- MCDoneTag
  ProcessedTag = processed
  FailedTags <- MCFailedTags
  RuleTags = {rule}
  AiManaged = {old}
  Policies <- MCPolicies
  MaxTags = 2
  MaxTries = 2
  MaxErrors = 1
  MaxPaperEdits = 1
  Docs = {1, 2}
  Pollers = {p1, p2}
  Requests = {a1}
  Enabled = {"metadata"}
  PeopleTags = {process}
  Overlap = 2
  Skews <- MCSkews
  Limit = 1
  BudgetWindow = 1
  DayLimit = 1
  DayWindow = 2
  FailCap = 2
  Cooloff = 1
  MaxClock = 2
  MaxRuns = 2
  MaxEdits = 1
  MaxFaults = 1
  MaxCalls = 1
  Unset = Unset
SYMMETRY MCSymmetry
INVARIANTS
  OneCallPerJob
  CooldownRespected
  ReviewKeepsWorkflowTags
  TagsTellOutcome
  EditsReachInventory
  NoTriggerLoop
PROPERTIES
  OnlyVettedWritten
CHECK_DEADLOCK FALSE
