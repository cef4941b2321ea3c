SPECIFICATION FairSpec
CONSTANTS
  Humans = {p1}
  Drains = {w1}
  Recoverers = {r1}
  Hashes = {h1}
  NoOne = NoOne
  MaxRetries = 0
  MaxCrashes = 1
  MaxErrors = 1
  MaxEdits = 0
PROPERTIES
  DecisionNotStranded
CHECK_DEADLOCK FALSE
