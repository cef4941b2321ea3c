SPECIFICATION Spec
CONSTANTS
  Humans = {p1}
  Drains = {}
  Recoverers = {r1}
  Hashes = {h1}
  NoOne = NoOne
  MaxRetries = 0
  MaxCrashes = 0
  MaxErrors = 1
  MaxEdits = 0
INVARIANTS
  FencedWhileUnresolved
CHECK_DEADLOCK FALSE
