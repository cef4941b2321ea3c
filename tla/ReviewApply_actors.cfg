SPECIFICATION FairSpec
CONSTANTS
  Humans = {p1}
  Drains = {w1}
  Recoverers = {r1}
  Hashes = {h1}
  NoOne = NoOne
  MaxRetries = 1
  MaxCrashes = 1
  MaxErrors = 2
  MaxEdits = 1
INVARIANTS
  TypeOK
  WriterOwnsIntent
  AppliedHasEvidence
PROPERTIES
  NoBlindRepeat
  ApplyingEnds
CHECK_DEADLOCK FALSE
