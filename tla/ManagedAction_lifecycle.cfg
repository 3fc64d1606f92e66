SPECIFICATION Spec
CONSTANTS
  MaxRuns = 3
INVARIANTS
  KeepsItsPromise
  GivesBackItsBackup
PROPERTIES
  RunEnds
CHECK_DEADLOCK FALSE
