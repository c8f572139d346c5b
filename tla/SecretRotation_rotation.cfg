SPECIFICATION Spec
CONSTANTS
  Runs = {p1, p2}
  MaxKeys = 3
  MaxEdits = 1
  MaxFaults = 2
SYMMETRY RunSymmetry
INVARIANTS
  Safety
  EditsKept
  ReportsAreTrue
PROPERTIES
  KeysKeptUntilRetired
  SyncedWhenReported
