SPECIFICATION Spec
CONSTANTS
  Base = base
  None = none
  Releases = {base, r1, r2}
  Runs = {p1}
  Ops = {"maintenance", "recover"}
  NumJobs = 1
  Order <- OneApp
  PlatformWaits = FALSE
  MaxFaults = 2
PROPERTIES
  RecoveryRefusalIsReal
