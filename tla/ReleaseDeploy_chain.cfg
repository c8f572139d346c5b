SPECIFICATION Spec
CONSTANTS
  Base = base
  None = none
  Releases = {base, r1, r2}
  Runs = {p1, p2}
  Ops = {"maintenance", "recover"}
  NumJobs = 2
  Order <- OneApp
  PlatformWaits = TRUE
  MaxFaults = 2
INVARIANTS
  Safety
  ReplacedOnSettledKafka
  AppsOnReviewedSchema
