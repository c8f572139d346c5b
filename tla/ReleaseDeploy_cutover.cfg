SPECIFICATION Spec
CONSTANTS
  Base = base
  None = none
  Releases = {base, r1}
  Runs = {p1}
  Ops = {"deploy", "rollback", "maintenance", "recover"}
  NumJobs = 1
  Order <- TwoApps
  PlatformWaits = FALSE
  MaxFaults = 1
INVARIANTS
  MigratesOffline
  RecordIsReviewed
  DowntimeKept
  NoMixedTraffic
  ContainmentHolds
PROPERTIES
  SuccessIsLive
