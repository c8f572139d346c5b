SPECIFICATION FairSpec
CONSTANTS
  PartCount = 2
  MaxPolls = 4
  MaxFaults = 4
CHECK_DEADLOCK FALSE
INVARIANTS
  Safety
  CleanAfterPass
  LeftoversTold
PROPERTIES
  ReportWritten
