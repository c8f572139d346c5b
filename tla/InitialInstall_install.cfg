SPECIFICATION FairSpec
CONSTANTS
  Shas = {s1, s2}
  None = none
  Changes = {"probe", "mail", "oauth"}
  NumDbs = 2
  MaxFaults = 4
INVARIANTS
  Safety
  ReleaseIsPromoted
PROPERTIES
  MigratesOwnDatabases
  InstallsOnce
  InstallCompletes
