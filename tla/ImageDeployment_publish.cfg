SPECIFICATION DeploySpec
CONSTANTS
  NumRepos = 2
  Services = {"access", "frontend"}
  ServiceOrder <- TwoServices
  RepoOf <- TwoRepos
  TreeOf <- TwoTrees
  LastCommit = 2
  LastRecipe = 1
  Keep = 1
  MaxAttempts = 2
  MaxIncidents = 1
INVARIANTS
  DeployInv
  PublishedIsTested
PROPERTIES
  UnchangedServiceStays
