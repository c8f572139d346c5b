SPECIFICATION Spec
CONSTANTS
  NumRepos = 1
  Services = {"access"}
  RepoOf <- OneRepo
  TreeOf <- OneTrees
  LastCommit = 1
  LastRecipe = 1
  Keep = 2
  MaxAttempts = 2
  MaxIncidents = 2
INVARIANTS
  CreatedOnce
