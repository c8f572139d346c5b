SPECIFICATION LiveSpec
CONSTANTS
  NumRepos = 1
  Services = {"access"}
  RepoOf <- OneRepo
  TreeOf <- OneTrees
  LastCommit = 2
  LastRecipe = 2
  Keep = 1
  MaxAttempts = 2
  MaxIncidents = 2
INVARIANTS
  PublishedAsBuilt
PROPERTIES
  TestedHeadsPublished
  PublishesOnce
