SPECIFICATION FairSpec
CONSTANTS
  FirstGroup = "ai_worker"
  MaxSize <- TightSize
  MaxFaults = 1
  MaxScalings = 0
  MaxReplacements = 0
INVARIANTS
  IntentCoversMutation
PROPERTIES
  WakeNotCancelled
  AwakeOnlyWhenReady
  WakeCompletes
  SleepSettles
  RequestWakes
