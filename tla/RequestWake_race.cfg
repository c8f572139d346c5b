SPECIFICATION Spec
CONSTANTS
  FirstGroup = "ai_worker"
  MaxSize <- TightSize
  MaxFaults = 0
  MaxScalings = 1
  MaxReplacements = 1
INVARIANTS
  IInv
  AsleepMeansGone
  AwakeKeepsCapacity
  QueryAccepted
PROPERTIES
  ForeignGroupUntouched
