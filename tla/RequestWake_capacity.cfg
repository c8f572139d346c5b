SPECIFICATION Spec
CONSTANTS
  FirstGroup = "ai_worker"
  MaxSize <- RoomySize
  MaxFaults = 0
  MaxScalings = 1
  MaxReplacements = 0
PROPERTIES
  WakeRetainsCapacity
