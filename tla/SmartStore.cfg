SPECIFICATION SmartFairSpec
CONSTANTS
  Volumes = {hot, cold}
  SameSecond = FALSE
  MaxKeys = 2
  MaxEdits = 2
  MaxFaults = 1
INVARIANTS
  SmartTypeOK
PROPERTIES
  
  
  ChangesNoticed
CHECK_DEADLOCK FALSE
