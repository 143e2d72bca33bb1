SPECIFICATION RotationFairSpec
CONSTANTS
  MaxReplicas = 2
  MinReplicas = 1
  Images = {i1}
  Claims = {}
  Verdicts = {"ready", "wait", "error"}
  KeepsGoing = TRUE
  NoRevision = NoRevision
  MaxEdits = 1
  MaxSecrets = 2
  MaxFaults = 1
  PatientUser = FALSE
  DropsErrors = FALSE
  MaxKeys = 2
INVARIANTS
  LoggedIn
PROPERTIES
  NoLockOut
  RotationCompletes
  ImplementsPods
CHECK_DEADLOCK FALSE
